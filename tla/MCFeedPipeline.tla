--------------------------- MODULE MCFeedPipeline ---------------------------
(* Instances of FeedPipeline for TLC. *)
EXTENDS FeedPipeline, TLC

CONSTANTS a, b, c3, d, p1

(* two ideations, a calendar behind the first, the feed review behind both *)
WeekDeps == (a :> {}) @@ (b :> {}) @@ (c3 :> {a, b}) @@ (d :> {a})
(* one ideation node, and the calendar behind it *)
PlainDeps == (a :> {}) @@ (c3 :> {a}) @@ (d :> {a})
=============================================================================
