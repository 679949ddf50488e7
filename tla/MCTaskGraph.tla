---------------------------- MODULE MCTaskGraph ----------------------------
(* Instances of TaskGraph for TLC. *)
EXTENDS TaskGraph, TLC

CONSTANTS a, b, c3, p1, p2

AnyProc == Permutations({p1, p2})

(* ideation, then calendar and feed review behind it *)
ChainDeps == (a :> {}) @@ (b :> {a})
TriangleDeps == (a :> {}) @@ (b :> {a}) @@ (c3 :> {a, b})
LineDeps == (a :> {}) @@ (b :> {a}) @@ (c3 :> {b})
=============================================================================
