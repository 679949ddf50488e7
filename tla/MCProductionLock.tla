-------------------------- MODULE MCProductionLock --------------------------
(* Instances of ProductionLock for TLC: who serves which run.               *)
EXTENDS ProductionLock

CONSTANTS a, b, p1, p2

TwoProcesses == [r \in {a, b} |-> IF r = a THEN p1 ELSE p2]
OneProcess == [r \in {a, b} |-> p1]

Request(lane, kind, depth) == [lane |-> lane, kind |-> kind, depth |-> depth]

\* The worker repeats the produce call of a reel.
VideoOfMission == [r \in {a, b} |-> {Request("video", "internal", 2)}]

\* Workers' calls at one process; at the other a completion pass, a recovering call
\* without a mission, a request of the web client, which recovers nothing, and a
\* forced reel.
Mixed == [r \in {a, b} |->
  IF r = a THEN {Request("still", "internal", 2), Request("video", "internal", 2)}
  ELSE {Request("still", "completion", 2), Request("still", "internal", 1),
        Request("still", "public", 1), Request("video", "redo", 2)}]
=============================================================================
