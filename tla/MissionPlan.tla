----------------------------- MODULE MissionPlan -----------------------------
(***************************************************************************)
(* What a task graph promises of a mission: every node is finished, lost   *)
(* or dropped, once, after its dependencies; the mission is closed when    *)
(* nothing is open.  TaskGraph implements it.                              *)
(***************************************************************************)
CONSTANTS Nodes, Deps, Derived

VARIABLES state,    \* what has become of each node
          closed    \* the mission is completed

Init == /\ state = [n \in Nodes |-> "open"]
        /\ closed = FALSE

AfterDeps(n) == \A d \in Deps[n] : state[d] = "finished"

Finish(n) == /\ state[n] = "open" /\ AfterDeps(n)
             /\ state' = [state EXCEPT ![n] = "finished"]
             /\ UNCHANGED closed

(* A node is lost, and with it, at once or later, what depends on it. *)
Lose(n) == /\ state[n] = "open" /\ AfterDeps(n)
           /\ state' = [state EXCEPT ![n] = "lost"]
           /\ UNCHANGED closed

Gone(S) == {n \in Nodes : state[n] \in {"lost", "dropped"}} \cup S
Drop(S, L) ==
  /\ L \subseteq {n \in Nodes : state[n] = "open" /\ AfterDeps(n)}
  /\ S # {} /\ S \subseteq {n \in Nodes : state[n] = "open"}
  /\ \A n \in S : Deps[n] \cap Gone(S \cup L) # {}
  /\ state' = [n \in Nodes |-> IF n \in S THEN "dropped" ELSE IF n \in L THEN "lost" ELSE state[n]]
  /\ UNCHANGED closed

Close == /\ ~closed /\ Nodes # {} /\ \A n \in Nodes : state[n] # "open"
         /\ closed' = TRUE
         /\ UNCHANGED state

(* The factory has open slots again. *)
Reopen == /\ closed /\ closed' = FALSE
          /\ UNCHANGED state

(* The operator restarts the mission: finished work is kept, derived nodes are not. *)
Restart ==
  /\ state' = [n \in Nodes |-> IF n \in Derived \/ state[n] # "finished" THEN "open" ELSE state[n]]
  /\ closed' = FALSE

Next == \/ \E n \in Nodes : Finish(n) \/ Lose(n)
        \/ \E S \in SUBSET Nodes, L \in SUBSET Nodes : Drop(S, L)
        \/ Close \/ Reopen \/ Restart

Spec == Init /\ [][Next]_<<state, closed>>
=============================================================================
