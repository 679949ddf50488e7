------------------------------ MODULE TaskGraph ------------------------------
(***************************************************************************)
(* The task graph of one mission (task_graph_executor.py): the rows of     *)
(* mission_task_nodes and the status of the mission, written by            *)
(*   - executions of nodes, one asyncio task each, in any process;         *)
(*   - advances, which read the ready nodes and launch executions;         *)
(*   - the stale sweep of the five-minute tick;                            *)
(*   - a starting process, which requeues what was running;                *)
(*   - the production factory, when its last slot settles;                 *)
(*   - the operator: approve, reject, cancel, restart.                     *)
(* A step is one transaction, with the reads just before it when what they *)
(* return is used by that transaction only.  Whatever a coroutine carries  *)
(* over an await to a later write is in its record: the retry count an     *)
(* execution has read, the nodes it is going to skip, the verdict that all *)
(* nodes are terminal, the row a sweep has found stale.                    *)
(***************************************************************************)
EXTENDS Naturals, FiniteSets

CONSTANTS Nodes,             \* the node_keys of the mission
          Deps,              \* depends_on of each node
          Derived,           \* the feed_cohesion_review nodes, which a restart always resets
          Ideation,          \* the content_ideation nodes
          Feeding,           \* nodes whose completion schedules the feed ensure; none if auto feed is off
          Procs,             \* backend processes: API replicas and Celery workers
          Copies,            \* bound: executions of one node that may overlap
          MAX_NODE_RETRIES,
          MaxFaults,         \* bound: crashes
          MaxRestarts,       \* bound: restarts and requeues by the operator
          MaxDisturbed       \* bound: launches and requeues of a row over a live execution

ASSUME GraphAssumption ==
  /\ Deps \in [Nodes -> SUBSET Nodes]
  /\ Derived \subseteq Nodes /\ Feeding \subseteq Nodes
  /\ Ideation \subseteq Nodes \ Derived
  /\ MAX_NODE_RETRIES \in Nat \ {0}
  /\ MaxFaults \in Nat
  /\ MaxRestarts \in Nat
  /\ MaxDisturbed \in Nat

VARIABLES mission,    \* missions.status
          node,       \* a row of mission_task_nodes: status and retry_count
          exec,       \* exec[n][c]: an execution of node n
          caller,     \* per process, an advance or a settled factory about to close the mission
          sweep,      \* per process, the stale row the tick is about to write
          up,         \* per process, whether it runs
          brand,      \* build_brand_info finds a brand context
          filled,     \* ideation nodes whose output_summary yields an idea
          factory,    \* production_jobs of the mission: none yet, some open, all settled
          faults, restarts,
          \* history, read by properties only
          done,       \* nodes that have completed
          lost,       \* nodes that have failed for good or were skipped
          skipLost,   \* an execution died between the failure of its node and the skip
          disturbed   \* how often a row was launched or requeued over a live execution

vars == <<mission, node, exec, caller, sweep, up, brand, filled, factory, faults, restarts,
          done, lost, skipLost, disturbed>>

MissionStatus == {"proposed", "approved", "in_flight", "completed", "rejected", "cancelled"}
Active == {"approved", "in_flight"}
Over == {"completed", "rejected", "cancelled"}

NodeStatus == {"pending", "running", "completed", "failed", "skipped"}
Terminal == {"completed", "failed", "skipped"}
Row == [status: NodeStatus, retry: Nat]

(* Where an execution stands.  "marked" has marked its row and not yet the mission; "failing" *)
(* has read the retry count; "skipping" has failed the node for good and read whom to skip;    *)
(* "after" is _advance_after_node.  The three "close" points have read that every node is      *)
(* terminal and go on to write the mission: out of _fail_node, out of _advance_after_node, out  *)
(* of advance_mission.                                                                           *)
Points == {"none", "launched", "marked", "working", "failing", "skipping", "after", "advancing",
           "closeFailed", "closeAfter", "closeAdvance"}
Execution == [at: Points, proc: Procs \cup {"none"}, seen: Nat, doomed: SUBSET Nodes]
Nobody == [at |-> "none", proc |-> "none", seen |-> 0, doomed |-> {}]
Starting(p) == [at |-> "launched", proc |-> p, seen |-> 0, doomed |-> {}]
Standing(x, point) == [at |-> point, proc |-> x.proc, seen |-> 0, doomed |-> {}]

(* It will still write the row of its node. *)
Live(x) == x.at \in {"launched", "marked", "working", "failing"}

(* What the sweep has read: the retry count, whether the mission was cancelled or rejected,   *)
(* and (for disturbed) whether an execution of the row was alive.                              *)
StaleRow == [node: Nodes, seen: Nat, over: BOOLEAN, alive: BOOLEAN]
NoRow == [node |-> "none"]

-----------------------------------------------------------------------------
(* What the statements read. *)

(* get_ready_nodes *)
ReadyWhenSettled(nd) == {n \in Nodes : /\ nd[n].status = "pending"
                                       /\ \A d \in Deps[n] : nd[d].status \in Terminal}
ReadyUnfinished(nd) == {n \in Nodes : /\ nd[n].status \notin Terminal
                                      /\ \A d \in Deps[n] : nd[d].status = "completed"}
Ready(nd) == {n \in Nodes : /\ nd[n].status = "pending"
                            /\ \A d \in Deps[n] : nd[d].status = "completed"}

(* the test of _check_and_complete_mission *)
AllAtRest(nd) == Nodes # {} /\ \A n \in Nodes : nd[n].status # "running"
AllTerminal(nd) == Nodes # {} /\ \A n \in Nodes : nd[n].status \in Terminal

(* The fixpoint of _skip_blocked_nodes: the least set with every failed or skipped node *)
(* that takes in each pending node one of whose dependencies it has.                     *)
Blocking(nd, B) ==
  /\ \A n \in Nodes : nd[n].status \in {"failed", "skipped"} => n \in B
  /\ \A n \in Nodes : nd[n].status = "pending" /\ Deps[n] \cap B # {} => n \in B
DoomedDirectly(nd) == {n \in Nodes : /\ nd[n].status = "pending"
                                     /\ \E d \in Deps[n] : nd[d].status \in {"failed", "skipped"}}
DoomedAndFailed(nd) == {n \in Nodes : \A B \in SUBSET Nodes : Blocking(nd, B) => n \in B}
Doomed(nd) == {n \in Nodes : /\ nd[n].status = "pending"
                             /\ \A B \in SUBSET Nodes : Blocking(nd, B) => n \in B}

(* What the statements write. *)
SetStatus(nd, n, s) == [nd EXCEPT ![n].status = s]
Skipped(nd, S) == [n \in Nodes |-> IF n \in S THEN [nd[n] EXCEPT !.status = "skipped"] ELSE nd[n]]
FailedUnnamed(nd, n, r) == [nd EXCEPT ![n] = [status |-> "error", retry |-> r]]
Failed(nd, n, r) == [nd EXCEPT ![n] = [status |-> "failed", retry |-> r]]
Retried(nd, n, r) == [nd EXCEPT ![n] = [status |-> "pending", retry |-> r]]

Free(x) == {c \in Copies : x[c].at = "none"}
CanLaunch(ex, R) == \A n \in R : Free(ex[n]) # {}
Launched(ex, R, p) ==
  [n \in Nodes |-> IF n \in R THEN [ex[n] EXCEPT ![CHOOSE c \in Free(ex[n]) : TRUE] = Starting(p)]
                              ELSE ex[n]]
(* An execution that has not marked its row yet is not seen by get_ready_nodes. *)
Overlaps(ex, R) == \E n \in R : \E c \in Copies : ex[n][c].at = "launched"

Attended(n) == \E c \in Copies : Live(exec[n][c])
At(n, c, p) == exec[n][c].at = p
Moves(n, c, point) == exec' = [exec EXCEPT ![n][c] = Standing(@, point)]
Ended(n, c) == [exec EXCEPT ![n][c] = Nobody]

(* A step that launches or requeues a row over a live execution, if E. *)
Disturbs(E) == /\ E => disturbed < MaxDisturbed
               /\ disturbed' = IF E THEN disturbed + 1 ELSE disturbed

Environment == <<up, brand, factory, faults, restarts>>
Apart == <<filled, Environment>>

Init ==
  /\ mission = "proposed"
  /\ node = [n \in Nodes |-> [status |-> "pending", retry |-> 0]]
  /\ exec = [n \in Nodes |-> [c \in Copies |-> Nobody]]
  /\ caller = [p \in Procs |-> "idle"]
  /\ sweep = [p \in Procs |-> NoRow]
  /\ up = [p \in Procs |-> TRUE]
  /\ brand \in BOOLEAN /\ filled = {}
  /\ factory = "none"
  /\ faults = 0 /\ restarts = 0
  /\ done = {} /\ lost = {}
  /\ skipLost = FALSE /\ disturbed = 0

-----------------------------------------------------------------------------
(* Advancing. *)

(* advance_mission by the tick or by a trigger: launch the ready nodes, or close the mission. *)
Advance(p) ==
  /\ up[p] /\ mission \in Active /\ caller[p] = "idle"
  /\ LET R == Ready(node) IN
       \/ /\ R # {} /\ CanLaunch(exec, R)
          /\ exec' = Launched(exec, R, p)
          /\ Disturbs(Overlaps(exec, R))
          /\ UNCHANGED caller
       \/ /\ R = {} /\ AllTerminal(node)
          /\ caller' = [caller EXCEPT ![p] = "closing"]
          /\ UNCHANGED <<exec, disturbed>>
  /\ UNCHANGED <<mission, node, sweep, done, lost, skipLost, Apart>>

(* try_complete_mission_when_factory_done: no look at the status of the mission. *)
FactoryAsks(p) ==
  /\ up[p] /\ factory = "done" /\ caller[p] = "idle" /\ AllTerminal(node)
  /\ caller' = [caller EXCEPT ![p] = "asking"]
  /\ UNCHANGED <<mission, node, exec, sweep, done, lost, skipLost, disturbed, Apart>>

(* The write of _check_and_complete_mission: deferred while the factory has open slots. *)
Closed == IF factory = "open" THEN "in_flight" ELSE "completed"

CallerCloses(p) ==
  /\ caller[p] # "idle"
  /\ mission' = Closed
  /\ caller' = [caller EXCEPT ![p] = "idle"]
  /\ UNCHANGED <<node, exec, sweep, done, lost, skipLost, disturbed, Apart>>

-----------------------------------------------------------------------------
(* An execution. *)

(* Step 1 of _execute_node: the row by its id, whatever its status; then, in a transaction of *)
(* its own, the mission.                                                                       *)
MarksRunning(n, c) ==
  /\ At(n, c, "launched")
  /\ node' = SetStatus(node, n, "running")
  /\ Moves(n, c, "marked")
  /\ UNCHANGED <<mission, caller, sweep, done, lost, skipLost, disturbed, Apart>>

MarksInFlight(n, c) ==
  /\ At(n, c, "marked")
  /\ mission' = IF mission = "approved" THEN "in_flight" ELSE mission
  /\ Moves(n, c, "working")
  /\ UNCHANGED <<node, caller, sweep, done, lost, skipLost, disturbed, Apart>>

(* _resolve_merged_ideation_summary finds an idea in the completed ideation; a calendar only  *)
(* adds to ideas.  The feed review needs one, and every node needs a brand context.           *)
HasIdeas == \E n \in Ideation : n \in filled /\ node[n].status = "completed"
Prepared(n) == brand /\ (n \in Derived => HasIdeas)

(* Unprepared: _fail_node with current_retry = 0, and a return that does not advance the graph. *)
FailsEarly(n, c) ==
  /\ At(n, c, "working") /\ ~Prepared(n)
  /\ node' = Retried(node, n, 1)
  /\ exec' = Ended(n, c)
  /\ UNCHANGED <<mission, caller, sweep, done, lost, skipLost, disturbed, Apart>>

(* The output may hold nothing that parses as an idea. *)
Succeeds(n, c) ==
  /\ At(n, c, "working") /\ Prepared(n)
  /\ node' = SetStatus(node, n, "completed")
  /\ filled' \in {filled \ {n}, filled \cup ({n} \cap Ideation)}
  /\ done' = done \cup {n}
  /\ Moves(n, c, "after")
  /\ UNCHANGED <<mission, caller, sweep, lost, skipLost, disturbed, Environment>>

(* The crew fails or times out: _get_retry_count. *)
Fails(n, c) ==
  /\ At(n, c, "working") /\ Prepared(n)
  /\ exec' = [exec EXCEPT ![n][c] = [Standing(@, "failing") EXCEPT !.seen = node[n].retry]]
  /\ UNCHANGED <<mission, node, caller, sweep, done, lost, skipLost, disturbed, Apart>>

FailsAgain(n, c) ==
  /\ At(n, c, "failing") /\ exec[n][c].seen + 1 <= MAX_NODE_RETRIES
  /\ node' = Retried(node, n, exec[n][c].seen + 1)
  /\ Moves(n, c, "after")
  /\ UNCHANGED <<mission, caller, sweep, done, lost, skipLost, disturbed, Apart>>

FailsForGoodReadFirst(n, c) ==
  /\ At(n, c, "failing") /\ exec[n][c].seen + 1 > MAX_NODE_RETRIES
  /\ node' = Failed(node, n, exec[n][c].seen + 1)
  /\ exec' = [exec EXCEPT ![n][c] = [Standing(@, "skipping") EXCEPT !.doomed = Doomed(node)]]
  /\ lost' = lost \cup {n}
  /\ UNCHANGED <<mission, caller, sweep, done, skipLost, disturbed, Apart>>
FailsForGood(n, c) ==
  /\ At(n, c, "failing") /\ exec[n][c].seen + 1 > MAX_NODE_RETRIES
  /\ node' = Failed(node, n, exec[n][c].seen + 1)
  /\ exec' = [exec EXCEPT ![n][c] = [Standing(@, "skipping") EXCEPT !.doomed = Doomed(node')]]
  /\ lost' = lost \cup {n}
  /\ UNCHANGED <<mission, caller, sweep, done, skipLost, disturbed, Apart>>

(* The UPDATE of _skip_blocked_nodes names the nodes and not their status; then the check. *)
SkipsBlocked(n, c) ==
  /\ At(n, c, "skipping")
  /\ node' = Skipped(node, exec[n][c].doomed)
  /\ lost' = lost \cup exec[n][c].doomed
  /\ Moves(n, c, IF AllTerminal(node') THEN "closeFailed" ELSE "after")
  /\ UNCHANGED <<mission, caller, sweep, done, skipLost, disturbed, Apart>>

(* _advance_after_node: nothing for a mission that is over, else close it or launch the next wave. *)
GoesOn(n, c) ==
  /\ At(n, c, "after")
  /\ LET R == Ready(node)
         ex == Ended(n, c) IN
       \/ /\ mission \notin Active
          /\ exec' = ex
          /\ UNCHANGED disturbed
       \/ /\ mission \in Active /\ AllTerminal(node)
          /\ Moves(n, c, "closeAfter")
          /\ UNCHANGED disturbed
       \/ /\ mission \in Active /\ ~AllTerminal(node) /\ CanLaunch(ex, R)
          /\ exec' = Launched(ex, R, exec[n][c].proc)
          /\ Disturbs(Overlaps(ex, R))
  /\ UNCHANGED <<mission, node, caller, sweep, done, lost, skipLost, Apart>>

(* The write of the check.  From _fail_node the execution goes on in any case; from        *)
(* _advance_after_node it goes on to advance_mission when the completion was deferred.     *)
Closes(n, c) ==
  /\ \E p \in {"closeFailed", "closeAfter", "closeAdvance"} : At(n, c, p)
  /\ mission' = Closed
  /\ CASE At(n, c, "closeFailed") -> Moves(n, c, "after")
       [] At(n, c, "closeAfter") /\ Closed = "in_flight" -> Moves(n, c, "advancing")
       [] OTHER -> exec' = Ended(n, c)
  /\ UNCHANGED <<node, caller, sweep, done, lost, skipLost, disturbed, Apart>>

(* advance_mission after a deferred completion. *)
AdvancesLast(n, c) ==
  /\ At(n, c, "advancing")
  /\ LET R == Ready(node)
         ex == Ended(n, c) IN
       \/ /\ mission \in Active /\ R # {} /\ CanLaunch(ex, R)
          /\ exec' = Launched(ex, R, exec[n][c].proc)
          /\ Disturbs(Overlaps(ex, R))
       \/ /\ mission \in Active /\ R = {} /\ AllTerminal(node)
          /\ Moves(n, c, "closeAdvance")
          /\ UNCHANGED disturbed
       \/ /\ mission \notin Active \/ (R = {} /\ ~AllTerminal(node))
          /\ exec' = ex
          /\ UNCHANGED disturbed
  /\ UNCHANGED <<mission, node, caller, sweep, done, lost, skipLost, Apart>>

-----------------------------------------------------------------------------
(* Recovery. *)

(* The SELECT of _recover_stale_running_nodes: running rows past their threshold.  A process  *)
(* takes a row it does not execute itself for an orphan after 45 seconds.                     *)
SweepReads(p, n) ==
  /\ up[p] /\ sweep[p] = NoRow
  /\ node[n].status = "running"
  /\ sweep' = [sweep EXCEPT ![p] = [node |-> n, seen |-> node[n].retry,
                                    over |-> mission \in {"cancelled", "rejected"},
                                    alive |-> Attended(n)]]
  /\ Disturbs(Attended(n))
  /\ UNCHANGED <<mission, node, exec, caller, done, lost, skipLost, Apart>>

(* The UPDATE, by the id of the row. *)
SweptOnceMore(row) ==
  LET n == row.node IN
  IF row.over THEN SetStatus(node, n, "failed")
  ELSE IF row.seen <= MAX_NODE_RETRIES THEN Retried(node, n, row.seen + 1)
  ELSE LET nd == Failed(node, n, row.seen + 1) IN Skipped(nd, Doomed(nd))
Swept(row) ==
  LET n == row.node IN
  IF row.over THEN SetStatus(node, n, "failed")
  ELSE IF row.seen < MAX_NODE_RETRIES THEN Retried(node, n, row.seen + 1)
  ELSE LET nd == Failed(node, n, row.seen + 1) IN Skipped(nd, Doomed(nd))

SweepWrites(p) ==
  /\ up[p] /\ sweep[p] # NoRow
  /\ LET n == sweep[p].node IN
       /\ node' = Swept(sweep[p])
       /\ Disturbs(~sweep[p].alive /\ (node[n].status # "running" \/ Attended(n)))
  /\ lost' = lost \cup {m \in Nodes : node'[m] # node[m] /\ node'[m].status \in {"failed", "skipped"}}
  /\ sweep' = [sweep EXCEPT ![p] = NoRow]
  /\ UNCHANGED <<mission, exec, caller, done, skipLost, Apart>>

(* A process dies with its tasks. *)
Crash(p) ==
  /\ up[p] /\ faults < MaxFaults
  /\ faults' = faults + 1
  /\ up' = [up EXCEPT ![p] = FALSE]
  /\ exec' = [n \in Nodes |-> [c \in Copies |-> IF exec[n][c].proc = p THEN Nobody ELSE exec[n][c]]]
  /\ caller' = [caller EXCEPT ![p] = "idle"]
  /\ sweep' = [sweep EXCEPT ![p] = NoRow]
  /\ skipLost' = (skipLost \/ \E n \in Nodes : \E c \in Copies :
                                exec[n][c].proc = p /\ exec[n][c].doomed # {})
  /\ UNCHANGED <<mission, node, brand, filled, factory, restarts, done, lost, disturbed>>

(* A Celery worker, or an API process without the scheduler, starts without recovery. *)
Boots(p) ==
  /\ ~up[p]
  /\ up' = [up EXCEPT ![p] = TRUE]
  /\ UNCHANGED <<mission, node, exec, caller, sweep, brand, filled, factory, faults, restarts,
                 done, lost, skipLost, disturbed>>

(* _requeue_orphaned_running_nodes_on_startup: every running row, whoever executes it. *)
Recovers(p) ==
  /\ ~up[p]
  /\ up' = [up EXCEPT ![p] = TRUE]
  /\ node' = [n \in Nodes |-> IF node[n].status = "running" THEN [node[n] EXCEPT !.status = "pending"]
                                                            ELSE node[n]]
  /\ Disturbs(\E n \in Nodes : /\ node[n].status = "running"
                               /\ \/ Attended(n)
                                  \/ \E q \in Procs : sweep[q] # NoRow)
  /\ UNCHANGED <<mission, exec, caller, sweep, brand, filled, factory, faults, restarts,
                 done, lost, skipLost>>

-----------------------------------------------------------------------------
(* The operator and the factory. *)

Decides ==
  /\ \/ mission = "proposed" /\ mission' = "approved"
     \/ mission \in {"proposed", "approved"} /\ mission' = "rejected"
     \/ mission \in Active /\ mission' = "cancelled"
  /\ UNCHANGED <<node, exec, caller, sweep, done, lost, skipLost, disturbed, Apart>>

(* restart_workspace_mission: what is not completed starts anew, and so do derived nodes. *)
Reset(n) == n \in Derived \/ node[n].status \in {"failed", "skipped", "running"}
MidStep == \/ \E p \in Procs : caller[p] # "idle" \/ sweep[p] # NoRow
           \/ \E n \in Nodes : \E c \in Copies : exec[n][c].at # "none"

Restarts ==
  /\ mission \in Active \cup {"cancelled", "completed"} /\ restarts < MaxRestarts
  /\ restarts' = restarts + 1
  /\ mission' = "in_flight"
  /\ node' = [n \in Nodes |-> IF Reset(n) THEN [status |-> "pending", retry |-> 0] ELSE node[n]]
  /\ skipLost' = FALSE
  /\ Disturbs(MidStep)
  /\ UNCHANGED <<exec, caller, sweep, up, brand, filled, factory, faults, done, lost>>

(* The operator configures the brand context. *)
GetsBrand ==
  /\ ~brand /\ brand' = TRUE
  /\ UNCHANGED <<mission, node, exec, caller, sweep, up, filled, factory, faults, restarts,
                 done, lost, skipLost, disturbed>>

(* The feed ensure plans production jobs; they settle. *)
FactoryPlans ==
  /\ factory = "none" /\ factory' = "open"
  /\ done \cap Feeding # {} \/ (Feeding # {} /\ mission = "completed")
  /\ UNCHANGED <<mission, node, exec, caller, sweep, up, brand, filled, faults, restarts,
                 done, lost, skipLost, disturbed>>

FactorySettles ==
  /\ factory = "open" /\ factory' = "done"
  /\ UNCHANGED <<mission, node, exec, caller, sweep, up, brand, filled, faults, restarts,
                 done, lost, skipLost, disturbed>>

(* A requeue by the operator opens settled slots again. *)
FactoryReopens ==
  /\ factory = "done" /\ factory' = "open"
  /\ restarts < MaxRestarts /\ restarts' = restarts + 1
  /\ UNCHANGED <<mission, node, exec, caller, sweep, up, brand, filled, faults,
                 done, lost, skipLost, disturbed>>

-----------------------------------------------------------------------------
Executes(n, c) ==
  \/ MarksRunning(n, c) \/ MarksInFlight(n, c)
  \/ FailsEarly(n, c) \/ Succeeds(n, c) \/ Fails(n, c)
  \/ FailsAgain(n, c) \/ FailsForGood(n, c) \/ SkipsBlocked(n, c)
  \/ GoesOn(n, c) \/ Closes(n, c) \/ AdvancesLast(n, c)

Process(p) ==
  \/ Advance(p) \/ FactoryAsks(p) \/ CallerCloses(p)
  \/ (\E n \in Nodes : SweepReads(p, n)) \/ SweepWrites(p)
  \/ Crash(p) \/ Boots(p) \/ Recovers(p)

Outside == Decides \/ Restarts \/ GetsBrand \/ FactoryPlans \/ FactorySettles \/ FactoryReopens

Next ==
  \/ \E n \in Nodes, c \in Copies : Executes(n, c)
  \/ \E p \in Procs : Process(p)
  \/ Outside

Spec == Init /\ [][Next]_vars

(* Tasks are scheduled by the event loop and every crew call has a timeout; ticks come every *)
(* five minutes in each process; a process is started again; the operator configures the    *)
(* brand, and the factory settles its slots (see ProductionQueue).                            *)
Fairness ==
  /\ \A n \in Nodes, c \in Copies : WF_vars(Executes(n, c))
  /\ \A p \in Procs : /\ WF_vars(Advance(p))
                      /\ WF_vars(CallerCloses(p))
                      /\ WF_vars(\E n \in Nodes : SweepReads(p, n))
                      /\ WF_vars(SweepWrites(p))
                      /\ WF_vars(Boots(p))
  /\ WF_vars(GetsBrand)
  /\ WF_vars(FactorySettles)
FairSpec == Spec /\ Fairness

-----------------------------------------------------------------------------
GraphTypeOK ==
  /\ mission \in MissionStatus
  /\ node \in [Nodes -> Row]
  /\ exec \in [Nodes -> [Copies -> Execution]]
  /\ caller \in [Procs -> {"idle", "closing", "asking"}]
  /\ sweep \in [Procs -> StaleRow \cup {NoRow}]
  /\ up \in [Procs -> BOOLEAN]
  /\ brand \in BOOLEAN /\ filled \subseteq Ideation /\ factory \in {"none", "open", "done"}
  /\ faults \in 0..MaxFaults /\ restarts \in 0..MaxRestarts
  /\ done \subseteq Nodes /\ lost \subseteq Nodes
  /\ skipLost \in BOOLEAN /\ disturbed \in 0..MaxDisturbed

(* No node is launched, running or completed before each of its dependencies has completed, *)
(* whatever is requeued, swept, restarted or executed twice meanwhile (get_ready_nodes).     *)
DependencyOrder ==
  \A n \in Nodes :
    (node[n].status \in {"running", "completed"} \/ \E c \in Copies : Live(exec[n][c]))
      => Deps[n] \subseteq done

(* A node is skipped only downstream of a node that has failed or was skipped                *)
(* (_skip_blocked_nodes), although the skip is written by key, after the rows were read.     *)
SkippedHasCause ==
  \A n \in Nodes : node[n].status = "skipped" => Deps[n] \cap lost # {}

(* Each launch or requeue of a row over a live execution makes room for one execution more,   *)
(* and nothing else does: until the first one, one execution works on a node (_fail_node, the *)
(* skip and get_ready_nodes do not put back the row of an execution at work).                  *)
LiveOnes(n) == {c \in Copies : Live(exec[n][c])}
BoundedExecutions == \A n \in Nodes : Cardinality(LiveOnes(n)) <= 1 + disturbed

(* Until a row is disturbed, a completed mission has nothing left to do: no sweep, retry or    *)
(* late verdict of _check_and_complete_mission leaves a pending or running node behind it.     *)
CompletedMissionIsDone ==
  disturbed = 0 /\ mission = "completed" => AllTerminal(node)

(* A node of an active mission that waits for a failed or skipped one is about to be skipped  *)
(* by the execution that failed, unless that one died (_fail_node: two transactions).          *)
NoNodeLeftBehind ==
  disturbed = 0 /\ ~skipLost /\ mission \in Active =>
    \A n \in Nodes :
      node[n].status = "pending" /\ (\E d \in Deps[n] : node[d].status \in {"failed", "skipped"})
        => \E m \in Nodes, c \in Copies : n \in exec[m][c].doomed

(* A node whose retries are spent is not run again: _fail_node and the sweep count in one    *)
(* column, from what they have read, and the requeues keep the count. A launch or requeue     *)
(* over a live execution, of which there may be several, buys one retry more.                  *)
RetryBudget ==
  \A n \in Nodes :
    /\ node[n].status \in {"pending", "running"} => node[n].retry <= MAX_NODE_RETRIES + disturbed
    /\ node[n].retry <= MAX_NODE_RETRIES + 1 + disturbed

(* The rows implement MissionPlan if no row is launched or requeued over a live execution:    *)
(* a node is finished, lost or dropped once, in dependency order, however often it is retried, *)
(* swept or requeued, and only a restart opens it again.                                        *)
Fate(s) == CASE s = "completed" -> "finished" [] s = "failed" -> "lost"
             [] s = "skipped" -> "dropped" [] OTHER -> "open"
fates == [n \in Nodes |-> Fate(node[n].status)]
Plan == INSTANCE MissionPlan WITH state <- fates, closed <- (mission = "completed")
ImplementsPlan == Plan!Spec

(* In a behaviour with disturbances, every step up to the first one is a step of the plan.    *)
KeepsPlanUntilDisturbed ==
  [][disturbed' = 0 => Plan!Next \/ UNCHANGED <<fates, mission = "completed">>]_vars

(* An approved mission ends, if its factory settles what it plans and no execution dies      *)
(* between the failure of its node and the skip of the others (advance_all_active_missions),  *)
(* or its feed review is barren from some time on: every ideation has completed without an    *)
(* idea, the review fails early at each tick, and neither a retry count nor a restart ends it. *)
Barren == \E n \in Derived : (\A d \in Deps[n] : node[d].status = "completed") /\ ~HasIdeas
MissionSettles == (mission = "approved") ~> (mission \in Over \/ skipLost \/ []Barren)
=============================================================================
