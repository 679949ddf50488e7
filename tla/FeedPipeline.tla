----------------------------- MODULE FeedPipeline -----------------------------
(***************************************************************************)
(* The feed production of one mission, on top of its task graph, under the *)
(* in-process orchestrator with AUTO_FEED_PRODUCTION_ENABLED               *)
(* (mission_feed_production_service.py, task_graph_executor.py).  A run of *)
(* the pipeline waits in the debounce dictionary of its process ("task")   *)
(* or is awaited by the reconcile pass of the tick ("tick").  It may write *)
(* the row of the feed review, which the graph writes too, and it plans    *)
(* the production jobs of the factory.                                     *)
(* The lock of the pipeline is a key of missions.performance_summary, a    *)
(* JSON value that every writer reads, changes and writes back whole.      *)
(* The graph itself is MissionPlan, which TaskGraph implements.  What it   *)
(* leaves out, and the pipeline reads, is the output of the nodes: of the  *)
(* ideation nodes together ("pool"), and that of a package node is there   *)
(* or is blank.                                                            *)
(***************************************************************************)
EXTENDS Naturals, FiniteSets

CONSTANTS Nodes, Deps, Derived,
          Ideation,       \* content_ideation nodes
          Package,        \* content_calendar and visual_design_cards nodes
          Review,         \* the feed_cohesion_review node
          Feeding,        \* nodes whose completion schedules a run
          Procs,
          MaxAttempts,    \* FEED_RECONCILE_MAX_ATTEMPTS
          MaxFaults,      \* bound: crashes
          MaxPlanFaults,  \* bound: plans that fail
          MaxWrites,      \* bound: other writes of the summary
          MaxLong,        \* bound: runs that outlast a back-off of the reconcile pass
          MaxRestarts     \* bound: restarts by the operator

ASSUME FeedAssumption ==
  /\ Deps \in [Nodes -> SUBSET Nodes]
  /\ Ideation \subseteq Nodes /\ Ideation # {} /\ Package \subseteq Nodes
  /\ Review \in Nodes \ (Ideation \cup Package) /\ Feeding \subseteq Nodes
  /\ Derived = {Review}
  /\ MaxAttempts \in Nat /\ MaxFaults \in Nat /\ MaxPlanFaults \in Nat
  /\ MaxWrites \in Nat /\ MaxLong \in Nat /\ MaxRestarts \in Nat

VARIABLES state, closed,   \* of MissionPlan: the nodes, and whether the mission is completed
          pool,            \* what the ideation nodes have put out: nothing of 20 characters, text, or ideas
          blank,           \* package nodes that completed with an empty output_summary
          run,             \* run[p][k]: where the run k of process p stands
          lock,            \* feed_production_lock: fresh, or older than its 15 minutes
          writer,          \* per process, what another writer of the summary has read of it
          factory,         \* the mission has production jobs
          attempts,        \* feed_reconcile.attempts
          rested,          \* the back-off of the reconcile pass has elapsed
          others,          \* other missions are active, all the time or never
          faults, planFaults, writes, long, restarts,
          broken           \* history: two runs went for the lock at once, or a run inside lost it

plan == <<state, closed>>
output == <<pool, blank>>
counts == <<faults, planFaults, writes, long, restarts>>
vars == <<state, closed, output, run, lock, writer, factory, attempts, rested, others, counts, broken>>

Graph == INSTANCE MissionPlan

Kinds == {"task", "tick"}
RunPoints == {"none", "due", "deferring", "gated", "taking", "locked", "reviewing", "planning",
              "releasing"}
(* "aged" is a lock that was live at the last attempt of the reconcile pass. *)
LockStates == {"none", "live", "aged", "old"}
Summary == [lock: LockStates, attempts: 0..MaxAttempts]
Idle == [lock |-> "idle"]
(* _feed_production_lock_active *)
NeverActive(l) == FALSE
AlwaysActive(l) == l # "none"
LockActive(l) == l \in {"live", "aged"}

Inside == {"locked", "reviewing", "planning", "releasing"}
Holders == {r \in Procs \X Kinds : run[r[1]][r[2]] \in Inside}

Init ==
  /\ Graph!Init
  /\ pool = "none" /\ blank = {}
  /\ run = [p \in Procs |-> [k \in Kinds |-> "none"]]
  /\ lock = "none"
  /\ writer = [p \in Procs |-> Idle]
  /\ factory = FALSE
  /\ attempts = 0 /\ rested = TRUE
  /\ others \in BOOLEAN
  /\ faults = 0 /\ planFaults = 0 /\ writes = 0 /\ long = 0 /\ restarts = 0
  /\ broken = FALSE

RunAt(p, k, x) == run[p][k] = x
RunMoves(p, k, x) == run' = [run EXCEPT ![p][k] = x]

(* _schedule_ensure_mission_feed: an entry of the dictionary that is not done absorbs the call. *)
Scheduled(rn, p) == IF rn[p]["task"] = "none" THEN [rn EXCEPT ![p]["task"] = "due"] ELSE rn

(* The lock becomes l; a run that is inside may lose it. *)
LockBecomes(l) ==
  /\ lock' = l
  /\ broken' = (broken \/ (Holders # {} /\ ~LockActive(l)))

Pools == {"none", "text", "ideas"}
(* What another ideation node may make of the outputs so far. *)
Richer == [none |-> Pools, text |-> {"text", "ideas"}, ideas |-> {"ideas"}]
(* The output_summary that comes with the completion of a node. *)
Yields(n) ==
  /\ pool' \in IF n \in Ideation THEN Richer[pool] ELSE {pool}
  /\ blank' \in {blank, blank \cup ({n} \cap Package)}

-----------------------------------------------------------------------------
(* The graph.  A node that completes, and a mission that does, may schedule a run in the *)
(* process where that happens.  The graph does not review a feed without ideas.           *)

GraphFinishes(n, p) ==
  /\ ~closed /\ Graph!Finish(n) /\ (n = Review => pool = "ideas")
  /\ Yields(n)
  /\ run' = IF n \in Feeding THEN Scheduled(run, p) ELSE run
  /\ UNCHANGED <<lock, writer, factory, attempts, rested, others, counts, broken>>

GraphLoses ==
  /\ ~closed
  /\ \/ \E n \in Nodes : Graph!Lose(n)
     \/ \E S \in SUBSET Nodes : Graph!Drop(S, {})
  /\ UNCHANGED <<output, run, lock, writer, factory, attempts, rested, others, counts, broken>>

(* The write of _check_and_complete_mission drops the lock.  Out of _advance_after_node and   *)
(* of the factory it schedules a run, out of the tick and of _fail_node it does not.          *)
GraphCloses(p) ==
  /\ Graph!Close
  /\ LockBecomes("none")
  /\ run' \in {run, Scheduled(run, p)}
  /\ UNCHANGED <<output, writer, factory, attempts, rested, others, counts>>

Restarts ==
  /\ restarts < MaxRestarts /\ restarts' = restarts + 1
  /\ Graph!Restart
  /\ UNCHANGED <<output, run, lock, writer, factory, attempts, rested, others, faults, planFaults, writes,
                 long, broken>>

-----------------------------------------------------------------------------
(* A run of the pipeline. *)

Finished(n) == state[n] = "finished"

SomeIdea == pool = "ideas"
IdeasFinished == \A n \in Ideation \cup Package : Finished(n)

(* The gates of the trigger.  The ideation node that the run names is not looked at: that is *)
(* the last one listed, finished or not, and the list has no order.  A package node that      *)
(* completed without output is pending for ever.                                              *)
GateOnSome(named) == SomeIdea
Gate(named) == /\ \A n \in Ideation \ {named} : Finished(n)
               /\ \A n \in Package : Finished(n) /\ n \notin blank

(* ensure_mission_feed_production.  A run ends when the mission has its jobs, or has open ones  *)
(* to drain; it goes on to the ideas when there are none yet, fewer than the package asks for,  *)
(* or only settled ones.  Without an idea it ends; else it waits for the others, or goes for    *)
(* the lock.                                                                                     *)
Begins(p, k) ==
  /\ RunAt(p, k, "due")
  /\ \/ (factory \/ ~SomeIdea) /\ RunMoves(p, k, "none")
     \/ /\ SomeIdea
        /\ \E named \in Ideation : RunMoves(p, k, IF Gate(named) THEN "gated" ELSE "deferring")
  /\ UNCHANGED <<plan, output, lock, writer, factory, attempts, rested, others, counts, broken>>

(* The call for another run in 90 or 120 seconds: from a run that is in the dictionary itself *)
(* it is absorbed.                                                                              *)
Again(p, k) == LET ended == [run EXCEPT ![p][k] = "none"] IN
               run' = IF k = "task" THEN ended ELSE Scheduled(ended, p)

(* _reset_feed_cohesion_review_pending *)
Defers(p, k) ==
  /\ RunAt(p, k, "deferring")
  /\ state' = [state EXCEPT ![Review] = "open"]
  /\ Again(p, k)
  /\ UNCHANGED <<closed, output, lock, writer, factory, attempts, rested, others, counts, broken>>

(* _acquire_feed_production_lock: the read, and the write of what was read with a new lock. *)
ReadsLock(p, k) ==
  /\ RunAt(p, k, "gated")
  /\ IF LockActive(lock) THEN Again(p, k) ELSE RunMoves(p, k, "taking")
  /\ broken' = (broken \/ (~LockActive(lock) /\ \E q \in Procs : \E j \in Kinds : RunAt(q, j, "taking")))
  /\ UNCHANGED <<plan, output, lock, writer, factory, attempts, rested, others, counts>>

Takes(p, k) ==
  /\ RunAt(p, k, "taking")
  /\ RunMoves(p, k, "locked")
  /\ lock' = "live"
  /\ UNCHANGED <<plan, output, writer, factory, attempts, rested, others, counts, broken>>

(* A completed review is used as it stands, if its report has assignments and is of the same  *)
(* package; otherwise the run reviews the feed itself, also over a completed review.           *)
FindsReview(p, k) ==
  /\ RunAt(p, k, "locked") /\ state[Review] = "finished"
  /\ RunMoves(p, k, "planning")
  /\ UNCHANGED <<plan, output, lock, writer, factory, attempts, rested, others, counts, broken>>

StartsReview(p, k) ==
  /\ RunAt(p, k, "locked")
  /\ state' = [state EXCEPT ![Review] = "open"]
  /\ RunMoves(p, k, "reviewing")
  /\ UNCHANGED <<closed, output, lock, writer, factory, attempts, rested, others, counts, broken>>

EndsReview(p, k) ==
  /\ RunAt(p, k, "reviewing")
  /\ \E s \in {"finished", "lost"} : state' = [state EXCEPT ![Review] = s]
  /\ RunMoves(p, k, "planning")
  /\ UNCHANGED <<closed, output, lock, writer, factory, attempts, rested, others, counts, broken>>

(* enqueue_mission_jobs upserts the rows, and another run is to resume the drain in 180     *)
(* seconds; or it fails, and so does the inline production in its place.                     *)
Plans(p, k) ==
  /\ RunAt(p, k, "planning")
  /\ \/ /\ factory' = TRUE /\ UNCHANGED counts
        /\ run' = Scheduled([run EXCEPT ![p][k] = "releasing"], p)
     \/ /\ RunMoves(p, k, "releasing")
        /\ planFaults < MaxPlanFaults /\ planFaults' = planFaults + 1
        /\ UNCHANGED <<factory, faults, writes, long, restarts>>
  /\ UNCHANGED <<plan, output, lock, writer, attempts, rested, others, broken>>

(* _release_feed_production_lock: whoever has taken it. *)
Releases(p, k) ==
  /\ RunAt(p, k, "releasing")
  /\ RunMoves(p, k, "none")
  /\ lock' = "none"
  /\ UNCHANGED <<plan, output, writer, factory, attempts, rested, others, counts, broken>>

RunSteps(p, k) ==
  \/ Begins(p, k) \/ Defers(p, k) \/ ReadsLock(p, k) \/ Takes(p, k) \/ FindsReview(p, k)
  \/ StartsReview(p, k) \/ EndsReview(p, k) \/ Plans(p, k) \/ Releases(p, k)

-----------------------------------------------------------------------------
(* The reconcile pass: a completed mission with an ideation output of more than 20 characters  *)
(* and no jobs, a few times, with a back-off of 15 minutes and more.  The tick comes to it only *)
(* if some mission is active.                                                                    *)
ReconcilesOnceMore(p) ==
  /\ RunAt(p, "tick", "none")
  /\ others /\ closed /\ ~factory /\ pool # "none"
  /\ attempts <= MaxAttempts /\ rested
  /\ attempts' = attempts + 1 /\ rested' = FALSE
  /\ lock' = IF lock = "live" THEN "aged" ELSE lock
  /\ RunMoves(p, "tick", "due")
  /\ UNCHANGED <<plan, output, writer, factory, others, counts, broken>>
Reconciles(p) ==
  /\ RunAt(p, "tick", "none")
  /\ others /\ closed /\ ~factory /\ pool # "none"
  /\ attempts < MaxAttempts /\ rested
  /\ attempts' = attempts + 1 /\ rested' = FALSE
  /\ lock' = IF lock = "live" THEN "aged" ELSE lock
  /\ RunMoves(p, "tick", "due")
  /\ UNCHANGED <<plan, output, writer, factory, others, counts, broken>>

(* Between the read and the write of a summary there are milliseconds. *)
MidWrite == \E p \in Procs : writer[p] # Idle \/ \E k \in Kinds : run[p][k] = "taking"

(* The back-off, fifteen minutes and more: a lock that was there at the last attempt is too *)
(* old to count.  A run that lasts longer is counted.                                        *)
UnderWay == \E p \in Procs : \E k \in Kinds : ~RunAt(p, k, "none")
QuarterPasses ==
  /\ ~rested /\ ~MidWrite
  /\ UnderWay => long < MaxLong
  /\ long' = IF UnderWay THEN long + 1 ELSE long
  /\ rested' = TRUE
  /\ LockBecomes(IF lock = "aged" THEN "old" ELSE lock)
  /\ UNCHANGED <<plan, output, run, writer, factory, attempts, others, faults, planFaults, writes,
                 restarts>>

Lapses ==
  /\ LockActive(lock) /\ ~MidWrite
  /\ LockBecomes("old")
  /\ UNCHANGED <<plan, output, run, writer, factory, attempts, rested, others, counts>>

(* Another writer of the summary: the end of a drain, a cost entry, telemetry.  An attempt    *)
(* that it undoes had been due.                                                               *)
SummaryRead(p) ==
  /\ writer[p] = Idle /\ writes < MaxWrites
  /\ writes' = writes + 1
  /\ writer' = [writer EXCEPT ![p] = [lock |-> lock, attempts |-> attempts]]
  /\ UNCHANGED <<plan, output, run, lock, factory, attempts, rested, others, faults, planFaults, long,
                 restarts, broken>>

SummaryWritten(p) ==
  /\ writer[p] # Idle
  /\ writer' = [writer EXCEPT ![p] = Idle]
  /\ LockBecomes(writer[p].lock)
  /\ attempts' = writer[p].attempts
  /\ rested' = (rested \/ attempts # writer[p].attempts)
  /\ UNCHANGED <<plan, output, run, factory, others, counts>>

(* A process dies with its runs, and starts again. *)
Crash(p) ==
  /\ faults < MaxFaults /\ faults' = faults + 1
  /\ run' = [run EXCEPT ![p] = [k \in Kinds |-> "none"]]
  /\ writer' = [writer EXCEPT ![p] = Idle]
  /\ UNCHANGED <<plan, output, lock, factory, attempts, rested, others, planFaults, writes, long, restarts,
                 broken>>

-----------------------------------------------------------------------------
Next ==
  \/ \E p \in Procs, n \in Nodes : GraphFinishes(n, p)
  \/ GraphLoses \/ Restarts
  \/ \E p \in Procs : \/ GraphCloses(p) \/ Reconciles(p) \/ Crash(p)
                      \/ SummaryRead(p) \/ SummaryWritten(p)
                      \/ \E k \in Kinds : RunSteps(p, k)
  \/ QuarterPasses \/ Lapses

Spec == Init /\ [][Next]_vars

(* A run is a coroutine whose crew and calls end; the reconcile pass is part of the five-minute *)
(* tick; the graph closes a mission whose nodes are settled (MissionSettles of TaskGraph).      *)
Fairness ==
  /\ \A p \in Procs : /\ WF_vars(Reconciles(p)) /\ WF_vars(SummaryWritten(p))
                      /\ \A k \in Kinds : WF_vars(RunSteps(p, k))
  /\ WF_vars(QuarterPasses)
FairSpec == Spec /\ Fairness

-----------------------------------------------------------------------------
FeedTypeOK ==
  /\ state \in [Nodes -> {"open", "finished", "lost", "dropped"}] /\ closed \in BOOLEAN
  /\ pool \in Pools /\ blank \subseteq Package
  /\ run \in [Procs -> [Kinds -> RunPoints]]
  /\ lock \in LockStates
  /\ writer \in [Procs -> Summary \cup {Idle}]
  /\ factory \in BOOLEAN
  /\ attempts \in 0..MaxAttempts /\ rested \in BOOLEAN /\ others \in BOOLEAN
  /\ faults \in 0..MaxFaults /\ planFaults \in 0..MaxPlanFaults
  /\ writes \in 0..MaxWrites /\ long \in 0..MaxLong /\ restarts \in 0..MaxRestarts
  /\ broken \in BOOLEAN

(* Jobs are planned from ideas, and from the output of every node but one, the ideation node *)
(* that the gate leaves out, although the gates are read long before the plan, and other runs, *)
(* restarts and the graph write the rows meanwhile.                                             *)
FactoryHasIdeas ==
  factory => /\ SomeIdea
             /\ \A n \in Package : Finished(n) /\ n \notin blank
             /\ Cardinality({n \in Ideation : ~Finished(n)}) <= 1

(* Two runs are inside at once only after two went for the lock at once, or the lock was     *)
(* dropped by another writer of the summary or grew old while a run was inside; a crash, a   *)
(* restart or a run that releases does not do it (_acquire_feed_production_lock).            *)
FeedExcludes == broken \/ \A r, s \in Holders : r = s

(* A completed mission whose nodes have all left their outputs gets its jobs, whatever run    *)
(* dies, loses its turn or finds a lock that nobody holds, as long as other missions are active: *)
(* the tick that finds none returns before the reconcile pass                                    *)
(* (_reconcile_completed_missions_missing_feed).  A mission without a parsable idea, or with a  *)
(* blank calendar or design node, spends its attempts and is never planned.                      *)
FeedIsPlanned ==
  (closed /\ IdeasFinished /\ SomeIdea /\ blank = {} /\ restarts = 0)
     ~> (factory \/ restarts > 0 \/ ~others)
=============================================================================
