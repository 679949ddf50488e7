------------------------- MODULE FeedPipeline_proofs -------------------------
(* Theorems about FeedPipeline, for any graph, any processes and any bounds. *)
EXTENDS FeedPipeline, FiniteSetTheorems, TLAPS

USE FeedAssumption DEF counts, plan, output

Runs == Procs \X Kinds
RunSpace == [Procs -> [Kinds -> RunPoints]]

\* A run named by its process and its kind.
LEMMA KindsArePoints ==
  /\ "task" \in Kinds /\ "tick" \in Kinds
  /\ Inside \subseteq RunPoints /\ "none" \in RunPoints /\ "due" \in RunPoints
BY DEF Kinds, RunPoints, Inside

\* One run moves and the others stay.
LEMMA OneMoves ==
  ASSUME NEW rn \in RunSpace, NEW p \in Procs, NEW k \in Kinds, NEW x \in RunPoints
  PROVE  /\ [rn EXCEPT ![p][k] = x] \in RunSpace
         /\ \A q \in Procs : \A j \in Kinds :
              [rn EXCEPT ![p][k] = x][q][j] = IF q = p /\ j = k THEN x ELSE rn[q][j]
BY DEF RunSpace

\* Scheduling a run makes an idle entry due, and nothing else.
LEMMA SchedulingIs ==
  ASSUME NEW rn \in RunSpace, NEW p \in Procs
  PROVE  /\ Scheduled(rn, p) \in RunSpace
         /\ \A q \in Procs : \A j \in Kinds :
              Scheduled(rn, p)[q][j] = rn[q][j] \/ Scheduled(rn, p)[q][j] = "due"
<1>1. CASE rn[p]["task"] = "none"
  <2>1. Scheduled(rn, p) = [rn EXCEPT ![p]["task"] = "due"]
    BY <1>1 DEF Scheduled
  <2>2. QED  BY <2>1, KindsArePoints DEF RunSpace
<1>2. CASE rn[p]["task"] # "none"
  BY <1>2 DEF Scheduled
<1>3. QED  BY <1>1, <1>2

\* A run that asks for another one has ended, and some run may be due.
LEMMA AgainIs ==
  ASSUME run \in RunSpace, NEW p \in Procs, NEW k \in Kinds, Again(p, k)
  PROVE  /\ run' \in RunSpace
         /\ \A q \in Procs : \A j \in Kinds :
              run'[q][j] = run[q][j] \/ run'[q][j] \in {"none", "due"}
<1> DEFINE ended == [run EXCEPT ![p][k] = "none"]
<1>1. /\ ended \in RunSpace
      /\ \A q \in Procs : \A j \in Kinds : ended[q][j] = IF q = p /\ j = k THEN "none" ELSE run[q][j]
  BY OneMoves, KindsArePoints
<1>2. run' = ended \/ run' = Scheduled(ended, p)
  BY DEF Again
<1> HIDE DEF ended
<1>3. CASE run' = ended
  BY <1>1, <1>3
<1>4. CASE run' = Scheduled(ended, p)
  <2>1. /\ Scheduled(ended, p) \in RunSpace
        /\ \A q \in Procs : \A j \in Kinds :
             Scheduled(ended, p)[q][j] = ended[q][j] \/ Scheduled(ended, p)[q][j] = "due"
    BY <1>1, SchedulingIs
  <2>2. QED  BY <1>1, <1>4, <2>1
<1>5. QED  BY <1>2, <1>3, <1>4

-----------------------------------------------------------------------------
(* What a step does to the runs, in three degrees. *)

\* A run stays, or rests.
Rests == \A q \in Procs : \A j \in Kinds :
           run'[q][j] = run[q][j] \/ run'[q][j] \in {"none", "due", "deferring"}
\* A run stays, rests, or goes from one point inside to another.
Slack == \A q \in Procs : \A j \in Kinds :
           \/ run'[q][j] = run[q][j] \/ run'[q][j] \in {"none", "due", "deferring", "gated"}
           \/ run[q][j] \in Inside /\ run'[q][j] \in Inside

LEMMA MovesRun ==
  ASSUME run \in RunSpace, NEW p \in Procs, NEW k \in Kinds, NEW x \in RunPoints, RunMoves(p, k, x)
  PROVE  /\ run' \in RunSpace
         /\ \A q \in Procs : \A j \in Kinds : run'[q][j] = IF q = p /\ j = k THEN x ELSE run[q][j]
<1>1. run' = [run EXCEPT ![p][k] = x]
  BY DEF RunMoves
<1>2. QED  BY <1>1 DEF RunSpace

-----------------------------------------------------------------------------
(* Types.  What each action does to the nodes, the runs and the rest.      *)

PlanType ==
  /\ state \in [Nodes -> {"open", "finished", "lost", "dropped"}] /\ closed \in BOOLEAN
  /\ pool \in Pools /\ blank \subseteq Package

\* The graph keeps the types of the plan, and what is finished, and its output, is kept but for
\* the review.
KeepsIdeas ==
  /\ SomeIdea => SomeIdea'
  /\ \A n \in Ideation \cup Package : Finished(n) => Finished(n)'
  /\ \A n \in Package : Finished(n) /\ n \notin blank => n \notin blank'

\* Ideas stay ideas, and an output that was there stays: only an open node finishes.
LEMMA FinishKeeps ==
  ASSUME PlanType, NEW n \in Nodes, Graph!Finish(n), Yields(n)
  PROVE  PlanType' /\ KeepsIdeas
<1>1. state[n] = "open" /\ state' = [state EXCEPT ![n] = "finished"] /\ closed' = closed
  BY DEF Graph!Finish
<1>2. pool' \in Pools /\ (pool = "ideas" => pool' = "ideas")
  <2>1. CASE pool' \in Richer[pool]
    BY <2>1 DEF PlanType, Pools, Richer
  <2>2. CASE pool' = pool
    BY <2>2 DEF PlanType
  <2>3. QED  BY <2>1, <2>2 DEF Yields
<1>3. blank' \subseteq Package /\ blank' \subseteq blank \cup {n}
  BY DEF PlanType, Yields
<1>4. PlanType'
  BY <1>1, <1>2, <1>3 DEF PlanType
<1>5. KeepsIdeas
  BY <1>1, <1>2, <1>3 DEF PlanType, KeepsIdeas, SomeIdea, Finished
<1>6. QED  BY <1>4, <1>5

LEMMA LoseKeeps ==
  ASSUME PlanType, NEW n \in Nodes, Graph!Lose(n), output' = output
  PROVE  PlanType' /\ KeepsIdeas
BY DEF PlanType, KeepsIdeas, SomeIdea, Finished, Graph!Lose

LEMMA DropKeeps ==
  ASSUME PlanType, NEW S \in SUBSET Nodes, Graph!Drop(S, {}), output' = output
  PROVE  PlanType' /\ KeepsIdeas
BY DEF PlanType, KeepsIdeas, SomeIdea, Finished, Graph!Drop

LEMMA RestartKeeps ==
  ASSUME PlanType, Graph!Restart, output' = output
  PROVE  PlanType' /\ KeepsIdeas
BY DEF PlanType, KeepsIdeas, SomeIdea, Finished, Graph!Restart

LEMMA ReviewKeeps ==
  ASSUME PlanType, NEW s \in {"open", "finished", "lost"},
         state' = [state EXCEPT ![Review] = s], closed' = closed, output' = output
  PROVE  PlanType' /\ KeepsIdeas
BY DEF PlanType, KeepsIdeas, SomeIdea, Finished

LEMMA PlanStays ==
  ASSUME PlanType, plan' = plan, output' = output
  PROVE  PlanType' /\ KeepsIdeas
BY DEF PlanType, KeepsIdeas, SomeIdea, Finished

\* What is typed besides the plan and the runs.
RestType ==
  /\ lock \in LockStates
  /\ writer \in [Procs -> Summary \cup {Idle}]
  /\ factory \in BOOLEAN
  /\ attempts \in 0..MaxAttempts /\ rested \in BOOLEAN /\ others \in BOOLEAN
  /\ faults \in 0..MaxFaults /\ planFaults \in 0..MaxPlanFaults
  /\ writes \in 0..MaxWrites /\ long \in 0..MaxLong /\ restarts \in 0..MaxRestarts
  /\ broken \in BOOLEAN
FeedType == PlanType /\ run \in RunSpace /\ RestType

LEMMA FeedTypeIs == FeedTypeOK <=> FeedType
BY DEF FeedTypeOK, FeedType, PlanType, RunSpace, RestType

LEMMA LockChanges ==
  ASSUME RestType, NEW l \in LockStates, LockBecomes(l)
  PROVE  lock' \in LockStates /\ broken' \in BOOLEAN
BY DEF RestType, LockBecomes

-----------------------------------------------------------------------------
(* What each action does to the runs and to what they hold.                *)

\* The lock counts as it did, or not any more, and then a run inside it has lost it.
LockKept == LockActive(lock)' = LockActive(lock) /\ broken' = broken
LockTurns == broken' = (broken \/ (Holders # {} /\ ~LockActive(lock)'))

GraphSteps ==
  \/ \E p \in Procs, n \in Nodes : GraphFinishes(n, p)
  \/ GraphLoses \/ Restarts \/ \E p \in Procs : GraphCloses(p)

Quiet == Rests /\ (LockKept \/ LockTurns) /\ (factory' = factory)

LEMMA GraphStep ==
  ASSUME FeedType, GraphSteps
  PROVE  FeedType' /\ KeepsIdeas /\ Quiet
<1>1. PlanType /\ run \in RunSpace /\ RestType
  BY DEF FeedType
<1>2. ASSUME NEW p \in Procs, NEW n \in Nodes, GraphFinishes(n, p)
      PROVE  FeedType' /\ KeepsIdeas /\ Quiet
  <2>1. PlanType' /\ KeepsIdeas
    BY <1>1, <1>2, FinishKeeps DEF GraphFinishes
  <2>2. run' = Scheduled(run, p) \/ run' = run
    BY <1>2 DEF GraphFinishes
  <2>3. run' \in RunSpace /\ Rests
    BY <1>1, <2>2, SchedulingIs DEF Rests
  <2>4. RestType' /\ LockKept /\ factory' = factory
    BY <1>1, <1>2 DEF GraphFinishes, RestType, LockKept, LockActive
  <2>5. QED  BY <2>1, <2>3, <2>4 DEF FeedType, Quiet
<1>3. CASE GraphLoses
  <2>1. PlanType' /\ KeepsIdeas
    BY <1>1, <1>3, LoseKeeps, DropKeeps DEF GraphLoses
  <2>2. run' = run /\ RestType' /\ LockKept /\ factory' = factory
    BY <1>1, <1>3 DEF GraphLoses, RestType, LockKept, LockActive
  <2>3. QED  BY <1>1, <2>1, <2>2 DEF FeedType, Quiet, Rests
<1>4. CASE Restarts
  <2>1. PlanType' /\ KeepsIdeas
    BY <1>1, <1>4, RestartKeeps DEF Restarts
  <2>2. run' = run /\ RestType' /\ LockKept /\ factory' = factory
    BY <1>1, <1>4 DEF Restarts, RestType, LockKept, LockActive
  <2>3. QED  BY <1>1, <2>1, <2>2 DEF FeedType, Quiet, Rests
<1>5. ASSUME NEW p \in Procs, GraphCloses(p)
      PROVE  FeedType' /\ KeepsIdeas /\ Quiet
  <2>1. PlanType' /\ KeepsIdeas
    BY <1>1, <1>5 DEF GraphCloses, Graph!Close, PlanType, KeepsIdeas, SomeIdea, Finished
  <2>2. run' \in RunSpace /\ Rests
    BY <1>1, <1>5, SchedulingIs DEF GraphCloses, Rests
  <2>3. LockBecomes("none") /\ "none" \in LockStates
    BY <1>5 DEF GraphCloses, LockStates
  <2>4. LockTurns
    BY <2>3 DEF LockBecomes, LockTurns, LockActive
  <2>5. RestType' /\ factory' = factory
    BY <1>1, <1>5, <2>3, LockChanges DEF GraphCloses, RestType
  <2>6. QED  BY <2>1, <2>2, <2>4, <2>5 DEF FeedType, Quiet
<1>6. QED  BY <1>2, <1>3, <1>4, <1>5 DEF GraphSteps

-----------------------------------------------------------------------------
(* The steps of a run, and what they need of the ideas.                    *)

Settled == SomeIdea /\ \E named \in Ideation : Gate(named)
Working == {"gated", "taking", "locked", "reviewing", "planning"}
SomeWork == \E q \in Procs : \E j \in Kinds : run[q][j] \in Working
\* Whoever works has worked before, or has passed the gates.
Follows ==
  /\ \A q \in Procs : \A j \in Kinds :
       run'[q][j] \in Working => run[q][j] \in Working \/ Settled
  /\ factory' => factory \/ SomeWork

LEMMA QuietFollows == Quiet => Slack /\ Follows
BY DEF Quiet, Rests, Slack, Follows, Working

LEMMA PointsAre ==
  /\ Working \subseteq RunPoints /\ Inside \subseteq RunPoints /\ "releasing" \notin Working
  /\ "none" \in RunPoints /\ "due" \in RunPoints /\ "deferring" \in RunPoints
  /\ "taking" \notin Inside /\ Inside \cap {"none", "due", "deferring", "gated"} = {}
BY DEF Working, RunPoints, Inside

LEMMA BeginsDoes ==
  ASSUME FeedType, NEW p \in Procs, NEW k \in Kinds, Begins(p, k)
  PROVE  FeedType' /\ KeepsIdeas /\ Slack /\ LockKept /\ Follows
<1>1. PlanType /\ run \in RunSpace /\ RestType
  BY DEF FeedType
<1>2. PICK x \in {"none", "gated", "deferring"} : RunMoves(p, k, x) /\ (x = "gated" => Settled)
  <2>1. CASE RunMoves(p, k, "none")
    BY <2>1
  <2>2. CASE SomeIdea /\ \E named \in Ideation :
                           RunMoves(p, k, IF Gate(named) THEN "gated" ELSE "deferring")
    <3>1. PICK named \in Ideation : RunMoves(p, k, IF Gate(named) THEN "gated" ELSE "deferring")
      BY <2>2
    <3>2. CASE Gate(named)
      BY <2>2, <3>1, <3>2 DEF Settled
    <3>3. CASE ~Gate(named)
      BY <3>1, <3>3
    <3>4. QED  BY <3>2, <3>3
  <2>3. QED  BY <2>1, <2>2 DEF Begins
<1>3. x \in {"none", "gated", "deferring"} /\ (x = "gated" => Settled)
  BY <1>2
<1>4. RunMoves(p, k, x)
  BY <1>2
<1>5. x \in RunPoints
  BY <1>3, PointsAre DEF Working
<1>6. /\ run' \in RunSpace
      /\ \A q \in Procs : \A j \in Kinds : run'[q][j] = IF q = p /\ j = k THEN x ELSE run[q][j]
  BY <1>1, <1>4, <1>5, MovesRun
<1>7. PlanType' /\ KeepsIdeas
  BY <1>1, PlanStays DEF Begins
<1>8. RestType' /\ LockKept /\ factory' = factory
  BY <1>1 DEF Begins, RestType, LockKept, LockActive
<1>9. Slack /\ Follows
  BY <1>3, <1>6, <1>8, PointsAre DEF Slack, Follows, Working
<1>10. QED  BY <1>6, <1>7, <1>8, <1>9 DEF FeedType

LEMMA DefersDoes ==
  ASSUME FeedType, NEW p \in Procs, NEW k \in Kinds, Defers(p, k)
  PROVE  FeedType' /\ KeepsIdeas /\ Quiet
<1>1. PlanType /\ run \in RunSpace /\ RestType
  BY DEF FeedType
<1>2. PlanType' /\ KeepsIdeas
  BY <1>1, ReviewKeeps DEF Defers
<1>3. run' \in RunSpace /\ Rests
  <2>1. Again(p, k)
    BY DEF Defers
  <2>2. QED  BY <1>1, <2>1, AgainIs DEF Rests
<1>4. RestType' /\ LockKept /\ factory' = factory
  BY <1>1 DEF Defers, RestType, LockKept, LockActive
<1>5. QED  BY <1>2, <1>3, <1>4 DEF FeedType, Quiet

\* The review in line: the run goes from one point inside to the next.
LEMMA ReviewsDoes ==
  ASSUME FeedType, NEW p \in Procs, NEW k \in Kinds,
         FindsReview(p, k) \/ StartsReview(p, k) \/ EndsReview(p, k)
  PROVE  FeedType' /\ KeepsIdeas /\ Slack /\ LockKept /\ Follows
<1>1. PlanType /\ run \in RunSpace /\ RestType
  BY DEF FeedType
<1>2. PlanType' /\ KeepsIdeas
  BY <1>1, ReviewKeeps, PlanStays DEF FindsReview, StartsReview, EndsReview
<1>3. PICK x \in {"reviewing", "planning"} : RunMoves(p, k, x)
  BY DEF FindsReview, StartsReview, EndsReview
<1>4. run[p][k] \in {"locked", "reviewing"}
  BY DEF FindsReview, StartsReview, EndsReview, RunAt
<1>5. /\ run' \in RunSpace
      /\ \A q \in Procs : \A j \in Kinds : run'[q][j] = IF q = p /\ j = k THEN x ELSE run[q][j]
  BY <1>1, <1>3, MovesRun, PointsAre DEF Working
<1>6. RestType' /\ LockKept /\ factory' = factory
  BY <1>1 DEF FindsReview, StartsReview, EndsReview, RestType, LockKept, LockActive
<1>7. Slack /\ Follows
  BY <1>3, <1>4, <1>5, <1>6 DEF Slack, Follows, Working, Inside
<1>8. QED  BY <1>2, <1>5, <1>6, <1>7 DEF FeedType

LEMMA PlansDoes ==
  ASSUME FeedType, NEW p \in Procs, NEW k \in Kinds, Plans(p, k)
  PROVE  FeedType' /\ KeepsIdeas /\ Slack /\ LockKept /\ Follows
<1>1. PlanType /\ run \in RunSpace /\ RestType
  BY DEF FeedType
<1>2. PlanType' /\ KeepsIdeas
  BY <1>1, PlanStays DEF Plans
<1>3. run[p][k] = "planning" /\ SomeWork
  BY DEF Plans, RunAt, SomeWork, Working
<1> DEFINE moved == [run EXCEPT ![p][k] = "releasing"]
<1>4. run' = moved \/ run' = Scheduled(moved, p)
  BY DEF Plans, RunMoves
<1>5. /\ moved \in RunSpace
      /\ \A q \in Procs : \A j \in Kinds : moved[q][j] = IF q = p /\ j = k THEN "releasing" ELSE run[q][j]
  BY <1>1, PointsAre DEF RunSpace, Inside
<1> HIDE DEF moved
<1>6. /\ run' \in RunSpace
      /\ \A q \in Procs : \A j \in Kinds : run'[q][j] = moved[q][j] \/ run'[q][j] = "due"
  BY <1>4, <1>5, SchedulingIs
<1>7. RestType' /\ LockKept
  <2>1. factory' = TRUE \/ factory' = factory
    BY DEF Plans
  <2>2. \/ planFaults' = planFaults
        \/ planFaults < MaxPlanFaults /\ planFaults' = planFaults + 1
    BY DEF Plans
  <2>3. planFaults' \in 0..MaxPlanFaults
    BY <1>1, <2>2 DEF RestType
  <2>4. UNCHANGED <<lock, writer, attempts, rested, others, faults, writes, long, restarts, broken>>
    BY DEF Plans
  <2>5. QED  BY <1>1, <2>1, <2>3, <2>4 DEF RestType, LockKept, LockActive
<1>8. Slack /\ Follows
  BY <1>3, <1>5, <1>6 DEF Slack, Follows, Working, Inside
<1>9. QED  BY <1>2, <1>6, <1>7, <1>8 DEF FeedType

-----------------------------------------------------------------------------
(* The steps that read, take and release the lock.                         *)

LEMMA ReadsDoes ==
  ASSUME FeedType, NEW p \in Procs, NEW k \in Kinds, ReadsLock(p, k)
  PROVE  /\ FeedType' /\ KeepsIdeas /\ Follows
         /\ LockActive(lock)' = LockActive(lock)
         /\ broken' = (broken \/ (~LockActive(lock) /\ \E q \in Procs : \E j \in Kinds : RunAt(q, j, "taking")))
         /\ Slack \/ (~LockActive(lock) /\ RunMoves(p, k, "taking"))
<1>1. PlanType /\ run \in RunSpace /\ RestType
  BY DEF FeedType
<1>2. PlanType' /\ KeepsIdeas
  BY <1>1, PlanStays DEF ReadsLock
<1>3. RestType' /\ LockActive(lock)' = LockActive(lock) /\ factory' = factory
  BY <1>1 DEF ReadsLock, RestType, LockActive
<1>4. broken' = (broken \/ (~LockActive(lock) /\ \E q \in Procs : \E j \in Kinds : RunAt(q, j, "taking")))
  BY DEF ReadsLock
<1>5. CASE LockActive(lock)
  <2>1. Again(p, k)
    BY <1>5 DEF ReadsLock
  <2>2. run' \in RunSpace /\ Rests
    BY <1>1, <2>1, AgainIs DEF Rests
  <2>3. Slack /\ Follows
    BY <2>2, <1>3 DEF Rests, Slack, Follows, Working
  <2>4. QED  BY <1>2, <1>3, <1>4, <2>2, <2>3 DEF FeedType
<1>6. CASE ~LockActive(lock)
  <2>1. RunMoves(p, k, "taking") /\ run[p][k] = "gated"
    BY <1>6 DEF ReadsLock, RunAt
  <2>2. /\ run' \in RunSpace
        /\ \A q \in Procs : \A j \in Kinds : run'[q][j] = IF q = p /\ j = k THEN "taking" ELSE run[q][j]
    BY <1>1, <2>1, MovesRun, PointsAre DEF Working
  <2>3. Follows
    BY <2>1, <2>2, <1>3 DEF Follows, Working
  <2>4. QED  BY <1>2, <1>3, <1>4, <1>6, <2>1, <2>2, <2>3 DEF FeedType
<1>7. QED  BY <1>5, <1>6

LEMMA TakesDoes ==
  ASSUME FeedType, NEW p \in Procs, NEW k \in Kinds, Takes(p, k)
  PROVE  /\ FeedType' /\ KeepsIdeas /\ Follows
         /\ run[p][k] = "taking" /\ LockActive(lock)' /\ broken' = broken
         /\ \A q \in Procs : \A j \in Kinds : run'[q][j] = IF q = p /\ j = k THEN "locked" ELSE run[q][j]
<1>1. PlanType /\ run \in RunSpace /\ RestType
  BY DEF FeedType
<1>2. PlanType' /\ KeepsIdeas
  BY <1>1, PlanStays DEF Takes
<1>3. run[p][k] = "taking" /\ RunMoves(p, k, "locked")
  BY DEF Takes, RunAt
<1>4. /\ run' \in RunSpace
      /\ \A q \in Procs : \A j \in Kinds : run'[q][j] = IF q = p /\ j = k THEN "locked" ELSE run[q][j]
  BY <1>1, <1>3, MovesRun, PointsAre DEF Working
<1>5. RestType' /\ LockActive(lock)' /\ broken' = broken /\ factory' = factory
  BY <1>1 DEF Takes, RestType, LockActive, LockStates
<1>6. Follows
  BY <1>3, <1>4, <1>5 DEF Follows, Working
<1>7. QED  BY <1>2, <1>3, <1>4, <1>5, <1>6 DEF FeedType

LEMMA ReleasesDoes ==
  ASSUME FeedType, NEW p \in Procs, NEW k \in Kinds, Releases(p, k)
  PROVE  /\ FeedType' /\ KeepsIdeas /\ Follows
         /\ run[p][k] \in Inside /\ broken' = broken
         /\ \A q \in Procs : \A j \in Kinds : run'[q][j] = IF q = p /\ j = k THEN "none" ELSE run[q][j]
<1>1. PlanType /\ run \in RunSpace /\ RestType
  BY DEF FeedType
<1>2. PlanType' /\ KeepsIdeas
  BY <1>1, PlanStays DEF Releases
<1>3. run[p][k] \in Inside /\ RunMoves(p, k, "none")
  BY DEF Releases, RunAt, Inside
<1>4. /\ run' \in RunSpace
      /\ \A q \in Procs : \A j \in Kinds : run'[q][j] = IF q = p /\ j = k THEN "none" ELSE run[q][j]
  BY <1>1, <1>3, MovesRun, PointsAre
<1>5. RestType' /\ broken' = broken /\ factory' = factory
  BY <1>1 DEF Releases, RestType, LockStates
<1>6. Follows
  BY <1>4, <1>5 DEF Follows, Working
<1>7. QED  BY <1>2, <1>3, <1>4, <1>5, <1>6 DEF FeedType

-----------------------------------------------------------------------------
(* Time, other writers, the reconcile pass and crashes.                    *)

LEMMA ReconcilesDoes ==
  ASSUME FeedType, NEW p \in Procs, Reconciles(p)
  PROVE  FeedType' /\ KeepsIdeas /\ Quiet
<1>1. PlanType /\ run \in RunSpace /\ RestType
  BY DEF FeedType
<1>2. PlanType' /\ KeepsIdeas
  BY <1>1, PlanStays DEF Reconciles
<1>3. RunMoves(p, "tick", "due")
  BY DEF Reconciles
<1>4. run' \in RunSpace /\ Rests
  BY <1>1, <1>3, MovesRun, PointsAre, KindsArePoints DEF Rests
<1>5. RestType' /\ LockKept /\ factory' = factory
  <2>1. attempts' \in 0..MaxAttempts /\ rested' = FALSE
    BY <1>1 DEF Reconciles, RestType
  <2>2. lock' \in LockStates /\ LockActive(lock)' = LockActive(lock)
    BY <1>1 DEF Reconciles, RestType, LockActive, LockStates
  <2>3. UNCHANGED <<writer, factory, others, counts, broken>>
    BY DEF Reconciles
  <2>4. QED  BY <1>1, <2>1, <2>2, <2>3 DEF RestType, LockKept
<1>6. QED  BY <1>2, <1>4, <1>5 DEF FeedType, Quiet

LEMMA TimeDoes ==
  ASSUME FeedType, QuarterPasses \/ Lapses
  PROVE  FeedType' /\ KeepsIdeas /\ Quiet
<1>1. PlanType /\ run \in RunSpace /\ RestType
  BY DEF FeedType
<1>2. PlanType' /\ KeepsIdeas
  BY <1>1, PlanStays DEF QuarterPasses, Lapses
<1>3. run' = run /\ factory' = factory
  BY DEF QuarterPasses, Lapses
<1>4. PICK l \in LockStates : LockBecomes(l)
  BY <1>1 DEF QuarterPasses, Lapses, RestType, LockStates
<1>5. LockTurns /\ lock' \in LockStates /\ broken' \in BOOLEAN
  BY <1>1, <1>4, LockChanges DEF LockBecomes, LockTurns, LockActive
<1>6. long' \in 0..MaxLong /\ rested' \in BOOLEAN
  <2>1. long' = long \/ (long < MaxLong /\ long' = long + 1)
    BY Zenon DEF QuarterPasses, Lapses
  <2>2. rested' = TRUE \/ rested' = rested
    BY DEF QuarterPasses, Lapses
  <2>3. long \in 0..MaxLong /\ rested \in BOOLEAN
    BY <1>1 DEF RestType
  <2>4. long' \in 0..MaxLong
    BY <2>1, <2>3
  <2>5. QED  BY <2>2, <2>3, <2>4
<1>7. UNCHANGED <<writer, attempts, others, faults, planFaults, writes, restarts>>
  BY DEF QuarterPasses, Lapses
<1>8. QED  BY <1>1, <1>2, <1>3, <1>5, <1>6, <1>7 DEF FeedType, RestType, Quiet, Rests

LEMMA WritersDo ==
  ASSUME FeedType, NEW p \in Procs, SummaryRead(p) \/ SummaryWritten(p)
  PROVE  FeedType' /\ KeepsIdeas /\ Quiet
<1>1. PlanType /\ run \in RunSpace /\ RestType
  BY DEF FeedType
<1>2. PlanType' /\ KeepsIdeas
  BY <1>1, PlanStays DEF SummaryRead, SummaryWritten
<1>3. run' = run /\ factory' = factory
  BY DEF SummaryRead, SummaryWritten
<1>4. CASE SummaryRead(p)
  <2>1. [lock |-> lock, attempts |-> attempts] \in Summary
    BY <1>1 DEF RestType, Summary
  <2>2. writer' \in [Procs -> Summary \cup {Idle}]
    BY <1>1, <1>4, <2>1 DEF SummaryRead, RestType
  <2>3. writes' \in 0..MaxWrites
    BY <1>1, <1>4 DEF SummaryRead, RestType
  <2>4. UNCHANGED <<lock, attempts, rested, others, faults, planFaults, long, restarts, broken>>
    BY <1>4 DEF SummaryRead
  <2>5. QED
    BY <1>1, <1>2, <1>3, <2>2, <2>3, <2>4 DEF FeedType, RestType, Quiet, Rests, LockKept, LockActive
<1>5. CASE SummaryWritten(p)
  <2>1. writer[p] \in Summary
    BY <1>1, <1>5 DEF SummaryWritten, RestType
  <2>2. writer[p].lock \in LockStates /\ writer[p].attempts \in 0..MaxAttempts
    BY <2>1 DEF Summary
  <2>3. LockBecomes(writer[p].lock) /\ attempts' = writer[p].attempts
    BY <1>5 DEF SummaryWritten
  <2>4. LockTurns /\ lock' \in LockStates /\ broken' \in BOOLEAN
    BY <1>1, <2>2, <2>3, LockChanges DEF LockBecomes, LockTurns, LockActive
  <2>5. writer' \in [Procs -> Summary \cup {Idle}] /\ rested' \in BOOLEAN
    BY <1>1, <1>5 DEF SummaryWritten, RestType
  <2>6. UNCHANGED <<others, faults, planFaults, writes, long, restarts>>
    BY <1>5 DEF SummaryWritten
  <2>7. QED
    BY <1>1, <1>2, <1>3, <2>2, <2>3, <2>4, <2>5, <2>6 DEF FeedType, RestType, Quiet, Rests
<1>6. QED  BY <1>4, <1>5

LEMMA CrashDoes ==
  ASSUME FeedType, NEW p \in Procs, Crash(p)
  PROVE  FeedType' /\ KeepsIdeas /\ Quiet
<1>1. PlanType /\ run \in RunSpace /\ RestType
  BY DEF FeedType
<1>2. PlanType' /\ KeepsIdeas
  BY <1>1, PlanStays DEF Crash
<1>3. run' \in RunSpace /\ Rests
  BY <1>1, PointsAre DEF Crash, RunSpace, Rests
<1>4. RestType' /\ LockKept /\ factory' = factory
  <2>1. faults' \in 0..MaxFaults /\ writer' \in [Procs -> Summary \cup {Idle}]
    BY <1>1 DEF Crash, RestType
  <2>2. UNCHANGED <<lock, factory, attempts, rested, others, planFaults, writes, long, restarts, broken>>
    BY DEF Crash
  <2>3. QED  BY <1>1, <2>1, <2>2 DEF RestType, LockKept, LockActive
<1>5. QED  BY <1>2, <1>3, <1>4 DEF FeedType, Quiet

-----------------------------------------------------------------------------
(* The two invariants.                                                     *)

\* A run that works, and a factory, have the ideas of every node but one.
IdeasHeld == (factory \/ SomeWork) => Settled

\* Until it is broken: one run goes for the lock, and only if none is inside; one is inside,
\* and then the lock counts.
Exclusive == broken \/
  /\ \A r, s \in Runs : run[r[1]][r[2]] = "taking" /\ run[s[1]][s[2]] = "taking" => r = s
  /\ \A r \in Runs : run[r[1]][r[2]] = "taking" => Holders = {}
  /\ \A r, s \in Holders : r = s
  /\ Holders # {} => LockActive(lock)

FeedInv == FeedType /\ IdeasHeld /\ Exclusive

LEMMA IdeasStay ==
  ASSUME IdeasHeld, KeepsIdeas, Follows
  PROVE  IdeasHeld'
<1>1. Settled => Settled'
  BY DEF Settled, Gate, KeepsIdeas
<1>2. SomeWork' => SomeWork \/ Settled
  BY DEF SomeWork, Follows
<1>3. factory' => factory \/ SomeWork
  BY DEF Follows
<1>4. QED  BY <1>1, <1>2, <1>3 DEF IdeasHeld

LEMMA HoldersAre ==
  \A q \in Procs : \A j \in Kinds : <<q, j>> \in Holders <=> run[q][j] \in Inside
BY DEF Holders

LEMMA SlackExcludes ==
  ASSUME Exclusive, Slack, LockKept \/ LockTurns
  PROVE  Exclusive'
<1>1. CASE broken'
  BY <1>1 DEF Exclusive
<1>2. CASE ~broken'
  <2>1. ~broken
    BY <1>2 DEF LockKept, LockTurns
  <2>2. \A r \in Runs : (run[r[1]][r[2]])' = "taking" => run[r[1]][r[2]] = "taking"
    BY PointsAre DEF Slack, Runs
  <2>3. Holders' \subseteq Holders
    BY PointsAre DEF Slack, Holders
  <2>4. Holders' # {} => LockActive(lock)'
    BY <1>2, <2>1, <2>3 DEF LockKept, LockTurns, Exclusive
  <2>5. QED  BY <2>1, <2>2, <2>3, <2>4 DEF Exclusive
<1>3. QED  BY <1>1, <1>2

LEMMA ReadExcludes ==
  ASSUME FeedType, Exclusive, NEW p \in Procs, NEW k \in Kinds, ReadsLock(p, k)
  PROVE  Exclusive'
<1>1. CASE broken'
  BY <1>1 DEF Exclusive
<1>2. CASE ~broken'
  <2>1. ~broken /\ broken' = broken
    <3>1. broken \in BOOLEAN /\ broken' \in BOOLEAN
      BY ReadsDoes DEF FeedType, RestType
    <3>2. broken => broken'
      BY ReadsDoes
    <3>3. QED  BY <1>2, <3>1, <3>2
  <2>2. LockActive(lock)' = LockActive(lock)
    BY ReadsDoes
  <2>3. CASE Slack
    BY <2>1, <2>2, <2>3, SlackExcludes DEF LockKept
  <2>4. CASE ~LockActive(lock) /\ RunMoves(p, k, "taking")
    <3>1. \A q \in Procs : \A j \in Kinds : run[q][j] # "taking"
      BY <1>2, <2>1, <2>4, ReadsDoes DEF RunAt
    <3>2. \A q \in Procs : \A j \in Kinds : run'[q][j] = IF q = p /\ j = k THEN "taking" ELSE run[q][j]
      BY <2>4, MovesRun, PointsAre DEF FeedType, Working
    <3>3. Holders = {}
      BY <2>1, <2>4 DEF Exclusive
    <3>4. Holders' = {}
      BY <3>2, <3>3, PointsAre DEF Holders
    <3>5. \A r \in Runs : (run[r[1]][r[2]])' = "taking" => r = <<p, k>>
      BY <3>1, <3>2 DEF Runs
    <3>6. QED  BY <3>4, <3>5 DEF Exclusive
  <2>5. QED  BY <2>3, <2>4, ReadsDoes
<1>3. QED  BY <1>1, <1>2

LEMMA TakeExcludes ==
  ASSUME FeedType, Exclusive, NEW p \in Procs, NEW k \in Kinds, Takes(p, k)
  PROVE  Exclusive'
<1>1. /\ run[p][k] = "taking" /\ LockActive(lock)' /\ broken' = broken
      /\ \A q \in Procs : \A j \in Kinds : run'[q][j] = IF q = p /\ j = k THEN "locked" ELSE run[q][j]
  BY TakesDoes
<1>2. CASE broken
  BY <1>1, <1>2 DEF Exclusive
<1>3. CASE ~broken
  <2>1. <<p, k>> \in Runs /\ run[<<p, k>>[1]][<<p, k>>[2]] = "taking"
    BY <1>1 DEF Runs
  <2>2. Holders = {} /\ \A s \in Runs : run[s[1]][s[2]] = "taking" => s = <<p, k>>
    BY <1>3, <2>1 DEF Exclusive
  <2>3. \A r \in Runs : (run[r[1]][r[2]])' # "taking"
    BY <1>1, <2>2 DEF Runs
  <2>4. \A r \in Holders' : r = <<p, k>>
    BY <1>1, <2>2 DEF Holders
  <2>5. QED  BY <1>1, <2>3, <2>4 DEF Exclusive
<1>4. QED  BY <1>2, <1>3

LEMMA ReleaseExcludes ==
  ASSUME FeedType, Exclusive, NEW p \in Procs, NEW k \in Kinds, Releases(p, k)
  PROVE  Exclusive'
<1>1. /\ run[p][k] \in Inside /\ broken' = broken
      /\ \A q \in Procs : \A j \in Kinds : run'[q][j] = IF q = p /\ j = k THEN "none" ELSE run[q][j]
  BY ReleasesDoes
<1>2. CASE broken
  BY <1>1, <1>2 DEF Exclusive
<1>3. CASE ~broken
  <2>1. <<p, k>> \in Holders
    BY <1>1 DEF Holders
  <2>2. \A r \in Holders : r = <<p, k>>
    BY <1>3, <2>1 DEF Exclusive
  <2>3. Holders' = {}
    BY <1>1, <2>2, PointsAre DEF Holders
  <2>4. \A r \in Runs : (run[r[1]][r[2]])' = "taking" => run[r[1]][r[2]] = "taking"
    BY <1>1 DEF Runs
  <2>5. \A r, s \in Runs : (run[r[1]][r[2]])' = "taking" /\ (run[s[1]][s[2]])' = "taking" => r = s
    BY <1>3, <2>4 DEF Exclusive
  <2>6. QED  BY <2>3, <2>5 DEF Exclusive
<1>4. QED  BY <1>2, <1>3

LEMMA QuietKeeps ==
  ASSUME FeedInv, FeedType', KeepsIdeas, Quiet
  PROVE  FeedInv'
<1>1. Slack /\ Follows /\ (LockKept \/ LockTurns)
  BY QuietFollows DEF Quiet
<1>2. QED  BY <1>1, IdeasStay, SlackExcludes DEF FeedInv

LEMMA RunKeeps ==
  ASSUME FeedInv, NEW p \in Procs, NEW k \in Kinds, RunSteps(p, k)
  PROVE  FeedInv'
<1>1. FeedType /\ IdeasHeld /\ Exclusive
  BY DEF FeedInv
<1>2. CASE Begins(p, k) \/ FindsReview(p, k) \/ StartsReview(p, k) \/ EndsReview(p, k) \/ Plans(p, k)
  <2>1. FeedType' /\ KeepsIdeas /\ Slack /\ LockKept /\ Follows
    BY <1>1, <1>2, BeginsDoes, ReviewsDoes, PlansDoes
  <2>2. QED  BY <1>1, <2>1, IdeasStay, SlackExcludes DEF FeedInv
<1>3. CASE Defers(p, k)
  BY <1>1, <1>3, DefersDoes, QuietKeeps
<1>4. CASE ReadsLock(p, k)
  BY <1>1, <1>4, ReadsDoes, IdeasStay, ReadExcludes DEF FeedInv
<1>5. CASE Takes(p, k)
  BY <1>1, <1>5, TakesDoes, IdeasStay, TakeExcludes DEF FeedInv
<1>6. CASE Releases(p, k)
  BY <1>1, <1>6, ReleasesDoes, IdeasStay, ReleaseExcludes DEF FeedInv
<1>7. QED  BY <1>2, <1>3, <1>4, <1>5, <1>6 DEF RunSteps

LEMMA FeedStarts == Init => FeedInv
<1> SUFFICES ASSUME Init PROVE FeedInv
  OBVIOUS
<1>1. FeedType
  <2>1. PlanType
    BY DEF Init, Graph!Init, PlanType, Pools
  <2>2. run \in RunSpace
    BY PointsAre DEF Init, RunSpace
  <2>3. lock \in LockStates /\ writer \in [Procs -> Summary \cup {Idle}]
    BY DEF Init, LockStates
  <2>4. factory \in BOOLEAN /\ rested \in BOOLEAN /\ others \in BOOLEAN /\ broken \in BOOLEAN
    BY DEF Init
  <2>5. /\ attempts \in 0..MaxAttempts /\ faults \in 0..MaxFaults /\ planFaults \in 0..MaxPlanFaults
        /\ writes \in 0..MaxWrites /\ long \in 0..MaxLong /\ restarts \in 0..MaxRestarts
    BY DEF Init
  <2>6. QED  BY <2>1, <2>2, <2>3, <2>4, <2>5 DEF FeedType, RestType
<1>2. ~factory /\ \A q \in Procs : \A j \in Kinds : run[q][j] = "none"
  BY DEF Init
<1>3. IdeasHeld /\ Exclusive
  BY <1>2 DEF IdeasHeld, SomeWork, Working, Exclusive, Holders, Inside, Runs
<1>4. QED  BY <1>1, <1>3 DEF FeedInv

LEMMA FeedStep == FeedInv /\ [Next]_vars => FeedInv'
<1> SUFFICES ASSUME FeedInv, [Next]_vars PROVE FeedInv'
  OBVIOUS
<1>1. FeedType
  BY DEF FeedInv
<1>2. CASE GraphSteps
  BY <1>1, <1>2, GraphStep, QuietKeeps
<1>3. ASSUME NEW p \in Procs, Reconciles(p) \/ Crash(p) \/ SummaryRead(p) \/ SummaryWritten(p)
      PROVE  FeedInv'
  BY <1>1, <1>3, ReconcilesDoes, CrashDoes, WritersDo, QuietKeeps
<1>4. ASSUME NEW p \in Procs, NEW k \in Kinds, RunSteps(p, k)
      PROVE  FeedInv'
  BY <1>4, RunKeeps
<1>5. CASE QuarterPasses \/ Lapses
  BY <1>1, <1>5, TimeDoes, QuietKeeps
<1>6. CASE UNCHANGED vars
  BY <1>6 DEF vars, FeedInv, FeedType, PlanType, RestType, IdeasHeld, SomeWork, Settled, SomeIdea, Gate,
              Finished, Exclusive, Holders
<1>7. QED  BY <1>2, <1>3, <1>4, <1>5, <1>6 DEF Next, GraphSteps

LEMMA FeedInvAlways == Spec => []FeedInv
BY FeedStarts, FeedStep, PTL DEF Spec

-----------------------------------------------------------------------------
\* Whatever runs, dies, restarts or writes, the variables keep their types; the reconcile
\* attempts end at FEED_RECONCILE_MAX_ATTEMPTS.
THEOREM FeedTyped == Spec => []FeedTypeOK
<1>1. FeedInv => FeedTypeOK
  BY FeedTypeIs DEF FeedInv
<1>2. QED  BY <1>1, FeedInvAlways, PTL

\* Two runs are inside the pipeline only after two went for the lock at once, or after a write of
\* the summary or time took the lock from a run inside.
THEOREM RunsExclude == Spec => []FeedExcludes
<1>1. FeedInv => FeedExcludes
  BY DEF FeedInv, Exclusive, FeedExcludes
<1>2. QED  BY <1>1, FeedInvAlways, PTL

\* A factory has ideas, and the outputs of all ideation nodes but one and of every calendar and
\* design node, for as long as the mission lives.
THEOREM PlannedFromIdeas == Spec => []FactoryHasIdeas
<1>1. FeedInv => FactoryHasIdeas
  <2> SUFFICES ASSUME FeedInv, factory PROVE FactoryHasIdeas
    BY DEF FactoryHasIdeas
  <2>1. SomeIdea
    BY DEF FeedInv, IdeasHeld, Settled
  <2>2. PICK named \in Ideation : Gate(named)
    BY DEF FeedInv, IdeasHeld, Settled
  <2>3. \A n \in Package : Finished(n) /\ n \notin blank
    BY <2>2 DEF Gate
  <2> DEFINE missing == {n \in Ideation : ~Finished(n)}
  <2>4. missing \subseteq {named}
    BY <2>2 DEF Gate
  <2>5. IsFiniteSet({named}) /\ Cardinality({named}) = 1
    BY FS_Singleton
  <2>6. Cardinality(missing) \in Nat /\ Cardinality(missing) <= 1
    BY <2>4, <2>5, FS_Subset, FS_CardinalityType
  <2>7. QED  BY <2>1, <2>3, <2>6 DEF FactoryHasIdeas
<1>2. QED  BY <1>1, FeedInvAlways, PTL
=============================================================================
