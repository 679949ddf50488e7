--------------------------- MODULE TaskGraph_proofs ---------------------------
(***************************************************************************)
(* Proofs about TaskGraph, for any graph, any numbers of processes and     *)
(* overlapping executions, and any bounds.                                 *)
(*                                                                         *)
(* What every step makes of the rows and of the executions comes first.    *)
(* Two invariants follow.  Sound holds whatever is disturbed: dependencies *)
(* complete first, and a skip has a cause.  Calm holds until a row is      *)
(* launched or requeued over a live execution, and ties every execution,   *)
(* sweep and verdict in flight to the rows it has read.                     *)
(***************************************************************************)
EXTENDS TaskGraph, TLAPS

Rows == [Nodes -> Row]
Runs == [Nodes -> [Copies -> Execution]]

-----------------------------------------------------------------------------
(* The rows and the executions, one at a time.                             *)

LEMMA StandingIs ==
  ASSUME NEW x \in Execution, NEW point \in Points
  PROVE  /\ Standing(x, point) \in Execution
         /\ Standing(x, point).at = point /\ Standing(x, point).doomed = {}
         /\ Standing(x, point).proc = x.proc
BY DEF Standing, Execution

\* The read of the retry count.
LEMMA FailingIs ==
  ASSUME NEW x \in Execution, NEW k \in Nat
  PROVE  LET y == [Standing(x, "failing") EXCEPT !.seen = k] IN
         y \in Execution /\ y.at = "failing" /\ y.doomed = {} /\ y.seen = k
<1>1. "failing" \in Points
  BY DEF Points
<1>2. QED  BY <1>1 DEF Standing, Execution

\* The read of the nodes to skip.
LEMMA SkippingIs ==
  ASSUME NEW x \in Execution, NEW D \in SUBSET Nodes
  PROVE  LET y == [Standing(x, "skipping") EXCEPT !.doomed = D] IN
         y \in Execution /\ y.at = "skipping" /\ y.doomed = D
<1>1. "skipping" \in Points
  BY DEF Points
<1>2. QED  BY <1>1 DEF Standing, Execution

LEMMA NobodyIs ==
  Nobody \in Execution /\ Nobody.at = "none" /\ Nobody.doomed = {}
BY DEF Nobody, Execution, Points

LEMMA StartingIs ==
  ASSUME NEW p \in Procs \cup {"none"}
  PROVE  Starting(p) \in Execution /\ Starting(p).at = "launched" /\ Starting(p).doomed = {}
BY DEF Starting, Execution, Points

\* One execution changes and the others stay.
RunBecomes(n, c, x) ==
  /\ exec' \in Runs
  /\ exec'[n][c] = x
  /\ \A m \in Nodes, d \in Copies : m # n \/ d # c => exec'[m][d] = exec[m][d]

LEMMA RunSet ==
  ASSUME exec \in Runs, NEW n \in Nodes, NEW c \in Copies, NEW x \in Execution,
         exec' = [exec EXCEPT ![n][c] = x]
  PROVE  RunBecomes(n, c, x)
BY DEF Runs, RunBecomes

LEMMA RunMoves ==
  ASSUME exec \in Runs, NEW n \in Nodes, NEW c \in Copies, NEW point \in Points, Moves(n, c, point)
  PROVE  /\ RunBecomes(n, c, Standing(exec[n][c], point))
         /\ exec'[n][c].at = point /\ exec'[n][c].doomed = {}
<1>1. exec[n][c] \in Execution
  BY DEF Runs
<1>2. Standing(exec[n][c], point) \in Execution
  BY <1>1, StandingIs
<1>3. exec' = [exec EXCEPT ![n][c] = Standing(exec[n][c], point)]
  BY DEF Moves
<1>4. RunBecomes(n, c, Standing(exec[n][c], point))
  BY <1>2, <1>3, RunSet
<1>5. QED  BY <1>1, <1>4, StandingIs DEF RunBecomes

LEMMA RunEnds ==
  ASSUME exec \in Runs, NEW n \in Nodes, NEW c \in Copies, exec' = Ended(n, c)
  PROVE  /\ RunBecomes(n, c, Nobody)
         /\ exec'[n][c].at = "none" /\ exec'[n][c].doomed = {}
<1>1. RunBecomes(n, c, Nobody)
  BY NobodyIs, RunSet DEF Ended
<1>2. QED  BY <1>1, NobodyIs DEF RunBecomes

\* A launch starts one execution of each node, in a free place.
LEMMA LaunchedIs ==
  ASSUME NEW ex \in Runs, NEW R \in SUBSET Nodes, NEW p \in Procs \cup {"none"}, CanLaunch(ex, R)
  PROVE  LET ey == Launched(ex, R, p) IN
         /\ ey \in Runs
         /\ \A n \in Nodes \ R : ey[n] = ex[n]
         /\ \A n \in R : \E c \in Copies :
              /\ ex[n][c].at = "none" /\ ey[n][c] = Starting(p)
              /\ \A d \in Copies : d # c => ey[n][d] = ex[n][d]
<1> DEFINE ey == Launched(ex, R, p)
<1> DEFINE place(n) == CHOOSE c \in Free(ex[n]) : TRUE
<1>1. \A n \in R : place(n) \in Copies /\ ex[n][place(n)].at = "none"
  BY DEF CanLaunch, Free
<1>2. \A n \in Nodes : ey[n] = IF n \in R THEN [ex[n] EXCEPT ![place(n)] = Starting(p)] ELSE ex[n]
  BY DEF Launched
<1>3. ey = [n \in Nodes |-> ey[n]]
  BY DEF Launched
<1>4. Starting(p) \in Execution
  BY StartingIs
<1> HIDE DEF ey, place
<1>5. \A n \in Nodes : ex[n] \in [Copies -> Execution]
  BY DEF Runs
<1>6. \A n \in R : /\ ey[n] \in [Copies -> Execution] /\ ey[n][place(n)] = Starting(p)
                   /\ \A d \in Copies : d # place(n) => ey[n][d] = ex[n][d]
  BY <1>1, <1>2, <1>4, <1>5
<1>7. \A n \in Nodes \ R : ey[n] = ex[n]
  BY <1>2
<1>8. \A n \in Nodes : ey[n] \in [Copies -> Execution]
  BY <1>5, <1>6, <1>7
<1>9. ey \in Runs
  BY <1>3, <1>8 DEF Runs
<1>10. \A n \in R : \E c \in Copies :
          /\ ex[n][c].at = "none" /\ ey[n][c] = Starting(p)
          /\ \A d \in Copies : d # c => ey[n][d] = ex[n][d]
  BY <1>1, <1>6
<1>11. QED  BY <1>7, <1>9, <1>10 DEF ey

\* One row changes and the others stay.
RowBecomes(nd, n, r) ==
  /\ nd \in Rows /\ nd[n] = r
  /\ \A m \in Nodes : m # n => nd[m] = node[m]

LEMMA StatusSet ==
  ASSUME node \in Rows, NEW n \in Nodes, NEW s \in NodeStatus
  PROVE  LET nd == SetStatus(node, n, s) IN
         /\ RowBecomes(nd, n, nd[n])
         /\ nd[n].status = s /\ nd[n].retry = node[n].retry
<1>1. node[n] \in Row
  BY DEF Rows
<1>2. /\ [node[n] EXCEPT !.status = s] \in Row
      /\ [node[n] EXCEPT !.status = s].status = s
      /\ [node[n] EXCEPT !.status = s].retry = node[n].retry
  BY <1>1 DEF Row
<1>3. SetStatus(node, n, s) = [node EXCEPT ![n] = [node[n] EXCEPT !.status = s]]
  BY DEF SetStatus
<1>4. QED  BY <1>2, <1>3 DEF Rows, RowBecomes

LEMMA RowSet ==
  ASSUME node \in Rows, NEW n \in Nodes, NEW s \in NodeStatus, NEW k \in Nat
  PROVE  LET nd == [node EXCEPT ![n] = [status |-> s, retry |-> k]] IN
         RowBecomes(nd, n, nd[n]) /\ nd[n].status = s /\ nd[n].retry = k
<1>1. [status |-> s, retry |-> k] \in Row
  BY DEF Row
<1>2. QED  BY <1>1 DEF Rows, RowBecomes

LEMMA RetriedIs ==
  ASSUME node \in Rows, NEW n \in Nodes, NEW k \in Nat
  PROVE  LET nd == Retried(node, n, k) IN
         RowBecomes(nd, n, nd[n]) /\ nd[n].status = "pending" /\ nd[n].retry = k
<1>1. "pending" \in NodeStatus
  BY DEF NodeStatus
<1>2. QED  BY <1>1, RowSet DEF Retried

LEMMA FailedIs ==
  ASSUME node \in Rows, NEW n \in Nodes, NEW k \in Nat
  PROVE  LET nd == Failed(node, n, k) IN
         RowBecomes(nd, n, nd[n]) /\ nd[n].status = "failed" /\ nd[n].retry = k
<1>1. "failed" \in NodeStatus
  BY DEF NodeStatus
<1>2. QED  BY <1>1, RowSet DEF Failed

\* The UPDATE of the skip.
LEMMA SkippedIs ==
  ASSUME NEW nd \in Rows, NEW S \in SUBSET Nodes
  PROVE  LET ne == Skipped(nd, S) IN
         /\ ne \in Rows
         /\ \A n \in S : ne[n].status = "skipped" /\ ne[n].retry = nd[n].retry
         /\ \A n \in Nodes \ S : ne[n] = nd[n]
<1>1. \A n \in Nodes : nd[n] \in Row
  BY DEF Rows
<1>2. \A r \in Row : /\ [r EXCEPT !.status = "skipped"] \in Row
                     /\ [r EXCEPT !.status = "skipped"].status = "skipped"
                     /\ [r EXCEPT !.status = "skipped"].retry = r.retry
  BY DEF Row, NodeStatus
<1>3. QED  BY <1>1, <1>2 DEF Rows, Skipped

-----------------------------------------------------------------------------
(* The fixpoint of the skip.                                               *)

\* It takes in each pending node with a dependency that failed or that it has.
LEMMA DoomedCloses ==
  ASSUME NEW nd \in Rows, NEW m \in Nodes, nd[m].status = "pending",
         NEW d \in Deps[m], d \in Nodes,
         nd[d].status \in {"failed", "skipped"} \/ d \in Doomed(nd)
  PROVE  m \in Doomed(nd)
<1>1. \A B \in SUBSET Nodes : Blocking(nd, B) => d \in B
  BY DEF Blocking, Doomed
<1>2. ASSUME NEW B \in SUBSET Nodes, Blocking(nd, B)
      PROVE  m \in B
  <2>1. d \in B
    BY <1>1, <1>2
  <2>2. Deps[m] \cap B # {}
    BY <2>1
  <2>3. QED  BY <1>2, <2>2 DEF Blocking
<1>3. QED  BY <1>2 DEF Doomed

\* It takes in nothing else: each of its nodes has such a dependency.
LEMMA DoomedHasCause ==
  ASSUME NEW nd \in Rows, NEW m \in Doomed(nd)
  PROVE  \E d \in Deps[m] : d \in Nodes /\ (nd[d].status \in {"failed", "skipped"} \/ d \in Doomed(nd))
<1> SUFFICES ASSUME \A d \in Deps[m] : d \in Nodes => /\ nd[d].status \notin {"failed", "skipped"}
                                                      /\ d \notin Doomed(nd)
             PROVE  FALSE
  OBVIOUS
<1> DEFINE L == {n \in Nodes : \A B \in SUBSET Nodes : Blocking(nd, B) => n \in B}
           K == L \ {m}
<1>1. m \in Nodes /\ nd[m].status = "pending" /\ m \in L
  BY DEF Doomed
<1>2. \A n \in Nodes : nd[n].status \in {"failed", "skipped"} => n \in L
  BY DEF Blocking
<1>3. \A n \in L : nd[n].status = "pending" => n \in Doomed(nd)
  BY DEF Doomed
<1>4. \A n \in L : nd[n].status = "pending" \/ nd[n].status \in {"failed", "skipped"}
  <2> DEFINE F == {n \in Nodes : nd[n].status \in {"pending", "failed", "skipped"}}
  <2>1. Blocking(nd, F)
    BY DEF Blocking
  <2>2. F \in SUBSET Nodes
    OBVIOUS
  <2>3. \A n \in L : n \in F
    BY <2>1, <2>2
  <2>4. QED  BY <2>3
<1>5. Deps[m] \cap L = {}
  BY <1>3, <1>4
<1>6. Blocking(nd, L)
  <2>1. ASSUME NEW n \in Nodes, nd[n].status = "pending", Deps[n] \cap L # {}
        PROVE  n \in L
    <3>1. PICK d \in Deps[n] : d \in L
      BY <2>1
    <3>2. ASSUME NEW B \in SUBSET Nodes, Blocking(nd, B)
          PROVE  n \in B
      <4>1. d \in B
        BY <3>1, <3>2
      <4>2. Deps[n] \cap B # {}
        BY <4>1, <3>1
      <4>3. QED  BY <2>1, <3>2, <4>2 DEF Blocking
    <3>3. QED  BY <3>2
  <2>2. QED  BY <1>2, <2>1 DEF Blocking
<1>7. Blocking(nd, K)
  <2>1. \A n \in Nodes : nd[n].status \in {"failed", "skipped"} => n \in K
    BY <1>1, <1>2
  <2>2. ASSUME NEW n \in Nodes, nd[n].status = "pending", Deps[n] \cap K # {}
        PROVE  n \in K
    <3>1. n \in L
      BY <1>6, <2>2 DEF Blocking
    <3>2. n # m
      BY <1>5, <2>2
    <3>3. QED  BY <3>1, <3>2
  <2>3. QED  BY <2>1, <2>2 DEF Blocking
<1>8. K \in SUBSET Nodes
  OBVIOUS
<1>9. m \in K
  BY <1>1, <1>7, <1>8
<1>10. QED  BY <1>9

-----------------------------------------------------------------------------
(* The steps of an execution.                                              *)

RunChanges(n, c) == RunBecomes(n, c, exec'[n][c])
RowChanges(n) == RowBecomes(node', n, node'[n])
Typed == node \in Rows /\ exec \in Runs

LEMMA TypesAre == ASSUME GraphTypeOK PROVE Typed
BY DEF GraphTypeOK, Typed, Rows, Runs

LEMMA PointsAre ==
  /\ "none" \in Points /\ "launched" \in Points /\ "marked" \in Points /\ "working" \in Points /\ "failing" \in Points
  /\ "skipping" \in Points /\ "after" \in Points /\ "advancing" \in Points
  /\ "closeFailed" \in Points /\ "closeAfter" \in Points /\ "closeAdvance" \in Points
BY DEF Points

LEMMA MarksRunningIs ==
  ASSUME Typed, NEW n \in Nodes, NEW c \in Copies, MarksRunning(n, c)
  PROVE  /\ RowChanges(n) /\ node'[n].status = "running" /\ node'[n].retry = node[n].retry
         /\ RunChanges(n, c) /\ exec'[n][c].at = "marked" /\ exec'[n][c].doomed = {}
<1>1. "running" \in NodeStatus
  BY DEF NodeStatus
<1>2. node' = SetStatus(node, n, "running") /\ Moves(n, c, "marked")
  BY DEF MarksRunning
<1>3. QED  BY <1>1, <1>2, StatusSet, RunMoves, PointsAre DEF Typed, RowChanges, RunChanges, RunBecomes

LEMMA MarksInFlightIs ==
  ASSUME Typed, NEW n \in Nodes, NEW c \in Copies, MarksInFlight(n, c)
  PROVE  /\ node' = node
         /\ RunChanges(n, c) /\ exec'[n][c].at = "working" /\ exec'[n][c].doomed = {}
<1>1. node' = node /\ Moves(n, c, "working")
  BY DEF MarksInFlight
<1>2. QED  BY <1>1, RunMoves, PointsAre DEF Typed, RunChanges, RunBecomes

LEMMA FailsEarlyIs ==
  ASSUME Typed, NEW n \in Nodes, NEW c \in Copies, FailsEarly(n, c)
  PROVE  /\ RowChanges(n) /\ node'[n].status = "pending" /\ node'[n].retry = 1
         /\ RunChanges(n, c) /\ exec'[n][c].at = "none" /\ exec'[n][c].doomed = {}
<1>1. node' = Retried(node, n, 1) /\ exec' = Ended(n, c) /\ 1 \in Nat
  BY DEF FailsEarly
<1>2. QED  BY <1>1, RetriedIs, RunEnds DEF Typed, RowChanges, RunChanges, RunBecomes

LEMMA SucceedsIs ==
  ASSUME Typed, NEW n \in Nodes, NEW c \in Copies, Succeeds(n, c)
  PROVE  /\ RowChanges(n) /\ node'[n].status = "completed" /\ node'[n].retry = node[n].retry
         /\ RunChanges(n, c) /\ exec'[n][c].at = "after" /\ exec'[n][c].doomed = {}
<1>1. "completed" \in NodeStatus
  BY DEF NodeStatus
<1>2. node' = SetStatus(node, n, "completed") /\ Moves(n, c, "after")
  BY DEF Succeeds
<1>3. QED  BY <1>1, <1>2, StatusSet, RunMoves, PointsAre DEF Typed, RowChanges, RunChanges, RunBecomes

LEMMA FailsIs ==
  ASSUME Typed, NEW n \in Nodes, NEW c \in Copies, Fails(n, c)
  PROVE  /\ node' = node
         /\ RunChanges(n, c) /\ exec'[n][c].at = "failing" /\ exec'[n][c].doomed = {}
         /\ exec'[n][c].seen = node[n].retry
<1> DEFINE y == [Standing(exec[n][c], "failing") EXCEPT !.seen = node[n].retry]
<1>1. exec[n][c] \in Execution /\ node[n].retry \in Nat
  BY DEF Typed, Runs, Rows, Row
<1>2. y \in Execution /\ y.at = "failing" /\ y.doomed = {} /\ y.seen = node[n].retry
  BY <1>1, FailingIs
<1>3. exec' = [exec EXCEPT ![n][c] = y] /\ node' = node
  BY DEF Fails
<1> HIDE DEF y
<1>4. RunBecomes(n, c, y)
  BY <1>2, <1>3, RunSet DEF Typed
<1>5. QED  BY <1>2, <1>3, <1>4 DEF RunChanges, RunBecomes

LEMMA FailsAgainIs ==
  ASSUME Typed, NEW n \in Nodes, NEW c \in Copies, FailsAgain(n, c)
  PROVE  /\ RowChanges(n) /\ node'[n].status = "pending" /\ node'[n].retry = exec[n][c].seen + 1
         /\ RunChanges(n, c) /\ exec'[n][c].at = "after" /\ exec'[n][c].doomed = {}
<1>1. exec[n][c].seen + 1 \in Nat
  BY DEF Typed, Runs, Execution
<1>2. node' = Retried(node, n, exec[n][c].seen + 1) /\ Moves(n, c, "after")
  BY DEF FailsAgain
<1>3. QED  BY <1>1, <1>2, RetriedIs, RunMoves, PointsAre DEF Typed, RowChanges, RunChanges, RunBecomes

LEMMA FailsForGoodIs ==
  ASSUME Typed, NEW n \in Nodes, NEW c \in Copies, FailsForGood(n, c)
  PROVE  /\ RowChanges(n) /\ node'[n].status = "failed" /\ node'[n].retry = exec[n][c].seen + 1
         /\ RunChanges(n, c) /\ exec'[n][c].at = "skipping" /\ exec'[n][c].doomed = Doomed(node')
<1> DEFINE y == [Standing(exec[n][c], "skipping") EXCEPT !.doomed = Doomed(node')]
<1>1. exec[n][c] \in Execution /\ exec[n][c].seen + 1 \in Nat /\ Doomed(node') \in SUBSET Nodes
  BY DEF Typed, Runs, Execution, Doomed
<1>2. y \in Execution /\ y.at = "skipping" /\ y.doomed = Doomed(node')
  BY <1>1, SkippingIs
<1>3. exec' = [exec EXCEPT ![n][c] = y] /\ node' = Failed(node, n, exec[n][c].seen + 1)
  BY DEF FailsForGood
<1> HIDE DEF y
<1>4. RunBecomes(n, c, y)
  BY <1>2, <1>3, RunSet DEF Typed
<1>5. RowChanges(n) /\ node'[n].status = "failed" /\ node'[n].retry = exec[n][c].seen + 1
  BY <1>1, <1>3, FailedIs DEF Typed, RowChanges
<1>6. QED  BY <1>2, <1>4, <1>5 DEF RunChanges, RunBecomes

LEMMA SkipsBlockedIs ==
  ASSUME Typed, NEW n \in Nodes, NEW c \in Copies, SkipsBlocked(n, c)
  PROVE  /\ node' \in Rows
         /\ \A m \in exec[n][c].doomed : /\ m \in Nodes /\ node'[m].status = "skipped"
                                        /\ node'[m].retry = node[m].retry
         /\ \A m \in Nodes \ exec[n][c].doomed : node'[m] = node[m]
         /\ RunChanges(n, c) /\ exec'[n][c].doomed = {}
         /\ exec'[n][c].at \in {"after", "closeFailed"}
         /\ exec'[n][c].at = "closeFailed" => AllTerminal(node')
<1>1. exec[n][c].doomed \in SUBSET Nodes
  BY DEF Typed, Runs, Execution
<1>2. node' = Skipped(node, exec[n][c].doomed)
  BY DEF SkipsBlocked
<1>3. /\ AllTerminal(node') => Moves(n, c, "closeFailed")
      /\ ~AllTerminal(node') => Moves(n, c, "after")
  BY DEF SkipsBlocked
<1>4. /\ RunChanges(n, c) /\ exec'[n][c].doomed = {}
      /\ exec'[n][c].at \in {"after", "closeFailed"}
      /\ exec'[n][c].at = "closeFailed" => AllTerminal(node')
  <2>1. CASE AllTerminal(node')
    BY <1>3, <2>1, RunMoves, PointsAre DEF Typed, RunChanges, RunBecomes
  <2>2. CASE ~AllTerminal(node')
    BY <1>3, <2>2, RunMoves, PointsAre DEF Typed, RunChanges, RunBecomes
  <2>3. QED  BY <2>1, <2>2
<1>5. QED  BY <1>1, <1>2, <1>4, SkippedIs DEF Typed

-----------------------------------------------------------------------------
(* The steps that launch.                                                  *)

\* Executions that stood at no statement start, one of each node of R.
Launches(R) ==
  /\ exec' \in Runs /\ R \subseteq Ready(node)
  /\ \A m \in Nodes, d \in Copies :
       exec'[m][d] # exec[m][d] =>
         /\ exec[m][d].at \in {"none", "after", "advancing"}
         /\ exec'[m][d].at \in {"none", "launched"} /\ exec'[m][d].doomed = {}
         /\ exec'[m][d].at = "launched" => m \in R
  /\ \A m \in Nodes : \A d, e \in Copies :
       /\ exec'[m][d].at = "launched" /\ exec[m][d].at # "launched"
       /\ exec'[m][e].at = "launched" /\ exec[m][e].at # "launched"
       => d = e
  /\ disturbed' # disturbed \/ \A m \in R, d \in Copies : exec[m][d].at # "launched"

Verdict(n, c) == RunChanges(n, c) /\ exec'[n][c].doomed = {} /\ AllTerminal(node)

LEMMA OverlapsIs ==
  ASSUME NEW ex, NEW R \in SUBSET Nodes, Disturbs(Overlaps(ex, R)), disturbed \in Nat
  PROVE  disturbed' # disturbed \/ \A m \in R, d \in Copies : ex[m][d].at # "launched"
<1>1. CASE Overlaps(ex, R)
  BY <1>1 DEF Disturbs
<1>2. CASE ~Overlaps(ex, R)
  BY <1>2 DEF Overlaps
<1>3. QED  BY <1>1, <1>2

LEMMA ReadyIs == Ready(node) \in SUBSET Nodes
BY DEF Ready

LEMMA AdvanceIs ==
  ASSUME Typed, disturbed \in Nat, NEW p \in Procs, Advance(p)
  PROVE  Launches(Ready(node)) \/ /\ exec' = exec /\ AllTerminal(node)
                                    /\ caller' = [caller EXCEPT ![p] = "closing"]
<1> DEFINE R == Ready(node)
<1>1. CASE R # {} /\ CanLaunch(exec, R) /\ exec' = Launched(exec, R, p) /\ Disturbs(Overlaps(exec, R))
  <2>1. /\ exec' \in Runs
        /\ \A n \in Nodes \ R : exec'[n] = exec[n]
        /\ \A n \in R : \E c \in Copies :
             /\ exec[n][c].at = "none" /\ exec'[n][c] = Starting(p)
             /\ \A d \in Copies : d # c => exec'[n][d] = exec[n][d]
    BY <1>1, LaunchedIs, ReadyIs DEF Typed
  <2>2. Starting(p).at = "launched" /\ Starting(p).doomed = {}
    BY StartingIs
  <2>3. disturbed' # disturbed \/ \A m \in R, d \in Copies : exec[m][d].at # "launched"
    BY <1>1, OverlapsIs, ReadyIs
  <2>4. ASSUME NEW m \in Nodes, NEW d \in Copies, exec'[m][d] # exec[m][d]
        PROVE  /\ exec[m][d].at = "none" /\ m \in R /\ exec'[m][d] = Starting(p)
               /\ \A e \in Copies : e # d => exec'[m][e] = exec[m][e]
    BY <2>1, <2>4
  <2>5. QED  BY <2>1, <2>2, <2>3, <2>4 DEF Launches
<1>2. CASE AllTerminal(node) /\ caller' = [caller EXCEPT ![p] = "closing"] /\ UNCHANGED exec
  BY <1>2 DEF Advance
<1>3. QED  BY <1>1, <1>2 DEF Advance

\* What GoesOn and AdvancesLast share: the execution ends and launches the next wave.
LEMMA WaveIs ==
  ASSUME Typed, disturbed \in Nat, NEW n \in Nodes, NEW c \in Copies,
         exec[n][c].at \in {"after", "advancing"},
         CanLaunch(Ended(n, c), Ready(node)),
         exec' = Launched(Ended(n, c), Ready(node), exec[n][c].proc),
         Disturbs(Overlaps(Ended(n, c), Ready(node)))
  PROVE  Launches(Ready(node))
<1> DEFINE R == Ready(node)
           ex == Ended(n, c)
           p == exec[n][c].proc
<1>1. p \in Procs \cup {"none"}
  BY DEF Typed, Runs, Execution
<1>2. /\ ex \in Runs /\ ex[n][c] = Nobody
      /\ \A m \in Nodes, d \in Copies : m # n \/ d # c => ex[m][d] = exec[m][d]
  BY NobodyIs DEF Typed, Runs, Ended
<1>3. Nobody.at = "none" /\ Nobody.doomed = {}
  BY NobodyIs
<1>4. Starting(p).at = "launched" /\ Starting(p).doomed = {}
  BY <1>1, StartingIs
<1>5. CanLaunch(ex, R) /\ exec' = Launched(ex, R, p) /\ Disturbs(Overlaps(ex, R))
  OBVIOUS
<1> HIDE DEF ex, p, R
<1>6. R \in SUBSET Nodes /\ R = Ready(node)
  BY ReadyIs DEF R
<1>7. /\ exec' \in Runs
      /\ \A m \in Nodes \ R : exec'[m] = ex[m]
      /\ \A m \in R : \E d \in Copies :
           /\ ex[m][d].at = "none" /\ exec'[m][d] = Starting(p)
           /\ \A e \in Copies : e # d => exec'[m][e] = ex[m][e]
  BY <1>1, <1>2, <1>5, <1>6, LaunchedIs
<1>8. ASSUME NEW m \in Nodes, NEW d \in Copies, exec'[m][d] # ex[m][d]
      PROVE  /\ ex[m][d].at = "none" /\ m \in R /\ exec'[m][d] = Starting(p)
             /\ \A e \in Copies : e # d => exec'[m][e] = ex[m][e]
  BY <1>7, <1>8
<1>9. disturbed' # disturbed \/ \A m \in R, d \in Copies : ex[m][d].at # "launched"
  BY <1>5, <1>6, OverlapsIs
<1>10. ASSUME NEW m \in Nodes, NEW d \in Copies, exec'[m][d] # exec[m][d]
       PROVE  /\ exec[m][d].at \in {"none", "after", "advancing"}
              /\ exec'[m][d].at \in {"none", "launched"} /\ exec'[m][d].doomed = {}
              /\ exec'[m][d].at = "launched" => m \in R
  <2>1. CASE exec'[m][d] # ex[m][d]
    <3>1. ex[m][d].at = "none" /\ m \in R /\ exec'[m][d] = Starting(p)
      BY <1>8, <2>1
    <3>2. exec[m][d].at \in {"none", "after", "advancing"}
      BY <1>2, <3>1
    <3>3. QED  BY <1>4, <3>1, <3>2
  <2>2. CASE exec'[m][d] = ex[m][d]
    <3>1. m = n /\ d = c
      BY <1>2, <1>10, <2>2
    <3>2. QED  BY <1>2, <1>3, <2>2, <3>1
  <2>3. QED  BY <2>1, <2>2
<1>11. ASSUME NEW m \in Nodes, NEW d \in Copies, NEW e \in Copies,
              exec'[m][d].at = "launched", exec[m][d].at # "launched",
              exec'[m][e].at = "launched", exec[m][e].at # "launched"
       PROVE  d = e
  <2>1. exec'[m][d] # ex[m][d] /\ exec'[m][e] # ex[m][e]
    BY <1>2, <1>3, <1>11
  <2>2. QED  BY <1>8, <2>1
<1>12. \A m \in R, d \in Copies : exec[m][d].at = "launched" => ex[m][d].at = "launched"
  BY <1>2, <1>6
<1>13. disturbed' # disturbed \/ \A m \in R, d \in Copies : exec[m][d].at # "launched"
  BY <1>9, <1>12
<1>14. Launches(R)
  BY <1>6, <1>7, <1>10, <1>11, <1>13 DEF Launches
<1>15. QED  BY <1>6, <1>14

\* An execution that ends launches nothing.
LEMMA EndIs ==
  ASSUME Typed, NEW n \in Nodes, NEW c \in Copies,
         exec[n][c].at \in {"after", "advancing"}, exec' = Ended(n, c)
  PROVE  Launches({})
<1>1. RunBecomes(n, c, Nobody) /\ exec'[n][c].at = "none" /\ exec'[n][c].doomed = {}
  BY RunEnds DEF Typed
<1>2. QED  BY <1>1 DEF Launches, RunBecomes

LEMMA GoesOnIs ==
  ASSUME Typed, disturbed \in Nat, NEW n \in Nodes, NEW c \in Copies, GoesOn(n, c)
  PROVE  \/ Launches(Ready(node)) \/ Launches({})
         \/ Verdict(n, c) /\ exec'[n][c].at = "closeAfter"
<1>1. exec[n][c].at = "after"
  BY DEF GoesOn, At
<1>2. CASE exec' = Ended(n, c)
  BY <1>1, <1>2, EndIs
<1>3. CASE AllTerminal(node) /\ Moves(n, c, "closeAfter")
  BY <1>3, RunMoves, PointsAre DEF Typed, Verdict, RunChanges, RunBecomes
<1>4. CASE /\ CanLaunch(Ended(n, c), Ready(node))
           /\ exec' = Launched(Ended(n, c), Ready(node), exec[n][c].proc)
           /\ Disturbs(Overlaps(Ended(n, c), Ready(node)))
  BY <1>1, <1>4, WaveIs
<1>5. QED  BY <1>2, <1>3, <1>4 DEF GoesOn

LEMMA AdvancesLastIs ==
  ASSUME Typed, disturbed \in Nat, NEW n \in Nodes, NEW c \in Copies, AdvancesLast(n, c)
  PROVE  \/ Launches(Ready(node)) \/ Launches({})
         \/ Verdict(n, c) /\ exec'[n][c].at = "closeAdvance"
<1>1. exec[n][c].at = "advancing"
  BY DEF AdvancesLast, At
<1>2. CASE exec' = Ended(n, c)
  BY <1>1, <1>2, EndIs
<1>3. CASE AllTerminal(node) /\ Moves(n, c, "closeAdvance")
  BY <1>3, RunMoves, PointsAre DEF Typed, Verdict, RunChanges, RunBecomes
<1>4. CASE /\ CanLaunch(Ended(n, c), Ready(node))
           /\ exec' = Launched(Ended(n, c), Ready(node), exec[n][c].proc)
           /\ Disturbs(Overlaps(Ended(n, c), Ready(node)))
  BY <1>1, <1>4, WaveIs
<1>5. QED  BY <1>2, <1>3, <1>4 DEF AdvancesLast

-----------------------------------------------------------------------------
(* The other steps that write rows or executions.                          *)

LEMMA ClosesIs ==
  ASSUME Typed, NEW n \in Nodes, NEW c \in Copies, Closes(n, c)
  PROVE  /\ node' = node /\ RunChanges(n, c) /\ exec'[n][c].doomed = {}
         /\ exec'[n][c].at \in {"after", "advancing", "none"}
<1>1. CASE Moves(n, c, "after")
  BY <1>1, RunMoves, PointsAre DEF Typed, RunChanges, RunBecomes, Closes
<1>2. CASE Moves(n, c, "advancing")
  BY <1>2, RunMoves, PointsAre DEF Typed, RunChanges, RunBecomes, Closes
<1>3. CASE exec' = Ended(n, c)
  BY <1>3, RunEnds DEF Typed, RunChanges, RunBecomes, Closes
<1>4. QED  BY <1>1, <1>2, <1>3 DEF Closes

LEMMA CrashIs ==
  ASSUME Typed, NEW p \in Procs, Crash(p)
  PROVE  /\ node' = node /\ exec' \in Runs
         /\ \A n \in Nodes, c \in Copies :
              \/ exec'[n][c] = exec[n][c]
              \/ /\ exec[n][c].proc = p
                 /\ exec'[n][c].at = "none" /\ exec'[n][c].doomed = {}
<1>1. exec' = [n \in Nodes |-> [c \in Copies |-> IF exec[n][c].proc = p THEN Nobody ELSE exec[n][c]]]
  BY DEF Crash
<1>2. exec' \in Runs
  BY <1>1, NobodyIs DEF Typed, Runs
<1>3. QED  BY <1>1, <1>2, NobodyIs DEF Crash

\* A swept row goes back to pending with its count raised; or it fails, and with it
\* everything behind it is skipped; or its mission was over, and it just fails.
LEMMA SweptIs ==
  ASSUME Typed, NEW row \in StaleRow
  PROVE  LET n == row.node
             nd == Swept(row) IN
         /\ nd \in Rows
         /\ \/ /\ row.over /\ RowBecomes(nd, n, nd[n])
               /\ nd[n].status = "failed" /\ nd[n].retry = node[n].retry
            \/ /\ row.seen < MAX_NODE_RETRIES /\ RowBecomes(nd, n, nd[n])
               /\ nd[n].status = "pending" /\ nd[n].retry = row.seen + 1
            \/ \E ne \in Rows :
                 /\ RowBecomes(ne, n, ne[n]) /\ ne[n].status = "failed" /\ ne[n].retry = row.seen + 1
                 /\ \A m \in Doomed(ne) : nd[m].status = "skipped" /\ nd[m].retry = ne[m].retry
                 /\ \A m \in Nodes \ Doomed(ne) : nd[m] = ne[m]
<1> DEFINE n == row.node
<1>1. n \in Nodes /\ row.seen \in Nat /\ row.seen + 1 \in Nat /\ row.over \in BOOLEAN
  BY DEF StaleRow
<1>2. CASE row.over
  <2>1. "failed" \in NodeStatus
    BY DEF NodeStatus
  <2>2. Swept(row) = SetStatus(node, n, "failed")
    BY <1>2 DEF Swept
  <2>3. QED  BY <1>1, <1>2, <2>1, <2>2, StatusSet DEF Typed, RowBecomes
<1>3. CASE ~row.over /\ row.seen < MAX_NODE_RETRIES
  <2>1. Swept(row) = Retried(node, n, row.seen + 1)
    BY <1>3 DEF Swept
  <2>2. QED  BY <1>1, <1>3, <2>1, RetriedIs DEF Typed, RowBecomes
<1>4. CASE ~row.over /\ ~(row.seen < MAX_NODE_RETRIES)
  <2> DEFINE ne == Failed(node, n, row.seen + 1)
  <2>1. Swept(row) = Skipped(ne, Doomed(ne))
    BY <1>4 DEF Swept
  <2>2. /\ RowBecomes(ne, n, ne[n]) /\ ne[n].status = "failed" /\ ne[n].retry = row.seen + 1
    BY <1>1, FailedIs DEF Typed
  <2>3. ne \in Rows /\ Doomed(ne) \in SUBSET Nodes
    BY <2>2 DEF RowBecomes, Doomed
  <2> HIDE DEF ne
  <2>4. QED  BY <2>1, <2>2, <2>3, SkippedIs
<1>5. QED  BY <1>1, <1>2, <1>3, <1>4

LEMMA SweepWritesIs ==
  ASSUME GraphTypeOK, NEW p \in Procs, SweepWrites(p)
  PROVE  sweep[p] \in StaleRow /\ node' = Swept(sweep[p]) /\ exec' = exec
BY DEF GraphTypeOK, SweepWrites

LEMMA RecoversIs ==
  ASSUME Typed, NEW p \in Procs, Recovers(p)
  PROVE  /\ node' \in Rows /\ exec' = exec
         /\ \A n \in Nodes : \/ node'[n] = node[n] /\ node[n].status # "running"
                             \/ /\ node[n].status = "running" /\ node'[n].status = "pending"
                                /\ node'[n].retry = node[n].retry
<1>1. \A r \in Row : /\ [r EXCEPT !.status = "pending"] \in Row
                     /\ [r EXCEPT !.status = "pending"].status = "pending"
                     /\ [r EXCEPT !.status = "pending"].retry = r.retry
  BY DEF Row, NodeStatus
<1>2. node' = [n \in Nodes |-> IF node[n].status = "running"
                               THEN [node[n] EXCEPT !.status = "pending"] ELSE node[n]]
  BY DEF Recovers
<1>3. \A n \in Nodes : node[n] \in Row
  BY DEF Typed, Rows
<1>4. QED  BY <1>1, <1>2, <1>3 DEF Recovers, Rows

LEMMA RestartsIs ==
  ASSUME Typed, Restarts
  PROVE  /\ node' \in Rows /\ exec' = exec
         /\ \A n \in Nodes : \/ ~Reset(n) /\ node'[n] = node[n]
                             \/ Reset(n) /\ node'[n].status = "pending" /\ node'[n].retry = 0
<1> DEFINE r == [status |-> "pending", retry |-> 0]
<1>1. r \in Row /\ r.status = "pending" /\ r.retry = 0
  BY DEF Row, NodeStatus
<1>2. node' = [n \in Nodes |-> IF Reset(n) THEN r ELSE node[n]]
  BY DEF Restarts
<1> HIDE DEF r
<1>3. \A n \in Nodes : node[n] \in Row
  BY DEF Typed, Rows
<1>4. QED  BY <1>1, <1>2, <1>3 DEF Restarts, Rows

-----------------------------------------------------------------------------
(* Types.                                                                  *)

LEMMA ExecutesTyped ==
  ASSUME Typed, disturbed \in Nat, NEW n \in Nodes, NEW c \in Copies, Executes(n, c)
  PROVE  Typed'
<1>1. CASE MarksRunning(n, c)
  BY <1>1, MarksRunningIs DEF Typed, RowChanges, RunChanges, RowBecomes, RunBecomes
<1>2. CASE FailsEarly(n, c)
  BY <1>2, FailsEarlyIs DEF Typed, RowChanges, RunChanges, RowBecomes, RunBecomes
<1>3. CASE Succeeds(n, c)
  BY <1>3, SucceedsIs DEF Typed, RowChanges, RunChanges, RowBecomes, RunBecomes
<1>4. CASE MarksInFlight(n, c) \/ Fails(n, c)
  BY <1>4, MarksInFlightIs, FailsIs DEF Typed, RunChanges, RunBecomes
<1>5. CASE FailsAgain(n, c)
  BY <1>5, FailsAgainIs DEF Typed, RowChanges, RunChanges, RowBecomes, RunBecomes
<1>6. CASE FailsForGood(n, c)
  BY <1>6, FailsForGoodIs DEF Typed, RowChanges, RunChanges, RowBecomes, RunBecomes
<1>7. CASE SkipsBlocked(n, c)
  BY <1>7, SkipsBlockedIs DEF Typed, RunChanges, RunBecomes
<1>8. CASE GoesOn(n, c)
  BY <1>8, GoesOnIs DEF Typed, Launches, Verdict, RunChanges, RunBecomes, GoesOn
<1>9. CASE Closes(n, c)
  BY <1>9, ClosesIs DEF Typed, RunChanges, RunBecomes
<1>10. CASE AdvancesLast(n, c)
  BY <1>10, AdvancesLastIs DEF Typed, Launches, Verdict, RunChanges, RunBecomes, AdvancesLast
<1>11. QED
  BY <1>1, <1>2, <1>3, <1>4, <1>5, <1>6, <1>7, <1>8, <1>9, <1>10 DEF Executes

LEMMA TypedStep ==
  ASSUME GraphTypeOK, [Next]_vars
  PROVE  Typed'
<1>1. Typed /\ disturbed \in Nat
  BY TypesAre, GraphAssumption DEF GraphTypeOK, GraphAssumption
<1>2. ASSUME NEW n \in Nodes, NEW c \in Copies, Executes(n, c)
      PROVE  Typed'
  BY <1>1, <1>2, ExecutesTyped
<1>3. ASSUME NEW p \in Procs, Process(p)
      PROVE  Typed'
  <2>1. CASE Advance(p)
    BY <1>1, <2>1, AdvanceIs DEF Typed, Launches, Advance
  <2>2. CASE FactoryAsks(p) \/ CallerCloses(p) \/ (\E n \in Nodes : SweepReads(p, n)) \/ Boots(p)
    BY <1>1, <2>2 DEF Typed, FactoryAsks, CallerCloses, SweepReads, Boots
  <2>3. CASE SweepWrites(p)
    BY <1>1, <2>3, SweepWritesIs, SweptIs DEF Typed
  <2>4. CASE Crash(p)
    BY <1>1, <2>4, CrashIs DEF Typed
  <2>5. CASE Recovers(p)
    BY <1>1, <2>5, RecoversIs DEF Typed
  <2>6. QED  BY <1>3, <2>1, <2>2, <2>3, <2>4, <2>5 DEF Process
<1>4. CASE Restarts
  BY <1>1, <1>4, RestartsIs DEF Typed
<1>5. CASE Decides \/ GetsBrand \/ FactoryPlans \/ FactorySettles \/ FactoryReopens \/ UNCHANGED vars
  BY <1>1, <1>5 DEF Typed, Decides, GetsBrand, FactoryPlans, FactorySettles, FactoryReopens, vars
<1>6. QED  BY <1>2, <1>3, <1>4, <1>5 DEF Next, Outside

\* Everything but the rows and the executions.
RestTyped ==
  /\ mission \in MissionStatus
  /\ caller \in [Procs -> {"idle", "closing", "asking"}]
  /\ sweep \in [Procs -> StaleRow \cup {NoRow}]
  /\ up \in [Procs -> BOOLEAN]
  /\ brand \in BOOLEAN /\ filled \subseteq Ideation /\ factory \in {"none", "open", "done"}
  /\ faults \in 0..MaxFaults /\ restarts \in 0..MaxRestarts
  /\ done \subseteq Nodes /\ lost \subseteq Nodes
  /\ skipLost \in BOOLEAN /\ disturbed \in 0..MaxDisturbed

LEMMA TypesSplit == GraphTypeOK <=> Typed /\ RestTyped
BY DEF GraphTypeOK, Typed, RestTyped, Rows, Runs

LEMMA DisturbsTyped ==
  ASSUME disturbed \in 0..MaxDisturbed, NEW E, Disturbs(E)
  PROVE  disturbed' \in 0..MaxDisturbed
BY GraphAssumption DEF GraphAssumption, Disturbs

LEMMA ExecutesRest ==
  ASSUME Typed, RestTyped, NEW n \in Nodes, NEW c \in Copies, Executes(n, c)
  PROVE  RestTyped'
<1>1. UNCHANGED <<caller, sweep, Environment>>
  BY DEF Executes, MarksRunning, MarksInFlight, FailsEarly, Succeeds, Fails, FailsAgain, FailsForGood, SkipsBlocked,
         GoesOn, Closes, AdvancesLast, Apart
<1>2. mission' \in MissionStatus
  <2>1. mission' = mission \/ mission' = "in_flight" \/ mission' = Closed
    BY DEF Executes, MarksRunning, MarksInFlight, FailsEarly, Succeeds, Fails, FailsAgain, FailsForGood, SkipsBlocked,
           GoesOn, Closes, AdvancesLast
  <2>2. QED  BY <2>1 DEF RestTyped, Closed, MissionStatus
<1>3. exec[n][c].doomed \subseteq Nodes
  BY DEF Typed, Runs, Execution
<1>4. done' \subseteq Nodes /\ lost' \subseteq Nodes
  <2>1. done' = done \/ done' = done \cup {n}
    BY DEF Executes, MarksRunning, MarksInFlight, FailsEarly, Succeeds, Fails, FailsAgain, FailsForGood, SkipsBlocked,
           GoesOn, Closes, AdvancesLast
  <2>2. lost' = lost \/ lost' = lost \cup {n} \/ lost' = lost \cup exec[n][c].doomed
    BY DEF Executes, MarksRunning, MarksInFlight, FailsEarly, Succeeds, Fails, FailsAgain, FailsForGood, SkipsBlocked,
           GoesOn, Closes, AdvancesLast
  <2>3. QED  BY <1>3, <2>1, <2>2 DEF RestTyped
<1>5. skipLost' = skipLost
  BY DEF Executes, MarksRunning, MarksInFlight, FailsEarly, Succeeds, Fails, FailsAgain, FailsForGood, SkipsBlocked,
         GoesOn, Closes, AdvancesLast
<1>6. disturbed' \in 0..MaxDisturbed
  <2>1. disturbed' = disturbed \/ Disturbs(Overlaps(Ended(n, c), Ready(node)))
    BY DEF Executes, MarksRunning, MarksInFlight, FailsEarly, Succeeds, Fails, FailsAgain, FailsForGood, SkipsBlocked,
           GoesOn, Closes, AdvancesLast
  <2>2. QED  BY <2>1, DisturbsTyped DEF RestTyped
<1>7. filled' \subseteq Ideation
  <2>1. filled' = filled \/ filled' \in {filled \ {n}, filled \cup ({n} \cap Ideation)}
    BY DEF Executes, MarksRunning, MarksInFlight, FailsEarly, Succeeds, Fails, FailsAgain, FailsForGood,
           SkipsBlocked, GoesOn, Closes, AdvancesLast, Apart
  <2>2. QED  BY <2>1 DEF RestTyped
<1>8. QED  BY <1>1, <1>2, <1>4, <1>5, <1>6, <1>7 DEF RestTyped, Environment

LEMMA ProcessRest ==
  ASSUME GraphTypeOK, NEW p \in Procs, Process(p)
  PROVE  RestTyped'
<1>1. RestTyped
  BY TypesSplit
<1>2. CASE Advance(p)
  <2>1. disturbed' \in 0..MaxDisturbed
    BY <1>1, <1>2, DisturbsTyped DEF Advance, RestTyped
  <2>2. caller' \in [Procs -> {"idle", "closing", "asking"}]
    BY <1>1, <1>2 DEF Advance, RestTyped
  <2>3. QED  BY <1>1, <1>2, <2>1, <2>2 DEF Advance, RestTyped, Apart, Environment
<1>3. CASE FactoryAsks(p) \/ CallerCloses(p)
  <2>1. caller' \in [Procs -> {"idle", "closing", "asking"}]
    BY <1>1, <1>3 DEF FactoryAsks, CallerCloses, RestTyped
  <2>2. mission' \in MissionStatus
    BY <1>1, <1>3 DEF FactoryAsks, CallerCloses, RestTyped, Closed, MissionStatus
  <2>3. QED  BY <1>1, <1>3, <2>1, <2>2 DEF FactoryAsks, CallerCloses, RestTyped, Apart, Environment
<1>4. ASSUME NEW n \in Nodes, SweepReads(p, n)
      PROVE  RestTyped'
  <2> DEFINE row == [node |-> n, seen |-> node[n].retry, over |-> mission \in {"cancelled", "rejected"},
                     alive |-> Attended(n)]
  <2>1. node[n].retry \in Nat
    BY TypesAre DEF Typed, Rows, Row
  <2>2. (mission \in {"cancelled", "rejected"}) \in BOOLEAN /\ Attended(n) \in BOOLEAN
    BY DEF Attended
  <2>3. row \in StaleRow
    BY <2>1, <2>2 DEF StaleRow
  <2>4. sweep' = [sweep EXCEPT ![p] = row]
    BY <1>4 DEF SweepReads
  <2> HIDE DEF row
  <2>5. sweep' \in [Procs -> StaleRow \cup {NoRow}]
    BY <1>1, <2>3, <2>4 DEF RestTyped
  <2>6. disturbed' \in 0..MaxDisturbed
    BY <1>1, <1>4, DisturbsTyped DEF SweepReads, RestTyped
  <2>7. QED  BY <1>1, <1>4, <2>5, <2>6 DEF SweepReads, RestTyped, Apart, Environment
<1>5. CASE SweepWrites(p)
  <2>1. sweep' \in [Procs -> StaleRow \cup {NoRow}]
    BY <1>1, <1>5 DEF SweepWrites, RestTyped
  <2>2. lost' \subseteq Nodes
    BY <1>1, <1>5 DEF SweepWrites, RestTyped
  <2>3. disturbed' \in 0..MaxDisturbed
    BY <1>1, <1>5, DisturbsTyped DEF SweepWrites, RestTyped
  <2>4. QED  BY <1>1, <1>5, <2>1, <2>2, <2>3 DEF SweepWrites, RestTyped, Apart, Environment
<1>6. CASE Crash(p)
  <2>1. sweep' \in [Procs -> StaleRow \cup {NoRow}] /\ caller' \in [Procs -> {"idle", "closing", "asking"}]
    BY <1>1, <1>6 DEF Crash, RestTyped
  <2>2. up' \in [Procs -> BOOLEAN] /\ faults' \in 0..MaxFaults
    <3>1. FALSE \in BOOLEAN /\ up \in [Procs -> BOOLEAN] /\ faults \in 0..MaxFaults
      BY <1>1 DEF RestTyped
    <3>2. up' = [up EXCEPT ![p] = FALSE] /\ faults < MaxFaults /\ faults' = faults + 1
      BY <1>6 DEF Crash
    <3>3. up' \in [Procs -> BOOLEAN]
      BY <3>1, <3>2
    <3>4. faults' \in 0..MaxFaults
      BY <3>1, <3>2, GraphAssumption DEF GraphAssumption
    <3>5. QED  BY <3>3, <3>4
  <2>3. skipLost' \in BOOLEAN
    BY <1>6 DEF Crash
  <2>4. QED  BY <1>1, <1>6, <2>1, <2>2, <2>3 DEF Crash, RestTyped
<1>7. CASE Boots(p) \/ Recovers(p)
  <2>1. up' \in [Procs -> BOOLEAN]
    <3>1. up' = [up EXCEPT ![p] = TRUE] /\ TRUE \in BOOLEAN
      BY <1>7 DEF Boots, Recovers
    <3>2. QED  BY <1>1, <3>1 DEF RestTyped
  <2>2. disturbed' \in 0..MaxDisturbed
    BY <1>1, <1>7, DisturbsTyped DEF Boots, Recovers, RestTyped
  <2>3. QED  BY <1>1, <1>7, <2>1, <2>2 DEF Boots, Recovers, RestTyped
<1>8. QED  BY <1>2, <1>3, <1>4, <1>5, <1>6, <1>7 DEF Process

LEMMA OutsideRest ==
  ASSUME RestTyped, Outside \/ UNCHANGED vars
  PROVE  RestTyped'
<1>1. CASE Decides
  <2>1. mission' \in MissionStatus
    BY <1>1 DEF Decides, MissionStatus
  <2>2. QED  BY <1>1, <2>1 DEF Decides, RestTyped, Apart, Environment
<1>2. CASE Restarts \/ FactoryReopens
  <2>1. restarts' \in 0..MaxRestarts
    BY <1>2, GraphAssumption DEF GraphAssumption, Restarts, FactoryReopens, RestTyped
  <2>2. disturbed' \in 0..MaxDisturbed
    BY <1>2, DisturbsTyped DEF Restarts, FactoryReopens, RestTyped
  <2>3. mission' \in MissionStatus /\ factory' \in {"none", "open", "done"}
    BY <1>2 DEF Restarts, FactoryReopens, RestTyped, MissionStatus
  <2>4. skipLost' \in BOOLEAN
    BY <1>2 DEF Restarts, FactoryReopens, RestTyped
  <2>5. QED  BY <1>2, <2>1, <2>2, <2>3, <2>4 DEF Restarts, FactoryReopens, RestTyped
<1>3. CASE GetsBrand
  <2>1. brand' \in BOOLEAN
    BY <1>3 DEF GetsBrand
  <2>2. QED  BY <1>3, <2>1 DEF GetsBrand, RestTyped
<1>4. CASE FactoryPlans \/ FactorySettles \/ UNCHANGED vars
  BY <1>4 DEF FactoryPlans, FactorySettles, vars, RestTyped
<1>5. QED  BY <1>1, <1>2, <1>3, <1>4 DEF Outside

LEMMA GraphTypeInit == Init => GraphTypeOK
<1> SUFFICES ASSUME Init PROVE GraphTypeOK
  OBVIOUS
<1>1. Typed
  <2>1. [status |-> "pending", retry |-> 0] \in Row
    BY DEF Row, NodeStatus
  <2>2. QED  BY <2>1, NobodyIs DEF Init, Typed, Rows, Runs
<1>2. up \in [Procs -> BOOLEAN] /\ brand \in BOOLEAN /\ skipLost \in BOOLEAN
  <2>1. TRUE \in BOOLEAN /\ FALSE \in BOOLEAN
    OBVIOUS
  <2>2. QED  BY <2>1 DEF Init
<1>3. 0 \in 0..MaxFaults /\ 0 \in 0..MaxRestarts /\ 0 \in 0..MaxDisturbed
  BY GraphAssumption DEF GraphAssumption
<1>4. "proposed" \in MissionStatus
  BY DEF MissionStatus
<1>5. caller \in [Procs -> {"idle", "closing", "asking"}] /\ sweep \in [Procs -> StaleRow \cup {NoRow}]
  BY DEF Init
<1>6. RestTyped
  BY <1>2, <1>3, <1>4, <1>5 DEF Init, RestTyped
<1>7. QED  BY <1>1, <1>6, TypesSplit

LEMMA GraphTypeStep == GraphTypeOK /\ [Next]_vars => GraphTypeOK'
<1> SUFFICES ASSUME GraphTypeOK, [Next]_vars PROVE GraphTypeOK'
  OBVIOUS
<1>1. Typed'
  BY TypedStep
<1>2. RestTyped'
  BY TypesSplit, ExecutesRest, ProcessRest, OutsideRest DEF Next
<1>3. QED  BY <1>1, <1>2, TypesSplit, PTL

\* Every reachable state of the task graph has its type, for any graph and any bounds.
THEOREM GraphTyped == Spec => []GraphTypeOK
<1>1. QED  BY GraphTypeInit, GraphTypeStep, PTL DEF Spec

-----------------------------------------------------------------------------
(* Dependencies and causes, whatever is disturbed.                         *)

\* What DependencyOrder needs of the rows: a completed node is in the history.
Ordered ==
  \A n \in Nodes :
    /\ node[n].status = "completed" => n \in done
    /\ node[n].status \in {"running", "completed"} => Deps[n] \subseteq done
    /\ \A c \in Copies : Live(exec[n][c]) => Deps[n] \subseteq done

\* What SkippedHasCause needs: so is a lost one, and what an execution is going to skip
\* has a cause in the history or among the same nodes.
Caused ==
  /\ \A n \in Nodes : node[n].status \in {"failed", "skipped"} => n \in lost
  /\ \A n \in Nodes : node[n].status = "skipped" => Deps[n] \cap lost # {}
  /\ \A n \in Nodes, c \in Copies : \A m \in exec[n][c].doomed :
       Deps[m] \cap (lost \cup exec[n][c].doomed) # {}

Sound == GraphTypeOK /\ Ordered /\ Caused

\* The order survives a step that runs or completes only nodes at work and starts only
\* executions of such or of ready nodes.
LEMMA OrderKept ==
  ASSUME Ordered, done \subseteq done',
         \A n \in Nodes : /\ node'[n].status = "completed" => node[n].status = "completed" \/ n \in done'
                          /\ node'[n].status \in {"running", "completed"} =>
                               \/ node[n].status = node'[n].status
                               \/ \E c \in Copies : Live(exec[n][c]),
         \A n \in Nodes, c \in Copies : Live(exec'[n][c]) => Live(exec[n][c]) \/ n \in Ready(node)
  PROVE  Ordered'
<1>1. \A n \in Ready(node) : Deps[n] \subseteq done
  <2>1. \A n \in Ready(node) : \A d \in Deps[n] : d \in Nodes /\ node[d].status = "completed"
    BY GraphAssumption DEF GraphAssumption, Ready
  <2>2. QED  BY <2>1 DEF Ordered
<1>2. \A n \in Nodes : \A c \in Copies : Live(exec'[n][c]) => Deps[n] \subseteq done'
  BY <1>1 DEF Ordered
<1>3. QED  BY <1>2 DEF Ordered

\* The causes survive a step that records what it loses, skips only with a cause, and
\* is going to skip only what it was, or has a cause.
LEMMA CauseKept ==
  ASSUME Caused, lost \subseteq lost',
         \A n \in Nodes : /\ node'[n].status \in {"failed", "skipped"} =>
                               node[n].status \in {"failed", "skipped"} \/ n \in lost'
                          /\ node'[n].status = "skipped" =>
                               node[n].status = "skipped" \/ Deps[n] \cap lost' # {},
         \A n \in Nodes, c \in Copies :
            \/ exec'[n][c].doomed \in {exec[n][c].doomed, {}}
            \/ \A m \in exec'[n][c].doomed : Deps[m] \cap (lost' \cup exec'[n][c].doomed) # {}
  PROVE  Caused'
<1>1. \A n \in Nodes : node'[n].status \in {"failed", "skipped"} => n \in lost'
  BY DEF Caused
<1>2. \A n \in Nodes : node'[n].status = "skipped" => Deps[n] \cap lost' # {}
  BY DEF Caused
<1>3. ASSUME NEW n \in Nodes, NEW c \in Copies, NEW m \in exec'[n][c].doomed
      PROVE  Deps[m] \cap (lost' \cup exec'[n][c].doomed) # {}
  BY <1>3 DEF Caused
<1>4. QED  BY <1>1, <1>2, <1>3 DEF Caused

\* Rows, history and executions as they were, or executions with nothing new about them.
LEMMA SoundQuiet ==
  ASSUME Ordered, Caused, node' = node, done' = done, lost' = lost,
         \A n \in Nodes, c \in Copies : /\ Live(exec'[n][c]) => Live(exec[n][c])
                                        /\ exec'[n][c].doomed \in {exec[n][c].doomed, {}}
  PROVE  Ordered' /\ Caused'
<1>1. Ordered'
  BY OrderKept
<1>2. Caused'
  BY CauseKept
<1>3. QED  BY <1>1, <1>2

LEMMA SoundLaunches ==
  ASSUME Ordered, Caused, NEW R, Launches(R), node' = node, done' = done, lost' = lost
  PROVE  Ordered' /\ Caused'
<1>1. \A n \in Nodes, c \in Copies : Live(exec'[n][c]) => Live(exec[n][c]) \/ n \in Ready(node)
  BY DEF Launches, Live
<1>2. \A n \in Nodes, c \in Copies : exec'[n][c].doomed \in {exec[n][c].doomed, {}}
  BY DEF Launches
<1>3. Ordered'
  BY <1>1, OrderKept
<1>4. Caused'
  BY <1>2, CauseKept
<1>5. QED  BY <1>3, <1>4

\* One execution changes its place and writes the row of its node.
LEMMA SoundWrite ==
  ASSUME Ordered, Caused, NEW n \in Nodes, NEW c \in Copies, RowChanges(n), RunChanges(n, c),
         Live(exec[n][c]), exec'[n][c].doomed = {},
         \/ node'[n].status \in {"pending", "running"} /\ done' = done
         \/ node'[n].status = "completed" /\ done' = done \cup {n},
         lost' = lost
  PROVE  Ordered' /\ Caused'
<1>1. \A m \in Nodes : m # n => node'[m] = node[m]
  BY DEF RowChanges, RowBecomes
<1>2. \A m \in Nodes, d \in Copies : m # n \/ d # c => exec'[m][d] = exec[m][d]
  BY DEF RunChanges, RunBecomes
<1>3. Ordered'
  <2>1. done \subseteq done'
    OBVIOUS
  <2>2. \A m \in Nodes :
          /\ node'[m].status = "completed" => node[m].status = "completed" \/ m \in done'
          /\ node'[m].status \in {"running", "completed"} =>
               \/ node[m].status = node'[m].status
               \/ \E d \in Copies : Live(exec[m][d])
    BY <1>1
  <2>3. ASSUME NEW m \in Nodes, NEW d \in Copies, Live(exec'[m][d])
        PROVE  Live(exec[m][d])
    BY <1>2, <2>3
  <2>4. QED  BY <2>1, <2>2, <2>3, OrderKept
<1>4. Caused'
  <2>1. \A m \in Nodes : node'[m].status \in {"failed", "skipped"} => node'[m] = node[m]
    BY <1>1
  <2>2. \A m \in Nodes, d \in Copies : exec'[m][d].doomed \in {exec[m][d].doomed, {}}
    BY <1>2
  <2>3. QED  BY <2>1, <2>2, CauseKept
<1>5. QED  BY <1>3, <1>4

LEMMA ExecutesSound ==
  ASSUME Sound, NEW n \in Nodes, NEW c \in Copies, Executes(n, c)
  PROVE  Ordered' /\ Caused'
<1>1. Typed /\ disturbed \in Nat /\ Ordered /\ Caused
  BY TypesAre, GraphAssumption DEF Sound, GraphTypeOK, GraphAssumption
<1>2. CASE MarksRunning(n, c)
  <2>1. Live(exec[n][c]) /\ done' = done /\ lost' = lost
    BY <1>2 DEF MarksRunning, At, Live
  <2>2. /\ RowChanges(n) /\ node'[n].status \in {"pending", "running"}
        /\ RunChanges(n, c) /\ exec'[n][c].doomed = {}
    BY <1>1, <1>2, MarksRunningIs
  <2>3. QED  BY <1>1, <2>1, <2>2, SoundWrite
<1>3. CASE FailsEarly(n, c)
  <2>1. Live(exec[n][c]) /\ done' = done /\ lost' = lost
    BY <1>3 DEF FailsEarly, At, Live
  <2>2. /\ RowChanges(n) /\ node'[n].status \in {"pending", "running"}
        /\ RunChanges(n, c) /\ exec'[n][c].doomed = {}
    BY <1>1, <1>3, FailsEarlyIs
  <2>3. QED  BY <1>1, <2>1, <2>2, SoundWrite
<1>4. CASE Succeeds(n, c)
  <2>1. Live(exec[n][c]) /\ done' = done \cup {n} /\ lost' = lost
    BY <1>4 DEF Succeeds, At, Live
  <2>2. QED  BY <1>1, <1>4, <2>1, SucceedsIs, SoundWrite
<1>5. CASE FailsAgain(n, c)
  <2>1. Live(exec[n][c]) /\ done' = done /\ lost' = lost
    BY <1>5 DEF FailsAgain, At, Live
  <2>2. /\ RowChanges(n) /\ node'[n].status \in {"pending", "running"}
        /\ RunChanges(n, c) /\ exec'[n][c].doomed = {}
    BY <1>1, <1>5, FailsAgainIs
  <2>3. QED  BY <1>1, <2>1, <2>2, SoundWrite
<1>6. CASE MarksInFlight(n, c) \/ Fails(n, c) \/ Closes(n, c)
  <2>1. done' = done /\ lost' = lost /\ node' = node /\ RunChanges(n, c) /\ exec'[n][c].doomed = {}
    BY <1>1, <1>6, MarksInFlightIs, FailsIs, ClosesIs DEF MarksInFlight, Fails, Closes
  <2>2. Live(exec'[n][c]) => Live(exec[n][c])
    BY <1>1, <1>6, FailsIs, ClosesIs DEF MarksInFlight, Fails, Live, At
  <2>3. QED  BY <1>1, <2>1, <2>2, SoundQuiet DEF RunChanges, RunBecomes
<1>7. CASE FailsForGood(n, c)
  <2>1. done' = done /\ lost' = lost \cup {n}
    BY <1>7 DEF FailsForGood
  <2>2. /\ RowChanges(n) /\ node'[n].status = "failed" /\ RunChanges(n, c)
        /\ ~Live(exec'[n][c]) /\ exec'[n][c].doomed = Doomed(node')
    BY <1>1, <1>7, FailsForGoodIs DEF Live
  <2>3. \A m \in Nodes : m # n => node'[m] = node[m]
    BY <2>2 DEF RowChanges, RowBecomes
  <2>4. Ordered'
    <3>1. \A m \in Nodes, d \in Copies : Live(exec'[m][d]) => Live(exec[m][d])
      BY <2>2 DEF RunChanges, RunBecomes
    <3>2. \A m \in Nodes : node'[m].status \in {"running", "completed"} => node[m].status = node'[m].status
      BY <2>2, <2>3
    <3>3. QED  BY <1>1, <2>1, <3>1, <3>2, OrderKept
  <2>5. Caused'
    <3>1. ASSUME NEW m \in exec'[n][c].doomed
          PROVE  Deps[m] \cap (lost' \cup exec'[n][c].doomed) # {}
      <4>1. node' \in Rows
        BY <2>2 DEF RowChanges, RowBecomes
      <4>2. PICK d \in Deps[m] : /\ d \in Nodes
                                 /\ node'[d].status \in {"failed", "skipped"} \/ d \in Doomed(node')
        BY <2>2, <3>1, <4>1, DoomedHasCause
      <4>3. node'[d].status \in {"failed", "skipped"} => d \in lost'
        BY <1>1, <2>1, <2>3, <4>2 DEF Caused
      <4>4. QED  BY <2>2, <4>2, <4>3
    <3>2. \A m \in Nodes, d \in Copies : m # n \/ d # c => exec'[m][d] = exec[m][d]
      BY <2>2 DEF RunChanges, RunBecomes
    <3>3. \A m \in Nodes, d \in Copies :
            \/ exec'[m][d].doomed \in {exec[m][d].doomed, {}}
            \/ \A k \in exec'[m][d].doomed : Deps[k] \cap (lost' \cup exec'[m][d].doomed) # {}
      BY <3>1, <3>2
    <3>4. \A m \in Nodes : node'[m].status = "skipped" => node[m].status = "skipped"
      BY <2>2, <2>3
    <3>5. \A m \in Nodes : node'[m].status \in {"failed", "skipped"} =>
                             node[m].status \in {"failed", "skipped"} \/ m \in lost'
      BY <2>1, <2>3
    <3>6. QED  BY <1>1, <2>1, <3>3, <3>4, <3>5, CauseKept
  <2>6. QED  BY <2>4, <2>5
<1>8. CASE SkipsBlocked(n, c)
  <2> DEFINE D == exec[n][c].doomed
  <2>1. done' = done /\ lost' = lost \cup D
    BY <1>8 DEF SkipsBlocked
  <2>2. /\ \A m \in D : m \in Nodes /\ node'[m].status = "skipped"
        /\ \A m \in Nodes \ D : node'[m] = node[m]
        /\ RunChanges(n, c) /\ exec'[n][c].doomed = {} /\ ~Live(exec'[n][c])
    BY <1>1, <1>8, SkipsBlockedIs DEF Live
  <2>3. \A m \in Nodes, d \in Copies : m # n \/ d # c => exec'[m][d] = exec[m][d]
    BY <2>2 DEF RunChanges, RunBecomes
  <2>4. Ordered'
    <3>1. \A m \in Nodes, d \in Copies : Live(exec'[m][d]) => Live(exec[m][d])
      BY <2>2, <2>3
    <3>2. \A m \in Nodes : node'[m].status \in {"running", "completed"} => node[m].status = node'[m].status
      BY <2>2
    <3>3. QED  BY <1>1, <2>1, <3>1, <3>2, OrderKept
  <2>5. Caused'
    <3>1. \A m \in D : Deps[m] \cap lost' # {}
      BY <1>1, <2>1 DEF Caused
    <3>2. \A m \in Nodes, d \in Copies : exec'[m][d].doomed \in {exec[m][d].doomed, {}}
      BY <2>2, <2>3
    <3>3. QED  BY <1>1, <2>1, <2>2, <3>1, <3>2, CauseKept
  <2>6. QED  BY <2>4, <2>5
<1>9. CASE GoesOn(n, c) \/ AdvancesLast(n, c)
  <2>1. node' = node /\ done' = done /\ lost' = lost
    BY <1>9 DEF GoesOn, AdvancesLast
  <2>2. CASE \E R : Launches(R)
    BY <1>1, <2>1, <2>2, SoundLaunches
  <2>3. CASE Verdict(n, c) /\ exec'[n][c].at \in {"closeAfter", "closeAdvance"}
    <3>1. ~Live(exec'[n][c]) /\ exec'[n][c].doomed = {} /\ RunChanges(n, c)
      BY <2>3 DEF Live, Verdict
    <3>2. QED  BY <1>1, <2>1, <3>1, SoundQuiet DEF RunChanges, RunBecomes
  <2>4. QED  BY <1>1, <1>9, <2>2, <2>3, GoesOnIs, AdvancesLastIs
<1>10. QED
  BY <1>2, <1>3, <1>4, <1>5, <1>6, <1>7, <1>8, <1>9 DEF Executes

\* A sweep loses the row it fails and what that dooms.
LEMMA SweepSound ==
  ASSUME Sound, NEW p \in Procs, SweepWrites(p)
  PROVE  Ordered' /\ Caused'
<1> DEFINE n == sweep[p].node
<1>1. Typed /\ Ordered /\ Caused
  BY TypesAre DEF Sound
<1>2. sweep[p] \in StaleRow /\ node' = Swept(sweep[p]) /\ exec' = exec /\ n \in Nodes
  BY SweepWritesIs DEF Sound, StaleRow
<1>3. /\ done' = done
      /\ lost' = lost \cup {m \in Nodes : node'[m] # node[m] /\ node'[m].status \in {"failed", "skipped"}}
  BY DEF SweepWrites
<1>4. \A m \in Nodes : node'[m].status \in {"failed", "skipped"} =>
                         node[m].status \in {"failed", "skipped"} \/ m \in lost'
  BY <1>3
<1>5. CASE RowBecomes(node', n, node'[n]) /\ node'[n].status \in {"failed", "pending"}
  <2>1. \A m \in Nodes : m # n => node'[m] = node[m]
    BY <1>5 DEF RowBecomes
  <2>2. Ordered'
    <3>1. \A m \in Nodes : node'[m].status \in {"running", "completed"} => node[m].status = node'[m].status
      BY <1>5, <2>1
    <3>2. QED  BY <1>1, <1>2, <1>3, <3>1, OrderKept
  <2>3. Caused'
    <3>1. \A m \in Nodes : node'[m].status = "skipped" => node[m].status = "skipped"
      BY <1>5, <2>1
    <3>2. QED  BY <1>1, <1>2, <1>3, <1>4, <3>1, CauseKept
  <2>4. QED  BY <2>2, <2>3
<1>6. ASSUME NEW ne \in Rows, RowBecomes(ne, n, ne[n]), ne[n].status = "failed",
             \A m \in Doomed(ne) : node'[m].status = "skipped",
             \A m \in Nodes \ Doomed(ne) : node'[m] = ne[m]
      PROVE  Ordered' /\ Caused'
  <2>1. \A m \in Nodes : m # n => ne[m] = node[m]
    BY <1>6 DEF RowBecomes
  <2>2. \A m \in Doomed(ne) : ne[m].status = "pending" /\ m \in Nodes
    BY DEF Doomed
  <2>3. Ordered'
    <3>1. \A m \in Nodes : node'[m].status \in {"running", "completed"} => node[m].status = node'[m].status
      BY <1>6, <2>1
    <3>2. QED  BY <1>1, <1>2, <1>3, <3>1, OrderKept
  <2>4. \A m \in Doomed(ne) : m \in lost'
    <3>1. \A m \in Doomed(ne) : node[m].status = "pending"
      BY <1>6, <2>1, <2>2
    <3>2. QED  BY <1>3, <1>6, <2>2, <3>1
  <2>5. n \in lost'
    <3>1. node'[n].status = "failed"
      BY <1>2, <1>6, <2>2
    <3>2. node'[n] # node[n] => n \in lost'
      BY <1>2, <1>3, <3>1
    <3>3. node'[n] = node[n] => n \in lost
      BY <1>1, <1>2, <3>1 DEF Caused
    <3>4. QED  BY <1>3, <3>2, <3>3
  <2>6. ASSUME NEW m \in Doomed(ne)
        PROVE  Deps[m] \cap lost' # {}
    <3>1. PICK d \in Deps[m] : d \in Nodes /\ (ne[d].status \in {"failed", "skipped"} \/ d \in Doomed(ne))
      BY <1>6, <2>6, DoomedHasCause
    <3>2. ne[d].status \in {"failed", "skipped"} => d \in lost'
      BY <1>1, <1>3, <2>1, <2>5, <3>1 DEF Caused
    <3>3. QED  BY <2>4, <3>1, <3>2
  <2>7. \A m \in Nodes : node'[m].status = "skipped" => node[m].status = "skipped" \/ Deps[m] \cap lost' # {}
    <3>1. ASSUME NEW m \in Nodes \ Doomed(ne), node'[m].status = "skipped"
          PROVE  node[m].status = "skipped"
      BY <1>6, <2>1, <3>1
    <3>2. QED  BY <2>6, <3>1
  <2>8. Caused'
    BY <1>1, <1>2, <1>3, <1>4, <2>7, CauseKept
  <2>9. QED  BY <2>3, <2>8
<1>7. QED  BY <1>1, <1>2, <1>5, <1>6, SweptIs

LEMMA SoundStep == Sound /\ [Next]_vars => Sound'
<1> SUFFICES ASSUME Sound, [Next]_vars PROVE Sound'
  OBVIOUS
<1>1. GraphTypeOK /\ Typed /\ disturbed \in Nat /\ Ordered /\ Caused
  BY TypesAre, GraphAssumption DEF Sound, GraphTypeOK, GraphAssumption
<1>2. GraphTypeOK'
  BY <1>1, GraphTypeStep
<1>3. ASSUME NEW p \in Procs, Process(p)
      PROVE  Ordered' /\ Caused'
  <2>1. CASE Advance(p)
    <3>1. node' = node /\ done' = done /\ lost' = lost
      BY <2>1 DEF Advance
    <3>2. QED  BY <1>1, <2>1, <3>1, AdvanceIs, SoundLaunches, SoundQuiet
  <2>2. CASE FactoryAsks(p) \/ CallerCloses(p) \/ (\E n \in Nodes : SweepReads(p, n)) \/ Boots(p)
    <3>1. node' = node /\ done' = done /\ lost' = lost /\ exec' = exec
      BY <2>2 DEF FactoryAsks, CallerCloses, SweepReads, Boots
    <3>2. QED  BY <1>1, <3>1, SoundQuiet
  <2>3. CASE SweepWrites(p)
    BY <2>3, SweepSound
  <2>4. CASE Crash(p)
    <3>1. node' = node /\ done' = done /\ lost' = lost
      BY <2>4 DEF Crash
    <3>2. \A n \in Nodes, c \in Copies : /\ Live(exec'[n][c]) => Live(exec[n][c])
                                         /\ exec'[n][c].doomed \in {exec[n][c].doomed, {}}
      BY <1>1, <2>4, CrashIs DEF Live
    <3>3. QED  BY <1>1, <3>1, <3>2, SoundQuiet
  <2>5. CASE Recovers(p)
    <3>1. done' = done /\ lost' = lost
      BY <2>5 DEF Recovers
    <3>2. exec' = exec /\ \A n \in Nodes : node'[n] = node[n] \/ node'[n].status = "pending"
      BY <1>1, <2>5, RecoversIs
    <3>3. Ordered'
      BY <1>1, <3>1, <3>2, OrderKept
    <3>4. Caused'
      BY <1>1, <3>1, <3>2, CauseKept
    <3>5. QED  BY <3>3, <3>4
  <2>6. QED  BY <1>3, <2>1, <2>2, <2>3, <2>4, <2>5 DEF Process
<1>4. ASSUME Restarts
      PROVE  Ordered' /\ Caused'
  <2>1. done' = done /\ lost' = lost
    BY <1>4 DEF Restarts
  <2>2. exec' = exec /\ \A n \in Nodes : node'[n] = node[n] \/ node'[n].status = "pending"
    BY <1>1, <1>4, RestartsIs
  <2>3. Ordered'
    BY <1>1, <2>1, <2>2, OrderKept
  <2>4. Caused'
    BY <1>1, <2>1, <2>2, CauseKept
  <2>5. QED  BY <2>3, <2>4
<1>5. ASSUME Decides \/ GetsBrand \/ FactoryPlans \/ FactorySettles \/ FactoryReopens \/ UNCHANGED vars
      PROVE  Ordered' /\ Caused'
  <2>1. node' = node /\ done' = done /\ lost' = lost /\ exec' = exec
    BY <1>5 DEF Decides, GetsBrand, FactoryPlans, FactorySettles, FactoryReopens, vars
  <2>2. QED  BY <1>1, <2>1, SoundQuiet
<1>6. Ordered' /\ Caused'
  BY <1>3, <1>4, <1>5, ExecutesSound DEF Next, Outside
<1>7. QED  BY <1>2, <1>6 DEF Sound

LEMMA SoundInit == Init => Sound
<1> SUFFICES ASSUME Init PROVE Sound
  OBVIOUS
<1>1. /\ \A n \in Nodes : node[n].status = "pending"
      /\ \A n \in Nodes, c \in Copies : exec[n][c] = Nobody
  BY DEF Init
<1>2. QED  BY <1>1, GraphTypeInit, NobodyIs DEF Sound, Ordered, Caused, Live

\* Dependencies complete first, however nodes are requeued, swept, restarted or
\* executed twice, in any graph.
THEOREM DependenciesFirst == Spec => []DependencyOrder
<1>1. Sound => DependencyOrder
  BY DEF Sound, Ordered, DependencyOrder
<1>2. QED  BY <1>1, SoundInit, SoundStep, PTL DEF Spec

\* A node is skipped only downstream of a node that was lost, in any graph, also one
\* with cycles, and however late the skip is written.
THEOREM SkipsHaveCause == Spec => []SkippedHasCause
<1>1. Sound => SkippedHasCause
  BY DEF Sound, Caused, SkippedHasCause
<1>2. QED  BY <1>1, SoundInit, SoundStep, PTL DEF Spec

-----------------------------------------------------------------------------
(* While nothing is disturbed: executions are in step with the rows.       *)

Closing == {"closeFailed", "closeAfter", "closeAdvance"}
DepsDone(nd, n) == \A d \in Deps[n] : nd[d].status = "completed"

\* A node that is going to be skipped with D.
DoomFits(nd, m, D) ==
  /\ nd[m].status \in {"pending", "skipped"}
  /\ \E d \in Deps[m] : d \in D \/ nd[d].status \in {"failed", "skipped"}

Alone(ex) == \A n \in Nodes : \A c, d \in Copies : Live(ex[n][c]) /\ Live(ex[n][d]) => c = d
InOrder(nd, ex) ==
  \A n \in Nodes : (nd[n].status = "running" \/ \E c \in Copies : Live(ex[n][c])) => DepsDone(nd, n)
InStep(nd, ex) ==
  \A n \in Nodes, c \in Copies :
    /\ ex[n][c].at = "launched" => nd[n].status = "pending"
    /\ ex[n][c].at \in {"marked", "working", "failing"} => nd[n].status = "running"
    /\ ex[n][c].at = "failing" => ex[n][c].seen <= MAX_NODE_RETRIES
    /\ ex[n][c].at \in Closing => AllTerminal(nd)
Dooming(nd, ex) ==
  \A n \in Nodes, c \in Copies :
    /\ ex[n][c].at # "skipping" => ex[n][c].doomed = {}
    /\ \A m \in ex[n][c].doomed : DoomFits(nd, m, ex[n][c].doomed)
Placed(nd, ex) == Alone(ex) /\ InOrder(nd, ex) /\ InStep(nd, ex) /\ Dooming(nd, ex)

Budgeted(nd) ==
  \A n \in Nodes : /\ nd[n].status \in {"pending", "running"} => nd[n].retry <= MAX_NODE_RETRIES
                   /\ nd[n].retry <= MAX_NODE_RETRIES + 1
Verdicts == AllTerminal(node) \/ (mission # "completed" /\ \A p \in Procs : caller[p] = "idle")
SweepsCalm == \A p \in Procs : sweep[p] # NoRow => ~sweep[p].alive /\ sweep[p].seen <= MAX_NODE_RETRIES

Calm == Placed(node, exec) /\ Budgeted(node) /\ Verdicts /\ SweepsCalm

\* A node at work is not terminal, is not going to be skipped, and nothing that runs or
\* may run depends on it.
LEMMA AtWorkIs ==
  ASSUME NEW nd \in Rows, NEW ex \in Runs, Placed(nd, ex), NEW n \in Nodes,
         nd[n].status = "running" \/ \E c \in Copies : Live(ex[n][c])
  PROVE  /\ nd[n].status \in {"pending", "running"} /\ DepsDone(nd, n) /\ ~AllTerminal(nd)
         /\ \A m \in Nodes : DepsDone(nd, m) => n \notin Deps[m]
         /\ \A m \in Nodes, c \in Copies : n \notin ex[m][c].doomed
<1>1. nd[n].status \in {"pending", "running"}
  BY DEF Placed, InStep, Live
<1>2. DepsDone(nd, n)
  BY DEF Placed, InOrder
<1>3. ~AllTerminal(nd)
  BY <1>1 DEF AllTerminal, Terminal
<1>4. \A m \in Nodes : DepsDone(nd, m) => n \notin Deps[m]
  BY <1>1 DEF DepsDone
<1>5. ASSUME NEW m \in Nodes, NEW c \in Copies, n \in ex[m][c].doomed
      PROVE  FALSE
  <2>1. PICK d \in Deps[n] : d \in ex[m][c].doomed \/ nd[d].status \in {"failed", "skipped"}
    BY <1>5 DEF Placed, Dooming, DoomFits
  <2>2. nd[d].status \in {"pending", "failed", "skipped"}
    BY <2>1 DEF Placed, Dooming, DoomFits
  <2>3. QED  BY <1>2, <2>1, <2>2 DEF DepsDone
<1>6. QED  BY <1>1, <1>2, <1>3, <1>4, <1>5

\* The row of a node at work changes; its execution may change too.
LEMMA PlacedWrite ==
  ASSUME NEW nd \in Rows, NEW ex \in Runs, NEW ne \in Rows, NEW ey \in Runs, Placed(nd, ex),
         NEW n \in Nodes, nd[n].status = "running" \/ \E c \in Copies : Live(ex[n][c]),
         \A m \in Nodes : m # n => ne[m] = nd[m] /\ ey[m] = ex[m],
         \A c \in Copies :
           \/ ey[n][c] = ex[n][c] /\ ~Live(ex[n][c])
           \/ /\ Live(ex[n][c]) /\ ey[n][c].at \notin Closing
              /\ ey[n][c].at # "skipping" => ey[n][c].doomed = {}
              /\ Live(ey[n][c]) => ey[n][c].at = "marked" /\ ne[n].status = "running"
              /\ \A m \in ey[n][c].doomed : DoomFits(ne, m, ey[n][c].doomed)
  PROVE  Placed(ne, ey)
<1>1. /\ nd[n].status \in {"pending", "running"} /\ DepsDone(nd, n) /\ ~AllTerminal(nd)
      /\ \A m \in Nodes : DepsDone(nd, m) => n \notin Deps[m]
      /\ \A m \in Nodes, c \in Copies : n \notin ex[m][c].doomed
  BY AtWorkIs
<1>2. \A m \in Nodes : Deps[m] \subseteq Nodes
  BY GraphAssumption DEF GraphAssumption
<1>3. \A m \in Nodes : DepsDone(nd, m) => DepsDone(ne, m)
  BY <1>1, <1>2 DEF DepsDone
<1>4. Alone(ey)
  <2>1. \A m \in Nodes, c \in Copies : Live(ey[m][c]) => Live(ex[m][c])
    OBVIOUS
  <2>2. QED  BY <2>1 DEF Placed, Alone
<1>5. InOrder(ne, ey)
  <2>1. ASSUME NEW m \in Nodes, ne[m].status = "running" \/ \E c \in Copies : Live(ey[m][c])
        PROVE  DepsDone(nd, m)
    <3>1. CASE m = n
      BY <1>1, <3>1
    <3>2. CASE m # n
      BY <2>1, <3>2 DEF Placed, InOrder
    <3>3. QED  BY <3>1, <3>2
  <2>2. QED  BY <1>3, <2>1 DEF InOrder
<1>6. InStep(ne, ey)
  <2>1. ASSUME NEW m \in Nodes, NEW c \in Copies
        PROVE  /\ ex[m][c].at \notin Closing
               /\ ex[m][c].at = "launched" => nd[m].status = "pending"
               /\ ex[m][c].at \in {"marked", "working", "failing"} => nd[m].status = "running"
               /\ ex[m][c].at = "failing" => ex[m][c].seen <= MAX_NODE_RETRIES
    BY <1>1 DEF Placed, InStep
  <2>2. ASSUME NEW m \in Nodes, NEW c \in Copies, m # n
        PROVE  /\ ey[m][c].at \notin Closing
               /\ ey[m][c].at = "launched" => ne[m].status = "pending"
               /\ ey[m][c].at \in {"marked", "working", "failing"} => ne[m].status = "running"
               /\ ey[m][c].at = "failing" => ey[m][c].seen <= MAX_NODE_RETRIES
    BY <2>1, <2>2
  <2>3. ASSUME NEW c \in Copies
        PROVE  /\ ey[n][c].at \notin Closing
               /\ ey[n][c].at = "launched" => ne[n].status = "pending"
               /\ ey[n][c].at \in {"marked", "working", "failing"} => ne[n].status = "running"
               /\ ey[n][c].at = "failing" => ey[n][c].seen <= MAX_NODE_RETRIES
    BY <2>1, <2>3 DEF Live
  <2>4. QED  BY <2>2, <2>3 DEF InStep
<1>7. Dooming(ne, ey)
  <2>1. ASSUME NEW m \in Nodes, NEW c \in Copies, NEW k \in ex[m][c].doomed
        PROVE  DoomFits(ne, k, ex[m][c].doomed)
    <3>1. k \in Nodes /\ k # n
      BY <1>1 DEF Runs, Execution
    <3>2. DoomFits(nd, k, ex[m][c].doomed)
      BY DEF Placed, Dooming
    <3>3. PICK d \in Deps[k] : d \in ex[m][c].doomed \/ nd[d].status \in {"failed", "skipped"}
      BY <3>2 DEF DoomFits
    <3>4. d \in ex[m][c].doomed \/ ne[d].status \in {"failed", "skipped"}
      BY <1>1, <1>2, <3>1, <3>3
    <3>5. QED  BY <3>1, <3>2, <3>4 DEF DoomFits
  <2>2. \A m \in Nodes, c \in Copies : ex[m][c].at # "skipping" => ex[m][c].doomed = {}
    BY DEF Placed, Dooming
  <2>3. ASSUME NEW m \in Nodes, NEW c \in Copies, ey[m][c] = ex[m][c]
        PROVE  /\ ey[m][c].at # "skipping" => ey[m][c].doomed = {}
               /\ \A k \in ey[m][c].doomed : DoomFits(ne, k, ey[m][c].doomed)
    BY <2>1, <2>2, <2>3
  <2>4. QED  BY <2>3 DEF Dooming
<1>8. QED  BY <1>4, <1>5, <1>6, <1>7 DEF Placed

\* ne is nd after the skip of D, each of which has a cause.
SkipFits(nd, ne, D) ==
  /\ D \subseteq Nodes /\ \A m \in D : DoomFits(nd, m, D)
  /\ \A m \in D : ne[m].status = "skipped"
  /\ \A m \in Nodes \ D : ne[m] = nd[m]

\* Nodes with a cause, none of them at work, are skipped; executions lose a doom or
\* reach a verdict.
LEMMA PlacedSkip ==
  ASSUME NEW nd \in Rows, NEW ex \in Runs, NEW ne \in Rows, NEW ey \in Runs, Placed(nd, ex),
         NEW D, SkipFits(nd, ne, D),
         \A m \in Nodes, c \in Copies :
           \/ ey[m][c] = ex[m][c]
           \/ /\ ey[m][c].doomed = {} /\ ~Live(ey[m][c])
              /\ ey[m][c].at \in Closing => AllTerminal(ne)
  PROVE  Placed(ne, ey)
<1>1. /\ \A m \in Nodes : Deps[m] \subseteq Nodes
      /\ D \subseteq Nodes /\ \A m \in D : DoomFits(nd, m, D)
      /\ \A m \in D : ne[m].status = "skipped"
      /\ \A m \in Nodes \ D : ne[m] = nd[m]
  BY GraphAssumption DEF GraphAssumption, SkipFits
<1>2. \A m \in Nodes : nd[m].status = "completed" <=> ne[m].status = "completed"
  BY <1>1 DEF DoomFits
<1>3. \A m \in Nodes : DepsDone(nd, m) <=> DepsDone(ne, m)
  BY <1>1, <1>2 DEF DepsDone
<1>4. ASSUME NEW m \in D
      PROVE  ~DepsDone(nd, m)
  <2>1. PICK d \in Deps[m] : d \in D \/ nd[d].status \in {"failed", "skipped"}
    BY <1>1 DEF DoomFits
  <2>2. d \in D => nd[d].status \in {"pending", "skipped"}
    BY <1>1 DEF DoomFits
  <2>3. QED  BY <2>1, <2>2 DEF DepsDone
<1>5. \A m \in Nodes, c \in Copies : Live(ey[m][c]) => Live(ex[m][c]) /\ ey[m][c] = ex[m][c]
  OBVIOUS
<1>6. \A m \in Nodes, c \in Copies : Live(ex[m][c]) => m \notin D
  BY <1>4 DEF Placed, InOrder
<1>7. Alone(ey)
  BY <1>5 DEF Placed, Alone
<1>8. InOrder(ne, ey)
  <2>1. \A m \in Nodes : ne[m].status = "running" => nd[m].status = "running"
    BY <1>1
  <2>2. QED  BY <1>3, <1>5, <2>1 DEF Placed, InOrder
<1>9. InStep(ne, ey)
  <2>1. AllTerminal(nd) => AllTerminal(ne)
    BY <1>1 DEF AllTerminal, Terminal
  <2>2. ASSUME NEW m \in Nodes, NEW c \in Copies, ey[m][c] = ex[m][c]
        PROVE  /\ ey[m][c].at = "launched" => ne[m].status = "pending"
               /\ ey[m][c].at \in {"marked", "working", "failing"} => ne[m].status = "running"
               /\ ey[m][c].at = "failing" => ey[m][c].seen <= MAX_NODE_RETRIES
               /\ ey[m][c].at \in Closing => AllTerminal(ne)
    <3>1. Live(ey[m][c]) => ne[m] = nd[m]
      BY <1>1, <1>6, <2>2
    <3>2. QED  BY <2>1, <2>2, <3>1 DEF Placed, InStep, Live
  <2>3. QED  BY <2>2 DEF InStep, Live
<1>10. Dooming(ne, ey)
  <2>1. ASSUME NEW m \in Nodes, NEW c \in Copies, NEW k \in ex[m][c].doomed
        PROVE  DoomFits(ne, k, ex[m][c].doomed)
    <3>1. k \in Nodes /\ DoomFits(nd, k, ex[m][c].doomed)
      BY DEF Placed, Dooming, Runs, Execution
    <3>2. PICK d \in Deps[k] : d \in ex[m][c].doomed \/ nd[d].status \in {"failed", "skipped"}
      BY <3>1 DEF DoomFits
    <3>3. d \in ex[m][c].doomed \/ ne[d].status \in {"failed", "skipped"}
      BY <1>1, <3>1, <3>2
    <3>4. QED  BY <1>1, <3>1, <3>3 DEF DoomFits
  <2>2. \A m \in Nodes, c \in Copies : ex[m][c].at # "skipping" => ex[m][c].doomed = {}
    BY DEF Placed, Dooming
  <2>3. QED  BY <2>1, <2>2 DEF Dooming
<1>11. QED  BY <1>7, <1>8, <1>9, <1>10 DEF Placed

\* Rows stay; an execution moves on from its row, or reads its retry count, or goes.
LEMMA PlacedMoves ==
  ASSUME NEW nd \in Rows, NEW ex \in Runs, NEW ey \in Runs, Placed(nd, ex),
         \A m \in Nodes, c \in Copies :
           \/ ey[m][c] = ex[m][c]
           \/ /\ ey[m][c].doomed = {}
              /\ ey[m][c].at \in Closing => AllTerminal(nd)
              /\ Live(ey[m][c]) => \/ ex[m][c].at = "marked" /\ ey[m][c].at = "working"
                                   \/ /\ ex[m][c].at = "working" /\ ey[m][c].at = "failing"
                                      /\ ey[m][c].seen <= MAX_NODE_RETRIES
  PROVE  Placed(nd, ey)
<1>1. \A m \in Nodes, c \in Copies : Live(ey[m][c]) => Live(ex[m][c])
  BY DEF Live
<1>2. Alone(ey)
  BY <1>1 DEF Placed, Alone
<1>3. InOrder(nd, ey)
  BY <1>1 DEF Placed, InOrder
<1>4. InStep(nd, ey)
  BY DEF Placed, InStep, Live
<1>5. Dooming(nd, ey)
  <2>1. \A m \in Nodes, c \in Copies : ey[m][c].doomed \in {ex[m][c].doomed, {}}
    OBVIOUS
  <2>2. QED  BY <2>1 DEF Placed, Dooming
<1>6. QED  BY <1>2, <1>3, <1>4, <1>5 DEF Placed

\* Ready nodes are launched, none of which has an execution about to mark its row.
LEMMA PlacedLaunches ==
  ASSUME Typed, Typed', Placed(node, exec), NEW R, Launches(R), disturbed' = disturbed
  PROVE  Placed(node, exec')
<1>1. \A m \in R : m \in Nodes /\ node[m].status = "pending" /\ DepsDone(node, m)
  BY DEF Launches, Ready, DepsDone
<1>2. ASSUME NEW m \in R, NEW d \in Copies
      PROVE  ~Live(exec[m][d])
  BY <1>1 DEF Launches, Placed, InStep, Live
<1>3. ASSUME NEW m \in Nodes, NEW d \in Copies, exec'[m][d] # exec[m][d]
      PROVE  /\ exec'[m][d].at \in {"none", "launched"} /\ exec'[m][d].doomed = {}
             /\ exec'[m][d].at = "launched" => m \in R
  BY <1>3 DEF Launches
<1>4. Alone(exec')
  <2>1. ASSUME NEW m \in Nodes, NEW d \in Copies, NEW e \in Copies,
               Live(exec'[m][d]), Live(exec'[m][e])
        PROVE  d = e
    <3>1. CASE m \in R
      <4>1. exec'[m][d].at = "launched" /\ exec'[m][e].at = "launched"
        BY <1>2, <1>3, <2>1, <3>1 DEF Live
      <4>2. exec[m][d].at # "launched" /\ exec[m][e].at # "launched"
        BY <1>2, <3>1 DEF Live
      <4>3. QED  BY <4>1, <4>2 DEF Launches
    <3>2. CASE m \notin R
      <4>1. exec'[m][d] = exec[m][d] /\ exec'[m][e] = exec[m][e]
        BY <1>3, <2>1, <3>2 DEF Live
      <4>2. QED  BY <2>1, <4>1 DEF Placed, Alone
    <3>3. QED  BY <3>1, <3>2
  <2>2. QED  BY <2>1 DEF Alone
<1>5. InOrder(node, exec')
  <2>1. ASSUME NEW m \in Nodes, NEW d \in Copies, Live(exec'[m][d])
        PROVE  DepsDone(node, m)
    <3>1. CASE exec'[m][d] = exec[m][d]
      BY <2>1, <3>1 DEF Placed, InOrder
    <3>2. CASE exec'[m][d] # exec[m][d]
      BY <1>1, <1>3, <2>1, <3>2 DEF Live
    <3>3. QED  BY <3>1, <3>2
  <2>2. QED  BY <2>1 DEF Placed, InOrder
<1>6. InStep(node, exec')
  <2>1. ASSUME NEW m \in Nodes, NEW d \in Copies
        PROVE  /\ exec'[m][d].at = "launched" => node[m].status = "pending"
               /\ exec'[m][d].at \in {"marked", "working", "failing"} => node[m].status = "running"
               /\ exec'[m][d].at = "failing" => exec'[m][d].seen <= MAX_NODE_RETRIES
               /\ exec'[m][d].at \in Closing => AllTerminal(node)
    <3>1. CASE exec'[m][d] = exec[m][d]
      BY <3>1 DEF Placed, InStep
    <3>2. CASE exec'[m][d] # exec[m][d]
      BY <1>1, <1>3, <3>2 DEF Closing
    <3>3. QED  BY <3>1, <3>2
  <2>2. QED  BY <2>1 DEF InStep
<1>7. Dooming(node, exec')
  <2>1. \A m \in Nodes, d \in Copies : exec'[m][d] = exec[m][d] \/ exec'[m][d].doomed = {}
    BY <1>3
  <2>2. QED  BY <2>1 DEF Placed, Dooming
<1>8. QED  BY <1>4, <1>5, <1>6, <1>7 DEF Placed

LEMMA Undisturbed ==
  ASSUME disturbed \in Nat, disturbed' = disturbed, NEW E, Disturbs(E)
  PROVE  ~E
BY DEF Disturbs

LEMMA DisturbedGrows ==
  ASSUME GraphTypeOK, [Next]_vars
  PROVE  disturbed \in Nat /\ disturbed' \in Nat /\ disturbed <= disturbed'
<1>1. disturbed \in Nat /\ disturbed' \in Nat
  BY GraphTypeStep, GraphAssumption DEF GraphTypeOK, GraphAssumption
<1>2. \A E : Disturbs(E) => disturbed' \in {disturbed, disturbed + 1}
  BY DEF Disturbs
<1>3. ASSUME NEW n \in Nodes, NEW c \in Copies, Executes(n, c)
      PROVE  disturbed' \in {disturbed, disturbed + 1}
  BY <1>2, <1>3 DEF Executes, MarksRunning, MarksInFlight, FailsEarly, Succeeds, Fails, FailsAgain, FailsForGood,
     SkipsBlocked, GoesOn, Closes, AdvancesLast
<1>4. ASSUME NEW p \in Procs, Process(p)
      PROVE  disturbed' \in {disturbed, disturbed + 1}
  BY <1>2, <1>4 DEF Process, Advance, FactoryAsks, CallerCloses, SweepReads, SweepWrites, Crash,
     Boots, Recovers
<1>5. ASSUME Outside \/ UNCHANGED vars
      PROVE  disturbed' \in {disturbed, disturbed + 1}
  BY <1>2, <1>5 DEF Outside, Decides, Restarts, GetsBrand, FactoryPlans, FactorySettles,
     FactoryReopens, vars
<1>6. disturbed' \in {disturbed, disturbed + 1}
  BY <1>3, <1>4, <1>5 DEF Next
<1>7. QED  BY <1>1, <1>6

-----------------------------------------------------------------------------
(* The steps of an execution keep Calm.                                    *)

LEMMA ExecutesPlaced ==
  ASSUME GraphTypeOK, Typed', Calm, disturbed' = disturbed, NEW n \in Nodes, NEW c \in Copies,
         Executes(n, c)
  PROVE  Placed(node', exec')
<1>1. /\ Typed /\ node \in Rows /\ exec \in Runs /\ node' \in Rows /\ exec' \in Runs
      /\ disturbed \in Nat /\ Placed(node, exec) /\ Budgeted(node)
  BY TypesAre, GraphAssumption DEF Typed, GraphTypeOK, GraphAssumption, Calm
<1>2. ASSUME RowChanges(n), RunChanges(n, c), Live(exec[n][c]), exec'[n][c].at \notin Closing,
             exec'[n][c].at # "skipping" => exec'[n][c].doomed = {},
             Live(exec'[n][c]) => exec'[n][c].at = "marked" /\ node'[n].status = "running",
             \A m \in exec'[n][c].doomed : DoomFits(node', m, exec'[n][c].doomed)
      PROVE  Placed(node', exec')
  <2>1. \A m \in Nodes, d \in Copies : m # n \/ d # c => exec'[m][d] = exec[m][d]
    BY <1>2 DEF RunChanges, RunBecomes
  <2>2. \A m \in Nodes : m # n => node'[m] = node[m] /\ exec'[m] = exec[m]
    <3>1. \A m \in Nodes : exec'[m] \in [Copies -> Execution] /\ exec[m] \in [Copies -> Execution]
      BY <1>1 DEF Runs
    <3>2. ASSUME NEW m \in Nodes, m # n
          PROVE  exec'[m] = exec[m]
      BY <2>1, <3>1, <3>2
    <3>3. QED  BY <1>2, <3>2 DEF RowChanges, RowBecomes
  <2>3. ASSUME NEW d \in Copies, d # c
        PROVE  exec'[n][d] = exec[n][d] /\ ~Live(exec[n][d])
    BY <1>1, <1>2, <2>1, <2>3 DEF Placed, Alone
  <2>4. \E d \in Copies : Live(exec[n][d])
    BY <1>2
  <2>5. QED  BY <1>1, <1>2, <2>2, <2>3, <2>4, PlacedWrite
<1>3. CASE MarksRunning(n, c)
  <2>1. Live(exec[n][c])
    BY <1>3 DEF MarksRunning, At, Live
  <2>2. QED  BY <1>1, <1>2, <1>3, <2>1, MarksRunningIs DEF Closing
<1>4. CASE FailsEarly(n, c)
  <2>1. Live(exec[n][c])
    BY <1>4 DEF FailsEarly, At, Live
  <2>2. QED  BY <1>1, <1>2, <1>4, <2>1, FailsEarlyIs DEF Closing, Live
<1>5. CASE Succeeds(n, c)
  <2>1. Live(exec[n][c])
    BY <1>5 DEF Succeeds, At, Live
  <2>2. QED  BY <1>1, <1>2, <1>5, <2>1, SucceedsIs DEF Closing, Live
<1>6. CASE FailsAgain(n, c)
  <2>1. Live(exec[n][c])
    BY <1>6 DEF FailsAgain, At, Live
  <2>2. QED  BY <1>1, <1>2, <1>6, <2>1, FailsAgainIs DEF Closing, Live
<1>7. CASE FailsForGood(n, c)
  <2>1. Live(exec[n][c])
    BY <1>7 DEF FailsForGood, At, Live
  <2>2. exec'[n][c].at = "skipping" /\ exec'[n][c].doomed = Doomed(node') /\ RowChanges(n) /\ RunChanges(n, c)
    BY <1>1, <1>7, FailsForGoodIs
  <2>3. ASSUME NEW m \in Doomed(node')
        PROVE  DoomFits(node', m, Doomed(node'))
    <3>1. node'[m].status = "pending"
      BY DEF Doomed
    <3>2. QED  BY <1>1, <3>1, DoomedHasCause DEF DoomFits
  <2>4. QED  BY <1>2, <2>1, <2>2, <2>3 DEF Closing, Live
<1>8. CASE Fails(n, c)
  <2>1. /\ node' = node /\ RunChanges(n, c) /\ exec'[n][c].at = "failing"
        /\ exec'[n][c].doomed = {} /\ exec'[n][c].seen = node[n].retry /\ exec[n][c].at = "working"
    BY <1>1, <1>8, FailsIs DEF Fails, At
  <2>2. node[n].retry <= MAX_NODE_RETRIES
    BY <1>1, <2>1 DEF Placed, InStep, Budgeted
  <2>3. \A m \in Nodes, d \in Copies : m # n \/ d # c => exec'[m][d] = exec[m][d]
    BY <2>1 DEF RunChanges, RunBecomes
  <2>4. ASSUME NEW m \in Nodes, NEW d \in Copies
        PROVE  \/ exec'[m][d] = exec[m][d]
               \/ /\ exec'[m][d].doomed = {}
                  /\ exec'[m][d].at \in Closing => AllTerminal(node)
                  /\ Live(exec'[m][d]) => \/ exec[m][d].at = "marked" /\ exec'[m][d].at = "working"
                                          \/ /\ exec[m][d].at = "working" /\ exec'[m][d].at = "failing"
                                             /\ exec'[m][d].seen <= MAX_NODE_RETRIES
    BY <2>1, <2>2, <2>3 DEF Closing
  <2>5. QED  BY <1>1, <2>1, <2>4, PlacedMoves
<1>9. CASE SkipsBlocked(n, c)
  <2> DEFINE D == exec[n][c].doomed
  <2>1. D \in SUBSET Nodes /\ \A m \in D : DoomFits(node, m, D)
    BY <1>1 DEF Runs, Execution, Placed, Dooming
  <2>2. /\ \A m \in D : node'[m].status = "skipped"
        /\ \A m \in Nodes \ D : node'[m] = node[m]
        /\ RunChanges(n, c) /\ exec'[n][c].doomed = {} /\ ~Live(exec'[n][c])
        /\ exec'[n][c].at \in Closing => AllTerminal(node')
    BY <1>1, <1>9, SkipsBlockedIs DEF Live, Closing
  <2>3. \A m \in Nodes, d \in Copies : m # n \/ d # c => exec'[m][d] = exec[m][d]
    BY <2>2 DEF RunChanges, RunBecomes
  <2>4. \A m \in Nodes, d \in Copies :
           \/ exec'[m][d] = exec[m][d]
           \/ /\ exec'[m][d].doomed = {} /\ ~Live(exec'[m][d])
              /\ exec'[m][d].at \in Closing => AllTerminal(node')
    BY <2>2, <2>3
  <2> HIDE DEF D
  <2>5. SkipFits(node, node', D)
    BY <2>1, <2>2 DEF SkipFits
  <2>6. QED  BY <1>1, <2>4, <2>5, PlacedSkip
<1>10. ASSUME node' = node, RunChanges(n, c), ~Live(exec'[n][c]), exec'[n][c].doomed = {},
              exec'[n][c].at \in Closing => AllTerminal(node)
       PROVE  Placed(node', exec')
  <2>1. \A m \in Nodes, d \in Copies : m # n \/ d # c => exec'[m][d] = exec[m][d]
    BY <1>10 DEF RunChanges, RunBecomes
  <2>2. ASSUME NEW m \in Nodes, NEW d \in Copies
        PROVE  \/ exec'[m][d] = exec[m][d]
               \/ /\ exec'[m][d].doomed = {}
                  /\ exec'[m][d].at \in Closing => AllTerminal(node)
                  /\ Live(exec'[m][d]) => \/ exec[m][d].at = "marked" /\ exec'[m][d].at = "working"
                                          \/ /\ exec[m][d].at = "working" /\ exec'[m][d].at = "failing"
                                             /\ exec'[m][d].seen <= MAX_NODE_RETRIES
    BY <1>10, <2>1
  <2>3. QED  BY <1>1, <1>10, <2>2, PlacedMoves
<1>11. CASE Closes(n, c)
  BY <1>1, <1>10, <1>11, ClosesIs DEF Live, Closing
<1>12. CASE GoesOn(n, c) \/ AdvancesLast(n, c)
  <2>1. node' = node
    BY <1>12 DEF GoesOn, AdvancesLast
  <2>2. CASE \E R : Launches(R)
    BY <1>1, <2>1, <2>2, PlacedLaunches
  <2>3. CASE Verdict(n, c) /\ exec'[n][c].at \in {"closeAfter", "closeAdvance"}
    BY <1>10, <2>1, <2>3 DEF Verdict, Live
  <2>4. QED  BY <1>1, <1>12, <2>2, <2>3, GoesOnIs, AdvancesLastIs
<1>13. CASE MarksInFlight(n, c)
  <2>1. /\ node' = node /\ RunChanges(n, c) /\ exec'[n][c].at = "working"
        /\ exec'[n][c].doomed = {} /\ exec[n][c].at = "marked"
    BY <1>1, <1>13, MarksInFlightIs DEF MarksInFlight, At
  <2>2. \A m \in Nodes, d \in Copies : m # n \/ d # c => exec'[m][d] = exec[m][d]
    BY <2>1 DEF RunChanges, RunBecomes
  <2>3. ASSUME NEW m \in Nodes, NEW d \in Copies
        PROVE  \/ exec'[m][d] = exec[m][d]
               \/ /\ exec'[m][d].doomed = {}
                  /\ exec'[m][d].at \in Closing => AllTerminal(node)
                  /\ Live(exec'[m][d]) => exec[m][d].at = "marked" /\ exec'[m][d].at = "working"
    BY <2>1, <2>2 DEF Closing
  <2>4. QED  BY <1>1, <2>1, <2>3, PlacedMoves
<1>14. QED
  BY <1>3, <1>4, <1>5, <1>6, <1>7, <1>8, <1>9, <1>11, <1>12, <1>13 DEF Executes

-----------------------------------------------------------------------------
(* The steps of a process and of the operator keep Calm.                   *)

\* A sweep that disturbs nothing finds the row running and nobody at work on it.
LEMMA SweepIs ==
  ASSUME GraphTypeOK, Calm, disturbed' = disturbed, NEW p \in Procs, SweepWrites(p)
  PROVE  /\ sweep[p] \in StaleRow /\ sweep[p].node \in Nodes /\ sweep[p].seen <= MAX_NODE_RETRIES
         /\ node[sweep[p].node].status = "running"
         /\ \A c \in Copies : ~Live(exec[sweep[p].node][c])
         /\ node' = Swept(sweep[p]) /\ exec' = exec
<1> DEFINE n == sweep[p].node
<1>1. sweep[p] # NoRow /\ Disturbs(~sweep[p].alive /\ (node[n].status # "running" \/ Attended(n)))
  BY DEF SweepWrites
<1>2. ~sweep[p].alive /\ sweep[p].seen <= MAX_NODE_RETRIES
  BY <1>1 DEF Calm, SweepsCalm
<1>3. disturbed \in Nat
  BY GraphAssumption DEF GraphTypeOK, GraphAssumption
<1>4. ~(~sweep[p].alive /\ (node[n].status # "running" \/ Attended(n)))
  BY <1>1, <1>3, Undisturbed
<1>5. QED  BY <1>2, <1>4, SweepWritesIs DEF Attended, StaleRow

LEMMA SweepPlaced ==
  ASSUME GraphTypeOK, Typed', Calm, disturbed' = disturbed, NEW p \in Procs, SweepWrites(p)
  PROVE  Placed(node', exec')
<1> DEFINE n == sweep[p].node
<1>1. /\ Typed /\ node \in Rows /\ exec \in Runs /\ node' \in Rows /\ Placed(node, exec)
  BY TypesAre DEF Typed, Calm
<1>2. /\ sweep[p] \in StaleRow /\ n \in Nodes /\ node[n].status = "running"
      /\ \A c \in Copies : ~Live(exec[n][c])
      /\ node' = Swept(sweep[p]) /\ exec' = exec
  BY SweepIs
<1>3. ASSUME NEW ne \in Rows, RowBecomes(ne, n, ne[n])
      PROVE  Placed(ne, exec)
  <2>1. \A m \in Nodes : m # n => ne[m] = node[m]
    BY <1>3 DEF RowBecomes
  <2>2. QED  BY <1>1, <1>2, <2>1, PlacedWrite
<1>4. ASSUME NEW ne \in Rows, RowBecomes(ne, n, ne[n]),
             \A m \in Doomed(ne) : node'[m].status = "skipped",
             \A m \in Nodes \ Doomed(ne) : node'[m] = ne[m]
      PROVE  Placed(node', exec)
  <2>1. \A m \in Doomed(ne) : DoomFits(ne, m, Doomed(ne))
    <3>1. ASSUME NEW m \in Doomed(ne)
          PROVE  DoomFits(ne, m, Doomed(ne))
      <4>1. ne[m].status = "pending"
        BY DEF Doomed
      <4>2. QED  BY <4>1, DoomedHasCause DEF DoomFits
    <3>2. QED  BY <3>1
  <2>2. SkipFits(ne, node', Doomed(ne))
    BY <1>4, <2>1 DEF SkipFits, Doomed
  <2>3. Placed(ne, exec)
    BY <1>3, <1>4
  <2>4. QED  BY <1>1, <2>2, <2>3, PlacedSkip
<1>5. QED  BY <1>1, <1>2, <1>3, <1>4, SweptIs

LEMMA ProcessPlaced ==
  ASSUME GraphTypeOK, Typed', Calm, disturbed' = disturbed, NEW p \in Procs, Process(p)
  PROVE  Placed(node', exec')
<1>1. /\ Typed /\ node \in Rows /\ exec \in Runs /\ node' \in Rows /\ exec' \in Runs
      /\ disturbed \in Nat /\ Placed(node, exec)
  BY TypesAre, GraphAssumption DEF Typed, GraphTypeOK, GraphAssumption, Calm
<1>2. CASE Advance(p)
  <2>1. node' = node
    BY <1>2 DEF Advance
  <2>2. QED  BY <1>1, <1>2, <2>1, AdvanceIs, PlacedLaunches
<1>3. CASE FactoryAsks(p) \/ CallerCloses(p) \/ (\E n \in Nodes : SweepReads(p, n)) \/ Boots(p)
  <2>1. node' = node /\ exec' = exec
    BY <1>3 DEF FactoryAsks, CallerCloses, SweepReads, Boots
  <2>2. QED  BY <1>1, <2>1
<1>4. CASE SweepWrites(p)
  BY <1>4, SweepPlaced
<1>5. CASE Crash(p)
  <2>1. node' = node
    BY <1>5 DEF Crash
  <2>2. \A m \in Nodes, c \in Copies :
           \/ exec'[m][c] = exec[m][c]
           \/ exec'[m][c].doomed = {} /\ exec'[m][c].at = "none"
    BY <1>1, <1>5, CrashIs
  <2>3. ASSUME NEW m \in Nodes, NEW c \in Copies
        PROVE  \/ exec'[m][c] = exec[m][c]
               \/ /\ exec'[m][c].doomed = {}
                  /\ exec'[m][c].at \in Closing => AllTerminal(node)
                  /\ Live(exec'[m][c]) => \/ exec[m][c].at = "marked" /\ exec'[m][c].at = "working"
                                          \/ /\ exec[m][c].at = "working" /\ exec'[m][c].at = "failing"
                                             /\ exec'[m][c].seen <= MAX_NODE_RETRIES
    BY <2>2 DEF Live, Closing
  <2>4. QED  BY <1>1, <2>1, <2>3, PlacedMoves
<1>6. CASE Recovers(p)
  <2>1. /\ exec' = exec
        /\ \A n \in Nodes : \/ node'[n] = node[n] /\ node[n].status # "running"
                            \/ /\ node[n].status = "running" /\ node'[n].status = "pending"
                               /\ node'[n].retry = node[n].retry
    BY <1>1, <1>6, RecoversIs
  <2>2. \A n \in Nodes : node[n].status = "running" => ~Attended(n)
    <3>1. Disturbs(\E n \in Nodes : /\ node[n].status = "running"
                                    /\ \/ Attended(n)
                                       \/ \E q \in Procs : sweep[q] # NoRow)
      BY <1>6 DEF Recovers
    <3>2. QED  BY <1>1, <3>1, Undisturbed
  <2>3. \A n \in Nodes : Deps[n] \subseteq Nodes
    BY GraphAssumption DEF GraphAssumption
  <2>4. \A n \in Nodes : DepsDone(node, n) => DepsDone(node', n)
    BY <2>1, <2>3 DEF DepsDone
  <2>5. \A n \in Nodes, c \in Copies : exec[n][c].at \notin {"marked", "working", "failing"}
    BY <1>1, <2>2 DEF Placed, InStep, Attended, Live
  <2>6. Alone(exec')
    BY <1>1, <2>1 DEF Placed
  <2>7. InOrder(node', exec')
    <3>1. \A n \in Nodes : node'[n].status # "running"
      BY <2>1
    <3>2. QED  BY <1>1, <2>1, <2>4, <3>1 DEF Placed, InOrder
  <2>8. InStep(node', exec')
    <3>1. AllTerminal(node) => AllTerminal(node')
      BY <2>1 DEF AllTerminal, Terminal
    <3>2. \A n \in Nodes, c \in Copies : exec[n][c].at = "launched" => node'[n].status = "pending"
      BY <1>1, <2>1 DEF Placed, InStep
    <3>3. QED  BY <1>1, <2>1, <2>5, <3>1, <3>2 DEF Placed, InStep
  <2>9. Dooming(node', exec')
    <3>1. ASSUME NEW m \in Nodes, NEW c \in Copies, NEW k \in exec[m][c].doomed
          PROVE  DoomFits(node', k, exec[m][c].doomed)
      <4>1. k \in Nodes /\ DoomFits(node, k, exec[m][c].doomed)
        BY <1>1 DEF Placed, Dooming, Runs, Execution
      <4>2. PICK d \in Deps[k] : d \in exec[m][c].doomed \/ node[d].status \in {"failed", "skipped"}
        BY <4>1 DEF DoomFits
      <4>3. d \in exec[m][c].doomed \/ node'[d].status \in {"failed", "skipped"}
        BY <2>1, <2>3, <4>1, <4>2
      <4>4. node'[k].status \in {"pending", "skipped"}
        BY <2>1, <4>1 DEF DoomFits
      <4>5. QED  BY <4>3, <4>4 DEF DoomFits
    <3>2. QED  BY <1>1, <2>1, <3>1 DEF Placed, Dooming
  <2>10. QED  BY <2>6, <2>7, <2>8, <2>9 DEF Placed
<1>7. QED  BY <1>2, <1>3, <1>4, <1>5, <1>6 DEF Process

\* A restart that disturbs nothing finds nothing under way.
LEMMA RestartIsQuiet ==
  ASSUME GraphTypeOK, disturbed' = disturbed, Restarts
  PROVE  /\ \A p \in Procs : caller[p] = "idle" /\ sweep[p] = NoRow
         /\ \A n \in Nodes, c \in Copies : exec[n][c].at = "none"
<1>1. Disturbs(MidStep) /\ disturbed \in Nat
  BY GraphAssumption DEF Restarts, GraphTypeOK, GraphAssumption
<1>2. ~MidStep
  BY <1>1, Undisturbed
<1>3. QED  BY <1>2 DEF MidStep

LEMMA OutsidePlaced ==
  ASSUME GraphTypeOK, Calm, disturbed' = disturbed, Outside \/ UNCHANGED vars
  PROVE  Placed(node', exec')
<1>1. Typed /\ Placed(node, exec)
  BY TypesAre DEF Calm
<1>2. CASE Restarts
  <2>1. \A n \in Nodes, c \in Copies : exec'[n][c].at = "none" /\ exec'[n][c].doomed = {}
    BY <1>1, <1>2, RestartIsQuiet, RestartsIs DEF Placed, Dooming
  <2>2. \A n \in Nodes : node'[n].status # "running"
    BY <1>1, <1>2, RestartsIs DEF Reset
  <2>3. QED  BY <2>1, <2>2 DEF Placed, Alone, InOrder, InStep, Dooming, Live, Closing
<1>3. CASE Decides \/ GetsBrand \/ FactoryPlans \/ FactorySettles \/ FactoryReopens \/ UNCHANGED vars
  <2>1. node' = node /\ exec' = exec
    BY <1>3 DEF Decides, GetsBrand, FactoryPlans, FactorySettles, FactoryReopens, vars
  <2>2. QED  BY <1>1, <2>1
<1>4. QED  BY <1>2, <1>3 DEF Outside

\* Retries are counted from what was read of a running row, and stay within the budget.
LEMMA BudgetStep ==
  ASSUME GraphTypeOK, Calm, disturbed' = disturbed, [Next]_vars
  PROVE  Budgeted(node')
<1>1. /\ Typed /\ Budgeted(node) /\ Placed(node, exec) /\ disturbed \in Nat
      /\ MAX_NODE_RETRIES \in Nat \ {0}
      /\ \A n \in Nodes : node[n].retry \in Nat /\ node[n].status \in NodeStatus
      /\ \A n \in Nodes, c \in Copies : exec[n][c].seen \in Nat
  BY TypesAre, GraphAssumption DEF GraphTypeOK, GraphAssumption, Calm, Typed, Rows, Row, Runs, Execution
<1>2. ASSUME NEW n \in Nodes, RowChanges(n),
             node'[n].status \in {"pending", "running"} => node'[n].retry <= MAX_NODE_RETRIES,
             node'[n].retry <= MAX_NODE_RETRIES + 1
      PROVE  Budgeted(node')
  BY <1>1, <1>2 DEF Budgeted, RowChanges, RowBecomes
<1>3. ASSUME NEW n \in Nodes, NEW c \in Copies, Executes(n, c)
      PROVE  Budgeted(node')
  <2>1. CASE MarksRunning(n, c)
    <3>1. node[n].status = "pending"
      BY <1>1, <2>1 DEF MarksRunning, At, Placed, InStep
    <3>2. node[n].retry <= MAX_NODE_RETRIES /\ node[n].retry <= MAX_NODE_RETRIES + 1
      BY <1>1, <3>1 DEF Budgeted
    <3>3. QED  BY <1>1, <1>2, <2>1, <3>2, MarksRunningIs
  <2>2. CASE FailsEarly(n, c)
    <3>1. 1 <= MAX_NODE_RETRIES /\ 1 <= MAX_NODE_RETRIES + 1
      BY <1>1
    <3>2. QED  BY <1>1, <1>2, <2>2, <3>1, FailsEarlyIs
  <2>3. CASE Succeeds(n, c)
    <3>1. node[n].retry <= MAX_NODE_RETRIES + 1
      BY <1>1 DEF Budgeted
    <3>2. QED  BY <1>1, <1>2, <2>3, <3>1, SucceedsIs
  <2>4. CASE FailsAgain(n, c)
    <3>1. exec[n][c].seen + 1 <= MAX_NODE_RETRIES /\ exec[n][c].seen + 1 <= MAX_NODE_RETRIES + 1
      BY <1>1, <2>4 DEF FailsAgain
    <3>2. QED  BY <1>1, <1>2, <2>4, <3>1, FailsAgainIs
  <2>5. CASE FailsForGood(n, c)
    <3>1. exec[n][c].seen <= MAX_NODE_RETRIES
      BY <1>1, <2>5 DEF FailsForGood, At, Placed, InStep
    <3>2. exec[n][c].seen + 1 <= MAX_NODE_RETRIES + 1
      BY <1>1, <3>1
    <3>3. QED  BY <1>1, <1>2, <2>5, <3>2, FailsForGoodIs
  <2>6. CASE SkipsBlocked(n, c)
    <3>1. \A m \in Nodes : \/ node'[m] = node[m]
                           \/ node'[m].status = "skipped" /\ node'[m].retry = node[m].retry
      BY <1>1, <2>6, SkipsBlockedIs
    <3>2. QED  BY <1>1, <3>1 DEF Budgeted
  <2>7. CASE MarksInFlight(n, c) \/ Fails(n, c) \/ GoesOn(n, c) \/ Closes(n, c) \/ AdvancesLast(n, c)
    <3>1. node' = node
      BY <2>7 DEF MarksInFlight, Fails, GoesOn, Closes, AdvancesLast
    <3>2. QED  BY <1>1, <3>1
  <2>8. QED  BY <1>3, <2>1, <2>2, <2>3, <2>4, <2>5, <2>6, <2>7 DEF Executes
<1>4. ASSUME NEW p \in Procs, SweepWrites(p)
      PROVE  Budgeted(node')
  <2> DEFINE n == sweep[p].node
  <2>1. /\ sweep[p] \in StaleRow /\ n \in Nodes /\ sweep[p].seen <= MAX_NODE_RETRIES
        /\ sweep[p].seen \in Nat /\ node[n].status = "running" /\ node' = Swept(sweep[p])
    BY <1>4, SweepIs DEF StaleRow
  <2>2. node[n].retry <= MAX_NODE_RETRIES + 1 /\ sweep[p].seen + 1 <= MAX_NODE_RETRIES + 1
    BY <1>1, <2>1 DEF Budgeted
  <2>3. sweep[p].seen < MAX_NODE_RETRIES => sweep[p].seen + 1 <= MAX_NODE_RETRIES
    BY <1>1, <2>1
  <2>4. ASSUME RowBecomes(node', n, node'[n]),
               \/ node'[n].status = "failed" /\ node'[n].retry = node[n].retry
               \/ /\ sweep[p].seen < MAX_NODE_RETRIES
                  /\ node'[n].status = "pending" /\ node'[n].retry = sweep[p].seen + 1
        PROVE  Budgeted(node')
    BY <1>2, <2>1, <2>2, <2>3, <2>4 DEF RowChanges
  <2>5. ASSUME NEW ne \in Rows,
               RowBecomes(ne, n, ne[n]), ne[n].status = "failed", ne[n].retry = sweep[p].seen + 1,
               \A m \in Doomed(ne) : node'[m].status = "skipped" /\ node'[m].retry = ne[m].retry,
               \A m \in Nodes \ Doomed(ne) : node'[m] = ne[m]
        PROVE  Budgeted(node')
    <3>1. Budgeted(ne)
      BY <1>1, <2>1, <2>2, <2>5 DEF Budgeted, RowBecomes
    <3>2. \A m \in Nodes : \/ node'[m] = ne[m]
                           \/ node'[m].status = "skipped" /\ node'[m].retry = ne[m].retry
      BY <2>5
    <3>3. QED  BY <3>1, <3>2 DEF Budgeted
  <2>6. QED  BY <1>1, <2>1, <2>4, <2>5, SweptIs
<1>5. ASSUME NEW p \in Procs, Recovers(p)
      PROVE  Budgeted(node')
  <2>1. \A n \in Nodes : \/ node'[n] = node[n]
                         \/ node[n].status = "running" /\ node'[n].retry = node[n].retry
    BY <1>1, <1>5, RecoversIs
  <2>2. QED  BY <1>1, <2>1 DEF Budgeted
<1>6. ASSUME NEW p \in Procs, Process(p)
      PROVE  Budgeted(node')
  <2>1. CASE \/ Advance(p) \/ FactoryAsks(p) \/ CallerCloses(p) \/ Boots(p) \/ Crash(p)
             \/ \E n \in Nodes : SweepReads(p, n)
    <3>1. node' = node
      BY <2>1 DEF Advance, FactoryAsks, CallerCloses, SweepReads, Boots, Crash
    <3>2. QED  BY <1>1, <3>1
  <2>2. QED  BY <1>4, <1>5, <1>6, <2>1 DEF Process
<1>7. CASE Restarts
  <2>1. \A n \in Nodes : \/ node'[n] = node[n]
                         \/ node'[n].status = "pending" /\ node'[n].retry = 0
    BY <1>1, <1>7, RestartsIs
  <2>2. 0 <= MAX_NODE_RETRIES /\ 0 <= MAX_NODE_RETRIES + 1
    BY <1>1
  <2>3. QED  BY <1>1, <2>1, <2>2 DEF Budgeted
<1>8. CASE Decides \/ GetsBrand \/ FactoryPlans \/ FactorySettles \/ FactoryReopens \/ UNCHANGED vars
  <2>1. node' = node
    BY <1>8 DEF Decides, GetsBrand, FactoryPlans, FactorySettles, FactoryReopens, vars
  <2>2. QED  BY <1>1, <2>1
<1>9. QED  BY <1>3, <1>6, <1>7, <1>8 DEF Next, Outside

\* Terminal rows stay terminal, but for a restart that finds nothing under way.
LEMMA TerminalStays ==
  ASSUME GraphTypeOK, Calm, disturbed' = disturbed, [Next]_vars, AllTerminal(node), ~Restarts
  PROVE  AllTerminal(node')
<1>1. /\ Typed /\ Placed(node, exec) /\ node \in Rows /\ exec \in Runs /\ disturbed \in Nat
  BY TypesAre, GraphAssumption DEF GraphTypeOK, GraphAssumption, Calm, Typed
<1>2. \A n \in Nodes : node[n].status # "running" /\ \A c \in Copies : ~Live(exec[n][c])
  BY <1>1, AtWorkIs
<1>3. ASSUME NEW n \in Nodes, NEW c \in Copies, Executes(n, c)
      PROVE  AllTerminal(node')
  <2>1. CASE SkipsBlocked(n, c)
    <3>1. \A m \in Nodes : node'[m] = node[m] \/ node'[m].status = "skipped"
      BY <1>1, <2>1, SkipsBlockedIs
    <3>2. QED  BY <3>1 DEF AllTerminal, Terminal
  <2>2. CASE GoesOn(n, c) \/ Closes(n, c) \/ AdvancesLast(n, c)
    BY <2>2 DEF GoesOn, Closes, AdvancesLast
  <2>3. QED  BY <1>2, <1>3, <2>1, <2>2 DEF Executes, MarksRunning, MarksInFlight, FailsEarly, Succeeds, Fails,
             FailsAgain, FailsForGood, At, Live
<1>4. ASSUME NEW p \in Procs, Process(p)
      PROVE  AllTerminal(node')
  <2>1. ~SweepWrites(p)
    BY <1>2, SweepIs
  <2>2. CASE Recovers(p)
    <3>1. \A m \in Nodes : node'[m] = node[m]
      BY <1>1, <1>2, <2>2, RecoversIs
    <3>2. QED  BY <3>1 DEF AllTerminal
  <2>3. QED  BY <1>4, <2>1, <2>2 DEF Process, Advance, FactoryAsks, CallerCloses, SweepReads, Crash, Boots
<1>5. CASE Outside \/ UNCHANGED vars
  BY <1>5 DEF Outside, Decides, GetsBrand, FactoryPlans, FactorySettles, FactoryReopens, vars
<1>6. QED  BY <1>3, <1>4, <1>5 DEF Next

\* A verdict in flight, and a completed mission, find every row terminal.
LEMMA VerdictStep ==
  ASSUME GraphTypeOK, Calm, disturbed' = disturbed, [Next]_vars
  PROVE  Verdicts'
<1>1. CASE AllTerminal(node) /\ ~Restarts
  BY <1>1, TerminalStays DEF Verdicts
<1>2. CASE Restarts
  <2>1. \A p \in Procs : caller'[p] = "idle"
    BY <1>2, RestartIsQuiet DEF Restarts
  <2>2. mission' # "completed"
    BY <1>2 DEF Restarts
  <2>3. QED  BY <2>1, <2>2 DEF Verdicts
<1>3. CASE ~AllTerminal(node) /\ ~Restarts
  <2>1. mission # "completed" /\ \A p \in Procs : caller[p] = "idle"
    BY <1>3 DEF Calm, Verdicts
  <2>2. ASSUME NEW n \in Nodes, NEW c \in Copies, Executes(n, c)
        PROVE  Verdicts'
    <3>1. ~Closes(n, c)
      BY <1>3 DEF Closes, At, Calm, Placed, InStep, Closing
    <3>2. caller' = caller /\ mission' # "completed"
      BY <2>1, <2>2, <3>1 DEF Executes, MarksRunning, MarksInFlight, FailsEarly, Succeeds, Fails, FailsAgain,
         FailsForGood, SkipsBlocked, GoesOn, AdvancesLast
    <3>3. QED  BY <2>1, <3>2 DEF Verdicts
  <2>3. ASSUME NEW p \in Procs, Process(p)
        PROVE  Verdicts'
    <3>1. ~FactoryAsks(p) /\ ~CallerCloses(p)
      BY <1>3, <2>1 DEF FactoryAsks, CallerCloses
    <3>2. mission' = mission
      BY <2>3, <3>1 DEF Process, Advance, SweepReads, SweepWrites, Crash, Boots, Recovers
    <3>3. \A q \in Procs : caller'[q] = "idle"
      <4>1. CASE Advance(p)
        BY <1>3, <2>1, <4>1 DEF Advance
      <4>2. CASE Crash(p)
        BY <2>1, <4>2 DEF Crash, GraphTypeOK
      <4>3. CASE (\E n \in Nodes : SweepReads(p, n)) \/ SweepWrites(p) \/ Boots(p) \/ Recovers(p)
        BY <2>1, <4>3 DEF SweepReads, SweepWrites, Boots, Recovers
      <4>4. QED  BY <2>3, <3>1, <4>1, <4>2, <4>3 DEF Process
    <3>4. QED  BY <2>1, <3>2, <3>3 DEF Verdicts
  <2>4. CASE Outside \/ UNCHANGED vars
    <3>1. caller' = caller /\ mission' # "completed"
      BY <1>3, <2>1, <2>4 DEF Outside, Decides, GetsBrand, FactoryPlans, FactorySettles, FactoryReopens, vars
    <3>2. QED  BY <2>1, <3>1 DEF Verdicts
  <2>5. QED  BY <2>2, <2>3, <2>4 DEF Next
<1>4. QED  BY <1>1, <1>2, <1>3

\* A sweep has found its row without an execution, and its count within the budget.
LEMMA SweepsCalmStep ==
  ASSUME GraphTypeOK, Calm, disturbed' = disturbed, [Next]_vars
  PROVE  SweepsCalm'
<1>1. SweepsCalm /\ Budgeted(node) /\ disturbed \in Nat /\ sweep \in [Procs -> StaleRow \cup {NoRow}]
  BY GraphAssumption DEF GraphTypeOK, GraphAssumption, Calm
<1>2. ASSUME NEW p \in Procs, NEW n \in Nodes, SweepReads(p, n)
      PROVE  SweepsCalm'
  <2> DEFINE row == [node |-> n, seen |-> node[n].retry, over |-> mission \in {"cancelled", "rejected"},
                     alive |-> Attended(n)]
  <2>1. sweep' = [sweep EXCEPT ![p] = row]
    BY <1>2 DEF SweepReads
  <2>2. ~Attended(n)
    BY <1>1, <1>2, Undisturbed DEF SweepReads
  <2>3. node[n].retry <= MAX_NODE_RETRIES
    BY <1>1, <1>2 DEF SweepReads, Budgeted
  <2>4. row.seen <= MAX_NODE_RETRIES
    BY <2>3
  <2>5. ~row.alive
    BY <2>2
  <2> HIDE DEF row
  <2>6. QED  BY <1>1, <2>1, <2>4, <2>5 DEF SweepsCalm
<1>3. ASSUME NEW p \in Procs, SweepWrites(p) \/ Crash(p)
      PROVE  SweepsCalm'
  <2>1. sweep' = [sweep EXCEPT ![p] = NoRow]
    BY <1>3 DEF SweepWrites, Crash
  <2>2. QED  BY <1>1, <2>1 DEF SweepsCalm
<1>4. ASSUME sweep' = sweep
      PROVE  SweepsCalm'
  BY <1>1, <1>4 DEF SweepsCalm
<1>5. ASSUME NEW p \in Procs, Process(p)
      PROVE  SweepsCalm'
  <2>1. CASE Advance(p) \/ FactoryAsks(p) \/ CallerCloses(p) \/ Boots(p) \/ Recovers(p)
    BY <1>4, <2>1 DEF Advance, FactoryAsks, CallerCloses, Boots, Recovers
  <2>2. QED  BY <1>2, <1>3, <1>5, <2>1 DEF Process
<1>6. ASSUME NEW n \in Nodes, NEW c \in Copies, Executes(n, c)
      PROVE  SweepsCalm'
  BY <1>4, <1>6 DEF Executes, MarksRunning, MarksInFlight, FailsEarly, Succeeds, Fails, FailsAgain,
     FailsForGood, SkipsBlocked, GoesOn, Closes, AdvancesLast
<1>7. CASE Outside \/ UNCHANGED vars
  BY <1>4, <1>7 DEF Outside, Decides, Restarts, GetsBrand, FactoryPlans, FactorySettles, FactoryReopens, vars
<1>8. QED  BY <1>5, <1>6, <1>7 DEF Next

-----------------------------------------------------------------------------
(* What holds while nothing is disturbed.                                  *)

SoundAndCalm == Sound /\ (disturbed = 0 => Calm)

LEMMA CalmInit == Init => Calm
<1> SUFFICES ASSUME Init PROVE Calm
  OBVIOUS
<1>1. /\ \A n \in Nodes : node[n].status = "pending" /\ node[n].retry = 0
      /\ \A n \in Nodes, c \in Copies : exec[n][c] = Nobody
      /\ \A p \in Procs : caller[p] = "idle" /\ sweep[p] = NoRow
      /\ mission = "proposed"
  BY DEF Init
<1>2. Nobody.at = "none" /\ Nobody.doomed = {}
  BY NobodyIs
<1>3. Placed(node, exec)
  BY <1>1, <1>2 DEF Placed, Alone, InOrder, InStep, Dooming, Live, Closing
<1>4. Budgeted(node)
  BY <1>1, GraphAssumption DEF Budgeted, GraphAssumption
<1>5. Verdicts /\ SweepsCalm
  BY <1>1 DEF Verdicts, SweepsCalm
<1>6. QED  BY <1>3, <1>4, <1>5 DEF Calm

LEMMA CalmStep ==
  ASSUME GraphTypeOK, Calm, disturbed' = disturbed, [Next]_vars
  PROVE  Calm'
<1>1. Typed'
  BY TypedStep
<1>2. Placed(node', exec')
  BY <1>1, ExecutesPlaced, ProcessPlaced, OutsidePlaced DEF Next
<1>3. Budgeted(node') /\ Verdicts' /\ SweepsCalm'
  BY BudgetStep, VerdictStep, SweepsCalmStep
<1>4. QED  BY <1>2, <1>3 DEF Calm

LEMMA SoundAndCalmStep == SoundAndCalm /\ [Next]_vars => SoundAndCalm'
<1> SUFFICES ASSUME SoundAndCalm, [Next]_vars PROVE SoundAndCalm'
  OBVIOUS
<1>1. GraphTypeOK /\ Sound'
  BY SoundStep DEF SoundAndCalm, Sound
<1>2. disturbed' = 0 => disturbed = 0 /\ disturbed' = disturbed
  BY <1>1, DisturbedGrows
<1>3. disturbed' = 0 => Calm'
  BY <1>1, <1>2, CalmStep DEF SoundAndCalm
<1>4. QED  BY <1>1, <1>3 DEF SoundAndCalm

LEMMA SoundAndCalmAlways == Spec => []SoundAndCalm
<1>1. Init => SoundAndCalm
  BY SoundInit, CalmInit DEF SoundAndCalm
<1>2. QED  BY <1>1, SoundAndCalmStep, PTL DEF Spec

\* Until a row is launched or requeued over a live execution, a completed mission has no
\* pending and no running node.
THEOREM CompletedMeansDone == Spec => []CompletedMissionIsDone
<1>1. SoundAndCalm => CompletedMissionIsDone
  BY DEF SoundAndCalm, Calm, Verdicts, CompletedMissionIsDone
<1>2. QED  BY <1>1, SoundAndCalmAlways, PTL
=============================================================================
