--------------------------- MODULE TaskLoad_proofs ---------------------------
(***************************************************************************)
(* What disturbances cost: how many executions of a node may be alive and  *)
(* how far its retry count may run over MAX_NODE_RETRIES, for any graph,   *)
(* any processes and any number of disturbances.                           *)
(*                                                                         *)
(* Whoever may still raise the count of a node is counted in its Load: its *)
(* live executions, the sweeps that have read its row over a live          *)
(* execution, and the row itself when it waits for a launch or a sweep.    *)
(* Retries beyond the budget and the load together never exceed one more   *)
(* than the number of disturbances.                                         *)
(***************************************************************************)
EXTENDS TaskGraph_proofs, FiniteSetTheorems

Excess(k) == IF k > MAX_NODE_RETRIES THEN k - MAX_NODE_RETRIES ELSE 0

Sweepers(n) == {p \in Procs : sweep[p] # NoRow /\ sweep[p].node = n /\ sweep[p].alive}

\* The row is going to be launched, or to be swept for want of an execution.
Owes(n) == \/ node[n].status = "pending" /\ \A c \in Copies : exec[n][c].at # "launched"
           \/ node[n].status = "running" /\ LiveOnes(n) = {}

Load(n) == Cardinality(LiveOnes(n)) + Cardinality(Sweepers(n)) + (IF Owes(n) THEN 1 ELSE 0)

\* The retry counts from which the next one is computed.
Carried(n) == {node[n].retry}
              \cup {exec[n][c].seen : c \in {d \in Copies : exec[n][d].at = "failing"}}
              \cup {sweep[p].seen : p \in {q \in Procs : sweep[q] # NoRow /\ sweep[q].node = n}}

Counts(n) == IsFiniteSet(LiveOnes(n)) /\ IsFiniteSet(Sweepers(n))

Bounded(n) == /\ Counts(n)
              /\ \A k \in Carried(n) : Excess(k) + Load(n) <= 1 + disturbed

LoadBounded == GraphTypeOK /\ \A n \in Nodes : Bounded(n)

-----------------------------------------------------------------------------
(* Counting.                                                               *)

LEMMA Shrinks ==
  ASSUME NEW S, IsFiniteSet(S), NEW T, T \subseteq S
  PROVE  /\ IsFiniteSet(T) /\ Cardinality(S) \in Nat /\ Cardinality(T) \in Nat
         /\ Cardinality(T) <= Cardinality(S)
         /\ T # S => Cardinality(T) + 1 <= Cardinality(S)
<1>1. /\ IsFiniteSet(T) /\ Cardinality(T) <= Cardinality(S)
      /\ Cardinality(S) = Cardinality(T) => S = T
  BY FS_Subset
<1>2. Cardinality(S) \in Nat /\ Cardinality(T) \in Nat
  BY <1>1, FS_CardinalityType
<1>3. QED  BY <1>1, <1>2

LEMMA GrowsByOne ==
  ASSUME NEW S, IsFiniteSet(S), NEW x, NEW T, T \subseteq S \cup {x}
  PROVE  /\ IsFiniteSet(T) /\ Cardinality(S) \in Nat /\ Cardinality(T) \in Nat
         /\ Cardinality(T) <= Cardinality(S) + 1
<1>1. /\ IsFiniteSet(S \cup {x}) /\ Cardinality(S) \in Nat
      /\ Cardinality(S \cup {x}) \in {Cardinality(S), Cardinality(S) + 1}
  BY FS_AddElement, FS_CardinalityType
<1>2. /\ IsFiniteSet(T) /\ Cardinality(T) \in Nat
      /\ Cardinality(T) <= Cardinality(S \cup {x})
  BY <1>1, Shrinks
<1>3. QED  BY <1>1, <1>2

\* The load of a node grows by disturbances only; or it even falls.
Held(n) == Counts(n)' /\ Load(n)' + disturbed <= Load(n) + disturbed'
Eased(n) == Counts(n)' /\ Load(n)' + 1 + disturbed <= Load(n) + disturbed'

Grown == disturbed \in Nat /\ disturbed' \in Nat /\ disturbed <= disturbed'

LEMMA LoadNat ==
  ASSUME NEW n, Counts(n)
  PROVE  Cardinality(LiveOnes(n)) \in Nat /\ Cardinality(Sweepers(n)) \in Nat /\ Load(n) \in Nat
BY FS_CardinalityType DEF Counts, Load

LEMMA LessCounted ==
  ASSUME NEW n, Counts(n), LiveOnes(n)' \subseteq LiveOnes(n), Sweepers(n)' \subseteq Sweepers(n)
  PROVE  /\ Counts(n)'
         /\ Cardinality(LiveOnes(n)) \in Nat /\ Cardinality(LiveOnes(n)') \in Nat
         /\ Cardinality(LiveOnes(n)') <= Cardinality(LiveOnes(n))
         /\ LiveOnes(n)' # LiveOnes(n) => Cardinality(LiveOnes(n)') + 1 <= Cardinality(LiveOnes(n))
         /\ Cardinality(Sweepers(n)) \in Nat /\ Cardinality(Sweepers(n)') \in Nat
         /\ Cardinality(Sweepers(n)') <= Cardinality(Sweepers(n))
         /\ Sweepers(n)' # Sweepers(n) => Cardinality(Sweepers(n)') + 1 <= Cardinality(Sweepers(n))
BY Shrinks DEF Counts

\* What is lost pays for a row that owes more than before.
LEMMA LoadHeld ==
  ASSUME NEW n, Counts(n), Grown,
         LiveOnes(n)' \subseteq LiveOnes(n), Sweepers(n)' \subseteq Sweepers(n),
         Owes(n)' => \/ Owes(n) \/ disturbed # disturbed'
                     \/ LiveOnes(n)' # LiveOnes(n) \/ Sweepers(n)' # Sweepers(n)
  PROVE  Held(n)
BY LessCounted DEF Held, Load, Grown

LEMMA LoadEased ==
  ASSUME NEW n, Counts(n), Grown,
         LiveOnes(n)' \subseteq LiveOnes(n), Sweepers(n)' \subseteq Sweepers(n), ~Owes(n)',
         \/ Owes(n) \/ disturbed # disturbed'
         \/ LiveOnes(n)' # LiveOnes(n) \/ Sweepers(n)' # Sweepers(n)
  PROVE  Eased(n)
BY LessCounted DEF Eased, Load, Grown

\* A launch is paid for by the row that owed it, or by a disturbance.
LEMMA LoadLaunched ==
  ASSUME NEW n, Counts(n), Grown, NEW c, LiveOnes(n)' \subseteq LiveOnes(n) \cup {c},
         Sweepers(n)' = Sweepers(n), ~Owes(n)', Owes(n) \/ disturbed # disturbed'
  PROVE  Held(n)
<1>1. /\ IsFiniteSet(LiveOnes(n)') /\ Cardinality(LiveOnes(n)) \in Nat
      /\ Cardinality(LiveOnes(n)') \in Nat
      /\ Cardinality(LiveOnes(n)') <= Cardinality(LiveOnes(n)) + 1
  BY GrowsByOne DEF Counts
<1>2. Cardinality(Sweepers(n)) \in Nat /\ Counts(n)'
  BY <1>1, FS_CardinalityType DEF Counts
<1>3. QED  BY <1>1, <1>2 DEF Held, Load, Grown

\* A sweep that has read a row over a live execution is a disturbance.
LEMMA LoadSwept ==
  ASSUME NEW n, Counts(n), Grown, NEW p, Sweepers(n)' \subseteq Sweepers(n) \cup {p},
         LiveOnes(n)' = LiveOnes(n), Owes(n)' => Owes(n), disturbed # disturbed'
  PROVE  Held(n)
<1>1. /\ IsFiniteSet(Sweepers(n)') /\ Cardinality(Sweepers(n)) \in Nat
      /\ Cardinality(Sweepers(n)') \in Nat
      /\ Cardinality(Sweepers(n)') <= Cardinality(Sweepers(n)) + 1
  BY GrowsByOne DEF Counts
<1>2. Cardinality(LiveOnes(n)) \in Nat /\ Counts(n)'
  BY <1>1, FS_CardinalityType DEF Counts
<1>3. QED  BY <1>1, <1>2 DEF Held, Load, Grown

-----------------------------------------------------------------------------
(* From the load to the bound.                                             *)

\* Where the counts of n come from: what is new is within the budget, or was carried
\* before, or is one more and the load has fallen.
Follows(n, k) == k \in Carried(n) \/ k <= MAX_NODE_RETRIES \/ (Eased(n) /\ k - 1 \in Carried(n))

LEMMA CarriedNat ==
  ASSUME GraphTypeOK, NEW n \in Nodes
  PROVE  node[n].retry \in Nat /\ Carried(n) \subseteq Nat
<1>1. node[n].retry \in Nat /\ \A c \in Copies : exec[n][c].seen \in Nat
  BY DEF GraphTypeOK, Row, Execution
<1>2. \A p \in Procs : sweep[p] # NoRow => sweep[p].seen \in Nat
  BY DEF GraphTypeOK, StaleRow
<1>3. QED  BY <1>1, <1>2 DEF Carried

LEMMA BoundedStep ==
  ASSUME GraphTypeOK, GraphTypeOK', Grown, NEW n \in Nodes, Bounded(n), Held(n) \/ Eased(n),
         Follows(n, node'[n].retry),
         \A c \in Copies : exec'[n][c].at = "failing" =>
           exec'[n][c] = exec[n][c] \/ exec'[n][c].seen = node[n].retry,
         \A p \in Procs : sweep'[p] # NoRow /\ sweep'[p].node = n =>
           sweep'[p] = sweep[p] \/ sweep'[p].seen = node[n].retry
  PROVE  Bounded(n)'
<1>1. Counts(n) /\ Counts(n)' /\ Load(n) \in Nat
  BY LoadNat DEF Bounded, Held, Eased
<1>2. Load(n)' \in Nat
  BY <1>1, FS_CardinalityType DEF Counts, Load
<1>3. Load(n)' + disturbed <= Load(n) + disturbed'
  BY <1>1, <1>2 DEF Held, Eased, Grown
<1>4. node[n].retry \in Carried(n)
  BY DEF Carried
<1>5. ASSUME NEW k \in Carried(n)'
      PROVE  Follows(n, k)
  <2>1. CASE k = node'[n].retry
    BY <2>1
  <2>2. ASSUME NEW c \in Copies, exec'[n][c].at = "failing", k = exec'[n][c].seen
        PROVE  k \in Carried(n)
    BY <1>4, <2>2 DEF Carried
  <2>3. ASSUME NEW p \in Procs, sweep'[p] # NoRow, sweep'[p].node = n, k = sweep'[p].seen
        PROVE  k \in Carried(n)
    BY <1>4, <2>3 DEF Carried
  <2>4. QED  BY <1>5, <2>1, <2>2, <2>3 DEF Carried, Follows
<1>6. ASSUME NEW k \in Carried(n)'
      PROVE  Excess(k) + Load(n)' <= 1 + disturbed'
  <2>1. k \in Nat /\ Carried(n) \subseteq Nat /\ MAX_NODE_RETRIES \in Nat
    <3>1. Carried(n)' \subseteq Nat
      <4>1. node'[n].retry \in Nat /\ \A c \in Copies : exec'[n][c].seen \in Nat
        BY DEF GraphTypeOK, Row, Execution
      <4>2. \A p \in Procs : sweep'[p] # NoRow => sweep'[p].seen \in Nat
        BY DEF GraphTypeOK, StaleRow
      <4>3. QED  BY <4>1, <4>2 DEF Carried
    <3>2. QED  BY <3>1, CarriedNat, GraphAssumption DEF GraphAssumption
  <2>2. \A j \in Carried(n) : Excess(j) + Load(n) <= 1 + disturbed /\ Excess(j) \in Nat
    BY <2>1 DEF Bounded, Excess
  <2>3. CASE k \in Carried(n)
    BY <1>1, <1>2, <1>3, <2>2, <2>3 DEF Grown
  <2>4. CASE k <= MAX_NODE_RETRIES
    <3>1. Excess(k) = 0
      BY <2>1, <2>4 DEF Excess
    <3>2. Load(n) <= 1 + disturbed
      BY <1>1, <1>4, <2>2 DEF Grown
    <3>3. QED  BY <1>1, <1>2, <1>3, <3>1, <3>2 DEF Grown
  <2>5. CASE Eased(n) /\ k - 1 \in Carried(n)
    <3>1. Excess(k) <= Excess(k - 1) + 1 /\ Excess(k) \in Nat
      BY <2>1 DEF Excess
    <3>2. Load(n)' + 1 + disturbed <= Load(n) + disturbed'
      BY <2>5 DEF Eased
    <3>3. Excess(k - 1) + Load(n) <= 1 + disturbed /\ Excess(k - 1) \in Nat
      BY <2>2, <2>5
    <3>4. QED  BY <1>1, <1>2, <3>1, <3>2, <3>3 DEF Grown
  <2>6. QED  BY <1>5, <1>6, <2>3, <2>4, <2>5 DEF Follows
<1>7. QED  BY <1>1, <1>6 DEF Bounded

\* What changes at n are executions that do not write its row, before and after.
SameWork(n) == \A c \in Copies : exec'[n][c] = exec[n][c] \/ (~Live(exec'[n][c]) /\ ~Live(exec[n][c]))

LEMMA SameWorkIs ==
  ASSUME NEW n, SameWork(n)
  PROVE  /\ LiveOnes(n)' = LiveOnes(n)
         /\ \A c \in Copies : exec'[n][c].at = "launched" <=> exec[n][c].at = "launched"
         /\ \A c \in Copies : exec'[n][c].at = "failing" => exec'[n][c] = exec[n][c]
BY DEF SameWork, Live, LiveOnes

\* A node at which nobody works in this step, and whose row is left or skipped.
LEMMA QuietNode ==
  ASSUME GraphTypeOK, GraphTypeOK', Grown, NEW n \in Nodes, Bounded(n), SameWork(n),
         Sweepers(n)' = Sweepers(n), node'[n].retry = node[n].retry,
         node'[n].status = node[n].status \/ node'[n].status \in Terminal,
         \A p \in Procs : sweep'[p] # NoRow /\ sweep'[p].node = n => sweep'[p] = sweep[p]
  PROVE  Bounded(n)'
<1>1. Owes(n)' => Owes(n)
  BY SameWorkIs DEF Owes, Terminal
<1>2. Held(n)
  BY <1>1, SameWorkIs, LoadHeld DEF Bounded
<1>3. Follows(n, node'[n].retry)
  BY DEF Follows, Carried
<1>4. QED  BY <1>2, <1>3, SameWorkIs, BoundedStep

-----------------------------------------------------------------------------
(* The steps of an execution.                                              *)

\* What every lemma below assumes.
LoadStep == GraphTypeOK /\ GraphTypeOK' /\ Grown /\ \A n \in Nodes : Bounded(n)

LEMMA SweepersStay ==
  ASSUME NEW n, sweep' = sweep
  PROVE  Sweepers(n)' = Sweepers(n)
BY DEF Sweepers

\* The nodes an execution of another node does not touch.
LEMMA OtherNodes ==
  ASSUME LoadStep, NEW n \in Nodes, NEW c \in Copies, RowChanges(n) \/ node' = node, RunChanges(n, c),
         sweep' = sweep, NEW m \in Nodes, m # n
  PROVE  Bounded(m)'
<1>1. node'[m] = node[m] /\ SameWork(m)
  BY DEF RowChanges, RowBecomes, RunChanges, RunBecomes, SameWork
<1>2. QED  BY <1>1, SweepersStay, QuietNode DEF LoadStep

\* An execution that has written its row for the last time.
LEMMA WorkEnds ==
  ASSUME LoadStep, NEW n \in Nodes, NEW c \in Copies, RunChanges(n, c),
         Live(exec[n][c]), ~Live(exec'[n][c]), sweep' = sweep, RowChanges(n),
         \/ node'[n].status = "pending" /\ node'[n].retry <= MAX_NODE_RETRIES
         \/ node'[n].status = "completed" /\ node'[n].retry = node[n].retry
         \/ node'[n].status = "failed" /\ exec[n][c].at = "failing" /\ node'[n].retry = exec[n][c].seen + 1
  PROVE  \A m \in Nodes : Bounded(m)'
<1>1. LiveOnes(n)' \subseteq LiveOnes(n) /\ LiveOnes(n)' # LiveOnes(n)
  BY DEF LiveOnes, RunChanges, RunBecomes
<1>2. \A d \in Copies : exec'[n][d].at = "failing" => exec'[n][d] = exec[n][d]
  BY DEF RunChanges, RunBecomes, Live
<1>3. Counts(n) /\ Grown /\ Bounded(n) /\ Sweepers(n)' = Sweepers(n)
  BY SweepersStay DEF LoadStep, Bounded
<1>4. Held(n)
  BY <1>1, <1>3, LoadHeld
<1>5. Follows(n, node'[n].retry)
  <2>1. CASE node'[n].retry <= MAX_NODE_RETRIES \/ node'[n].retry = node[n].retry
    BY <2>1 DEF Follows, Carried
  <2>2. CASE /\ node'[n].status = "failed" /\ exec[n][c].at = "failing"
             /\ node'[n].retry = exec[n][c].seen + 1
    <3>1. ~Owes(n)'
      BY <2>2 DEF Owes
    <3>2. Eased(n)
      BY <1>1, <1>3, <3>1, LoadEased
    <3>3. exec[n][c].seen \in Carried(n) /\ exec[n][c].seen \in Nat
      BY <2>2 DEF Carried, LoadStep, GraphTypeOK, Execution
    <3>4. node'[n].retry - 1 = exec[n][c].seen
      BY <2>2, <3>3
    <3>5. QED  BY <3>2, <3>3, <3>4 DEF Follows
  <2>3. QED  BY <2>1, <2>2
<1>6. Bounded(n)'
  BY <1>2, <1>3, <1>4, <1>5, BoundedStep DEF LoadStep
<1>7. QED  BY <1>6, OtherNodes

\* A launched execution marks its row running, then its mission; a working one reads the
\* retry count.
LEMMA WorkGoesOn ==
  ASSUME LoadStep, NEW n \in Nodes, NEW c \in Copies, RunChanges(n, c), sweep' = sweep,
         Live(exec[n][c]), Live(exec'[n][c]), exec'[n][c].at # "launched",
         \/ RowChanges(n) /\ node'[n].status = "running"
         \/ node' = node /\ exec[n][c].at # "launched",
         node'[n].retry = node[n].retry,
         exec'[n][c].at = "failing" => exec'[n][c].seen = node[n].retry
  PROVE  \A m \in Nodes : Bounded(m)'
<1>1. LiveOnes(n)' = LiveOnes(n) /\ c \in LiveOnes(n)
  BY DEF LiveOnes, RunChanges, RunBecomes
<1>2. Counts(n) /\ Grown /\ Bounded(n) /\ Sweepers(n)' = Sweepers(n)
  BY SweepersStay DEF LoadStep, Bounded
<1>3. Owes(n)' => Owes(n)
  <2>1. CASE node'[n].status = "running"
    BY <1>1, <2>1 DEF Owes
  <2>2. CASE node' = node /\ exec[n][c].at # "launched"
    BY <1>1, <2>2 DEF Owes, RunChanges, RunBecomes
  <2>3. QED  BY <2>1, <2>2
<1>4. Held(n)
  BY <1>1, <1>2, <1>3, LoadHeld
<1>5. Bounded(n)'
  <2>1. Follows(n, node'[n].retry)
    BY DEF Follows, Carried
  <2>2. \A d \in Copies : exec'[n][d].at = "failing" =>
          exec'[n][d] = exec[n][d] \/ exec'[n][d].seen = node[n].retry
    BY DEF RunChanges, RunBecomes
  <2>3. QED  BY <1>2, <1>4, <2>1, <2>2, BoundedStep DEF LoadStep
<1>6. QED  BY <1>5, OtherNodes

\* A wave of launches: each one was owed, or the wave is a disturbance.
LEMMA LaunchesBounded ==
  ASSUME LoadStep, NEW R, Launches(R), node' = node, sweep' = sweep, NEW n \in Nodes
  PROVE  Bounded(n)'
<1>1. /\ \A d \in Copies : exec'[n][d] # exec[n][d] =>
           exec'[n][d].at \in {"none", "launched"} /\ ~Live(exec[n][d])
      /\ \A d \in Copies : exec'[n][d] # exec[n][d] /\ exec'[n][d].at = "launched" => n \in R
  BY DEF Launches, Live
<1>2. CASE \A d \in Copies : exec'[n][d] # exec[n][d] => exec'[n][d].at = "none"
  <2>1. SameWork(n)
    BY <1>1, <1>2 DEF SameWork, Live
  <2>2. QED  BY <2>1, SweepersStay, QuietNode DEF LoadStep
<1>3. ASSUME NEW c \in Copies, exec'[n][c] # exec[n][c], exec'[n][c].at = "launched"
      PROVE  Bounded(n)'
  <2>1. n \in R /\ node[n].status = "pending"
    BY <1>1, <1>3 DEF Launches, Ready
  <2>2. LiveOnes(n)' \subseteq LiveOnes(n) \cup {c}
    BY <1>1, <1>3 DEF LiveOnes, Launches, Live
  <2>3. ~Owes(n)' /\ (Owes(n) \/ disturbed # disturbed')
    BY <1>3, <2>1 DEF Owes, Launches
  <2>4. Counts(n) /\ Grown /\ Bounded(n) /\ Sweepers(n)' = Sweepers(n)
    BY SweepersStay DEF LoadStep, Bounded
  <2>5. Held(n)
    BY <2>2, <2>3, <2>4, LoadLaunched
  <2>6. Follows(n, node'[n].retry)
    BY DEF Follows, Carried
  <2>7. \A d \in Copies : exec'[n][d].at = "failing" => exec'[n][d] = exec[n][d]
    BY <1>1
  <2>8. QED  BY <2>4, <2>5, <2>6, <2>7, BoundedStep DEF LoadStep
<1>4. QED  BY <1>1, <1>2, <1>3

LEMMA ExecutesBounded ==
  ASSUME LoadStep, NEW n \in Nodes, NEW c \in Copies, Executes(n, c), NEW m \in Nodes
  PROVE  Bounded(m)'
<1>1. Typed /\ disturbed \in Nat
  BY TypesAre DEF LoadStep, Grown
<1>2. sweep' = sweep
  BY DEF Executes, MarksRunning, MarksInFlight, FailsEarly, Succeeds, Fails, FailsAgain, FailsForGood, SkipsBlocked,
         GoesOn, Closes, AdvancesLast
<1>3. CASE MarksRunning(n, c) \/ MarksInFlight(n, c) \/ Fails(n, c)
  <2>1. Live(exec[n][c])
    BY <1>3 DEF MarksRunning, MarksInFlight, Fails, At, Live
  <2>2. CASE MarksRunning(n, c)
    BY <1>1, <1>2, <2>1, <2>2, MarksRunningIs, WorkGoesOn DEF Live
  <2>3. CASE Fails(n, c)
    <3>1. exec[n][c].at = "working"
      BY <2>3 DEF Fails, At
    <3>2. QED  BY <1>1, <1>2, <2>1, <2>3, <3>1, FailsIs, WorkGoesOn DEF Live
  <2>4. CASE MarksInFlight(n, c)
    <3>1. exec[n][c].at = "marked"
      BY <2>4 DEF MarksInFlight, At
    <3>2. QED  BY <1>1, <1>2, <2>1, <2>4, <3>1, MarksInFlightIs, WorkGoesOn DEF Live
  <2>5. QED  BY <1>3, <2>2, <2>3, <2>4
<1>4. CASE FailsEarly(n, c) \/ Succeeds(n, c) \/ FailsAgain(n, c) \/ FailsForGood(n, c)
  <2>1. Live(exec[n][c])
    BY <1>4 DEF FailsEarly, Succeeds, FailsAgain, FailsForGood, At, Live
  <2>2. CASE FailsEarly(n, c)
    <3>1. 1 <= MAX_NODE_RETRIES
      BY GraphAssumption DEF GraphAssumption
    <3>2. QED  BY <1>1, <1>2, <2>1, <2>2, <3>1, FailsEarlyIs, WorkEnds DEF Live
  <2>3. CASE Succeeds(n, c)
    BY <1>1, <1>2, <2>1, <2>3, SucceedsIs, WorkEnds DEF Live
  <2>4. CASE FailsAgain(n, c)
    <3>1. exec[n][c].seen + 1 <= MAX_NODE_RETRIES
      BY <2>4 DEF FailsAgain
    <3>2. QED  BY <1>1, <1>2, <2>1, <2>4, <3>1, FailsAgainIs, WorkEnds DEF Live
  <2>5. CASE FailsForGood(n, c)
    <3>1. exec[n][c].at = "failing"
      BY <2>5 DEF FailsForGood, At
    <3>2. QED  BY <1>1, <1>2, <2>1, <2>5, <3>1, FailsForGoodIs, WorkEnds DEF Live
  <2>6. QED  BY <1>4, <2>2, <2>3, <2>4, <2>5
<1>5. ASSUME RunChanges(n, c), ~Live(exec[n][c]), ~Live(exec'[n][c]), node'[m].retry = node[m].retry,
             node'[m].status = node[m].status \/ node'[m].status \in Terminal
      PROVE  Bounded(m)'
  <2>1. SameWork(m)
    BY <1>5 DEF SameWork, RunChanges, RunBecomes
  <2>2. QED  BY <1>2, <1>5, <2>1, SweepersStay, QuietNode DEF LoadStep
<1>6. CASE SkipsBlocked(n, c)
  <2>1. ~Live(exec[n][c])
    BY <1>6 DEF SkipsBlocked, At, Live
  <2>2. RunChanges(n, c) /\ ~Live(exec'[n][c])
    BY <1>1, <1>6, SkipsBlockedIs DEF Live
  <2>3. /\ node'[m].retry = node[m].retry
        /\ node'[m].status = node[m].status \/ node'[m].status \in Terminal
    BY <1>1, <1>6, SkipsBlockedIs DEF Terminal
  <2>4. QED  BY <1>5, <2>1, <2>2, <2>3
<1>7. ASSUME Verdict(n, c) \/ Closes(n, c), node' = node, ~Live(exec[n][c]), ~Live(exec'[n][c])
      PROVE  Bounded(m)'
  <2>1. RunChanges(n, c)
    BY <1>1, <1>7, ClosesIs DEF Verdict
  <2>2. QED  BY <1>5, <1>7, <2>1
<1>8. CASE Closes(n, c)
  <2>1. ~Live(exec[n][c])
    BY <1>8 DEF Closes, At, Live
  <2>2. QED  BY <1>1, <1>7, <1>8, <2>1, ClosesIs DEF Live
<1>9. CASE GoesOn(n, c) \/ AdvancesLast(n, c)
  <2>1. node' = node /\ ~Live(exec[n][c])
    BY <1>9 DEF GoesOn, AdvancesLast, At, Live
  <2>2. QED  BY <1>1, <1>2, <1>7, <1>9, <2>1, GoesOnIs, AdvancesLastIs, LaunchesBounded DEF Live
<1>10. QED  BY <1>3, <1>4, <1>6, <1>8, <1>9 DEF Executes

-----------------------------------------------------------------------------
(* The steps of a process.                                                 *)

\* Rows and executions stay.
LEMMA SameRows ==
  ASSUME LoadStep, NEW m \in Nodes, node' = node, exec' = exec
  PROVE  /\ LiveOnes(m)' = LiveOnes(m) /\ (Owes(m)' <=> Owes(m))
         /\ Follows(m, node'[m].retry) /\ Counts(m) /\ Grown /\ Bounded(m)
BY DEF LiveOnes, Owes, Follows, Carried, LoadStep, Bounded

LEMMA SweepReadsBounded ==
  ASSUME LoadStep, NEW p \in Procs, NEW n \in Nodes, SweepReads(p, n), NEW m \in Nodes
  PROVE  Bounded(m)'
<1> DEFINE row == [node |-> n, seen |-> node[n].retry, over |-> mission \in {"cancelled", "rejected"},
                   alive |-> Attended(n)]
<1>1. node' = node /\ exec' = exec /\ sweep' = [sweep EXCEPT ![p] = row] /\ Disturbs(Attended(n))
  BY DEF SweepReads
<1>2. row.node = n /\ row.seen = node[n].retry /\ (row.alive <=> Attended(n))
  OBVIOUS
<1> HIDE DEF row
<1>3. sweep \in [Procs -> StaleRow \cup {NoRow}]
  BY DEF LoadStep, GraphTypeOK
<1>4. sweep'[p] = row /\ \A q \in Procs : q # p => sweep'[q] = sweep[q]
  BY <1>1, <1>3
<1>5. \A q \in Procs : sweep'[q] # NoRow /\ sweep'[q].node = m =>
        sweep'[q] = sweep[q] \/ sweep'[q].seen = node[m].retry
  BY <1>2, <1>4
<1>6. CASE m = n /\ Attended(n)
  <2>1. Sweepers(m)' \subseteq Sweepers(m) \cup {p}
    BY <1>4 DEF Sweepers
  <2>2. disturbed # disturbed'
    BY <1>1, <1>6 DEF Disturbs, LoadStep, Grown
  <2>3. Held(m)
    BY <1>1, <2>1, <2>2, SameRows, LoadSwept
  <2>4. QED  BY <1>1, <1>5, <2>3, SameRows, BoundedStep DEF LoadStep
<1>7. CASE ~(m = n /\ Attended(n))
  <2>1. Sweepers(m)' \subseteq Sweepers(m)
    BY <1>2, <1>4, <1>7 DEF Sweepers
  <2>2. Held(m)
    BY <1>1, <2>1, SameRows, LoadHeld
  <2>3. QED  BY <1>1, <1>5, <2>2, SameRows, BoundedStep DEF LoadStep
<1>8. QED  BY <1>6, <1>7

\* The write of a sweep is paid for by its read, by the row that had no execution, or
\* it is a disturbance.
LEMMA SweepWritesBounded ==
  ASSUME LoadStep, NEW p \in Procs, SweepWrites(p), NEW m \in Nodes
  PROVE  Bounded(m)'
<1> DEFINE n == sweep[p].node
<1>1. /\ sweep[p] \in StaleRow /\ node' = Swept(sweep[p]) /\ exec' = exec
      /\ sweep' = [sweep EXCEPT ![p] = NoRow] /\ sweep[p] # NoRow
      /\ Disturbs(~sweep[p].alive /\ (node[n].status # "running" \/ Attended(n)))
  BY SweepWritesIs DEF LoadStep, SweepWrites
<1>2. /\ n \in Nodes /\ sweep[p].seen \in Nat /\ sweep \in [Procs -> StaleRow \cup {NoRow}]
      /\ Typed /\ MAX_NODE_RETRIES \in Nat
  BY <1>1, TypesAre, GraphAssumption DEF StaleRow, LoadStep, GraphTypeOK, GraphAssumption
<1>3. sweep'[p] = NoRow /\ \A q \in Procs : q # p => sweep'[q] = sweep[q]
  BY <1>1, <1>2
<1>4. /\ LiveOnes(m)' = LiveOnes(m) /\ Sweepers(m)' \subseteq Sweepers(m) /\ SameWork(m)
      /\ Counts(m) /\ Grown /\ Bounded(m)
  BY <1>1, <1>3 DEF LiveOnes, Sweepers, SameWork, LoadStep, Bounded
<1>5. \A q \in Procs : sweep'[q] # NoRow => sweep'[q] = sweep[q]
  BY <1>3
<1>6. ASSUME m # n, node'[m].retry = node[m].retry,
             node'[m].status = node[m].status \/ node'[m].status = "skipped"
      PROVE  Bounded(m)'
  <2>1. Sweepers(m)' = Sweepers(m)
    BY <1>1, <1>3, <1>6 DEF Sweepers
  <2>2. QED  BY <1>4, <1>5, <1>6, <2>1, QuietNode DEF LoadStep, Terminal
<1>7. ASSUME m = n
      PROVE  Sweepers(m)' # Sweepers(m) \/ disturbed # disturbed' \/ Owes(m)
  <2>1. CASE sweep[p].alive
    BY <1>1, <1>3, <1>7, <2>1 DEF Sweepers
  <2>2. CASE disturbed' = disturbed /\ ~sweep[p].alive
    <3>1. node[n].status = "running" /\ ~Attended(n)
      BY <1>1, <2>2 DEF Disturbs, LoadStep, Grown
    <3>2. LiveOnes(n) = {}
      BY <3>1 DEF Attended, LiveOnes
    <3>3. QED  BY <1>7, <3>1, <3>2 DEF Owes
  <2>3. QED  BY <2>1, <2>2
<1>8. ASSUME m = n,
             \/ node'[m].status = "pending" /\ node'[m].retry <= MAX_NODE_RETRIES
             \/ node'[m].status = "failed" /\ node'[m].retry \in {node[m].retry, sweep[p].seen + 1}
      PROVE  Bounded(m)'
  <2>1. Held(m)
    BY <1>4, <1>7, <1>8, LoadHeld
  <2>2. CASE node'[m].retry <= MAX_NODE_RETRIES \/ node'[m].retry = node[m].retry
    <3>1. Follows(m, node'[m].retry)
      BY <2>2 DEF Follows, Carried
    <3>2. QED  BY <1>1, <1>4, <1>5, <2>1, <3>1, BoundedStep DEF LoadStep
  <2>3. CASE node'[m].status = "failed" /\ node'[m].retry = sweep[p].seen + 1
    <3>1. ~Owes(m)'
      BY <2>3 DEF Owes
    <3>2. Eased(m)
      BY <1>4, <1>7, <1>8, <3>1, LoadEased
    <3>3. node'[m].retry - 1 = sweep[p].seen
      BY <1>2, <2>3
    <3>4. sweep[p].seen \in Carried(m)
      BY <1>1, <1>8 DEF Carried
    <3>5. Follows(m, node'[m].retry)
      BY <3>2, <3>3, <3>4 DEF Follows
    <3>6. QED  BY <1>1, <1>4, <1>5, <2>1, <3>5, BoundedStep DEF LoadStep
  <2>4. QED  BY <1>8, <2>2, <2>3
<1>9. CASE RowBecomes(node', n, node'[n]) /\ (m = n =>
             \/ node'[m].status = "pending" /\ node'[m].retry <= MAX_NODE_RETRIES
             \/ node'[m].status = "failed" /\ node'[m].retry = node[m].retry)
  BY <1>6, <1>8, <1>9 DEF RowBecomes
<1>10. ASSUME NEW ne \in Rows, RowBecomes(ne, n, ne[n]), ne[n].status = "failed",
              ne[n].retry = sweep[p].seen + 1,
              \A k \in Doomed(ne) : node'[k].status = "skipped" /\ node'[k].retry = ne[k].retry,
              \A k \in Nodes \ Doomed(ne) : node'[k] = ne[k]
       PROVE  Bounded(m)'
  <2>1. n \notin Doomed(ne)
    BY <1>10 DEF Doomed
  <2>2. CASE m = n
    BY <1>2, <1>8, <1>10, <2>1, <2>2
  <2>3. CASE m # n
    BY <1>6, <1>10, <2>3 DEF RowBecomes
  <2>4. QED  BY <2>2, <2>3
<1>11. ASSUME sweep[p].seen < MAX_NODE_RETRIES
       PROVE  sweep[p].seen + 1 <= MAX_NODE_RETRIES
  BY <1>2, <1>11
<1>12. \/ RowBecomes(node', n, node'[n]) /\ node'[n].status = "failed" /\ node'[n].retry = node[n].retry
       \/ /\ sweep[p].seen < MAX_NODE_RETRIES /\ RowBecomes(node', n, node'[n])
          /\ node'[n].status = "pending" /\ node'[n].retry = sweep[p].seen + 1
       \/ \E ne \in Rows :
            /\ RowBecomes(ne, n, ne[n]) /\ ne[n].status = "failed" /\ ne[n].retry = sweep[p].seen + 1
            /\ \A k \in Doomed(ne) : node'[k].status = "skipped" /\ node'[k].retry = ne[k].retry
            /\ \A k \in Nodes \ Doomed(ne) : node'[k] = ne[k]
  BY <1>1, <1>2, SweptIs
<1>13. QED  BY <1>9, <1>10, <1>11, <1>12

\* A launched or working execution that dies leaves a row that owes one.
LEMMA CrashBounded ==
  ASSUME LoadStep, NEW p \in Procs, Crash(p), NEW m \in Nodes
  PROVE  Bounded(m)'
<1>1. Typed /\ sweep \in [Procs -> StaleRow \cup {NoRow}] /\ sweep' = [sweep EXCEPT ![p] = NoRow]
  BY TypesAre DEF LoadStep, GraphTypeOK, Crash
<1>2. /\ node' = node
      /\ \A c \in Copies : exec'[m][c] = exec[m][c] \/ exec'[m][c].at = "none"
  BY <1>1, CrashIs
<1>3. \A q \in Procs : sweep'[q] # NoRow => sweep'[q] = sweep[q]
  BY <1>1
<1>4. LiveOnes(m)' \subseteq LiveOnes(m) /\ Sweepers(m)' \subseteq Sweepers(m)
  BY <1>2, <1>3 DEF LiveOnes, Sweepers, Live
<1>5. Owes(m)' => Owes(m) \/ LiveOnes(m)' # LiveOnes(m)
  <2>1. CASE \E c \in Copies : exec[m][c].at = "launched" /\ exec'[m][c].at # "launched"
    <3>1. PICK c \in Copies : exec[m][c].at = "launched" /\ exec'[m][c].at = "none"
      BY <1>2, <2>1
    <3>2. c \in LiveOnes(m) /\ c \notin LiveOnes(m)'
      BY <3>1 DEF LiveOnes, Live
    <3>3. QED  BY <3>2
  <2>2. CASE \A c \in Copies : exec[m][c].at = "launched" => exec'[m][c].at = "launched"
    BY <1>2, <2>2 DEF Owes
  <2>3. QED  BY <2>1, <2>2
<1>6. Held(m)
  BY <1>4, <1>5, LoadHeld DEF LoadStep, Bounded
<1>7. Follows(m, node'[m].retry)
  BY <1>2 DEF Follows, Carried
<1>8. \A c \in Copies : exec'[m][c].at = "failing" => exec'[m][c] = exec[m][c]
  BY <1>2
<1>9. QED  BY <1>3, <1>6, <1>7, <1>8, BoundedStep DEF LoadStep

\* The requeue at a start owes a launch where it owed a sweep, or is a disturbance.
LEMMA RecoversBounded ==
  ASSUME LoadStep, NEW p \in Procs, Recovers(p), NEW m \in Nodes
  PROVE  Bounded(m)'
<1>1. /\ Typed /\ sweep' = sweep /\ exec' = exec /\ node'[m].retry = node[m].retry
      /\ \/ node'[m] = node[m]
         \/ node[m].status = "running" /\ node'[m].status = "pending"
  BY TypesAre, RecoversIs DEF LoadStep, Recovers
<1>2. LiveOnes(m)' = LiveOnes(m) /\ Sweepers(m)' = Sweepers(m)
  BY <1>1, SweepersStay DEF LiveOnes
<1>3. Owes(m)' => Owes(m) \/ disturbed # disturbed'
  <2>1. CASE node'[m] = node[m]
    BY <1>1, <2>1 DEF Owes, LiveOnes
  <2>2. CASE disturbed' = disturbed /\ node[m].status = "running"
    <3>1. ~Attended(m)
      BY <2>2 DEF Recovers, Disturbs, LoadStep, Grown
    <3>2. LiveOnes(m) = {}
      BY <3>1 DEF Attended, LiveOnes
    <3>3. QED  BY <2>2, <3>2 DEF Owes
  <2>3. QED  BY <1>1, <2>1, <2>2
<1>4. Held(m)
  BY <1>2, <1>3, LoadHeld DEF LoadStep, Bounded
<1>5. Follows(m, node'[m].retry)
  BY <1>1 DEF Follows, Carried
<1>6. QED  BY <1>1, <1>4, <1>5, BoundedStep DEF LoadStep

\* A step that touches no row, no execution and no sweep.
LEMMA StillBounded ==
  ASSUME LoadStep, node' = node, exec' = exec, sweep' = sweep, NEW m \in Nodes
  PROVE  Bounded(m)'
<1>1. SameWork(m)
  BY DEF SameWork
<1>2. QED  BY <1>1, SweepersStay, QuietNode DEF LoadStep

LEMMA ProcessBounded ==
  ASSUME LoadStep, NEW p \in Procs, Process(p), NEW m \in Nodes
  PROVE  Bounded(m)'
<1>1. CASE Advance(p)
  <2>1. Typed /\ disturbed \in Nat /\ node' = node /\ sweep' = sweep
    BY <1>1, TypesAre DEF LoadStep, Grown, Advance
  <2>2. QED  BY <1>1, <2>1, AdvanceIs, LaunchesBounded, StillBounded
<1>2. CASE FactoryAsks(p) \/ CallerCloses(p) \/ Boots(p)
  BY <1>2, StillBounded DEF FactoryAsks, CallerCloses, Boots
<1>3. QED
  BY <1>1, <1>2, SweepReadsBounded, SweepWritesBounded, CrashBounded, RecoversBounded DEF Process

-----------------------------------------------------------------------------
(* The operator, and the theorems.                                         *)

\* A restart in mid-step is a disturbance; any other finds nothing under way, and its
\* counts start anew.
LEMMA RestartsBounded ==
  ASSUME LoadStep, Restarts, NEW m \in Nodes
  PROVE  Bounded(m)'
<1>1. /\ Typed /\ sweep' = sweep /\ exec' = exec /\ Disturbs(MidStep)
      /\ \/ ~Reset(m) /\ node'[m] = node[m]
         \/ Reset(m) /\ node'[m].status = "pending" /\ node'[m].retry = 0
  BY TypesAre, RestartsIs DEF LoadStep, Restarts
<1>2. LiveOnes(m)' = LiveOnes(m) /\ Sweepers(m)' = Sweepers(m)
  BY <1>1, SweepersStay DEF LiveOnes
<1>3. Counts(m) /\ Grown /\ Bounded(m) /\ MAX_NODE_RETRIES \in Nat \ {0}
  BY GraphAssumption DEF LoadStep, Bounded, GraphAssumption
<1>4. CASE ~Reset(m)
  <2>1. SameWork(m)
    BY <1>1 DEF SameWork
  <2>2. QED  BY <1>1, <1>2, <1>4, <2>1, QuietNode DEF LoadStep
<1>5. CASE Reset(m) /\ disturbed' # disturbed
  <2>1. Held(m)
    BY <1>2, <1>3, <1>5, LoadHeld
  <2>2. Follows(m, node'[m].retry)
    BY <1>1, <1>3, <1>5 DEF Follows
  <2>3. QED  BY <1>1, <1>3, <2>1, <2>2, BoundedStep DEF LoadStep
<1>6. CASE Reset(m) /\ disturbed' = disturbed
  <2>1. ~MidStep
    BY <1>1, <1>3, <1>6 DEF Disturbs, Grown
  <2>2. /\ \A c \in Copies : exec'[m][c].at = "none"
        /\ \A q \in Procs : sweep'[q] = NoRow
    BY <1>1, <2>1 DEF MidStep
  <2>3. LiveOnes(m)' = {} /\ Sweepers(m)' = {}
    BY <2>2 DEF LiveOnes, Sweepers, Live
  <2>4. Counts(m)' /\ Load(m)' <= 1 /\ Load(m)' \in Nat
    BY <2>3, FS_EmptySet DEF Counts, Load
  <2>5. Carried(m)' = {0}
    BY <1>1, <1>6, <2>2 DEF Carried
  <2>6. Excess(0) = 0
    BY <1>3 DEF Excess
  <2>7. QED  BY <1>3, <2>4, <2>5, <2>6 DEF Bounded, Grown
<1>7. QED  BY <1>1, <1>4, <1>5, <1>6

LEMMA LoadInit == Init => LoadBounded
<1> SUFFICES ASSUME Init PROVE LoadBounded
  OBVIOUS
<1>1. GraphTypeOK
  BY SoundInit DEF Sound
<1>2. /\ \A n \in Nodes : node[n].retry = 0
      /\ \A n \in Nodes, c \in Copies : exec[n][c].at = "none"
      /\ \A p \in Procs : sweep[p] = NoRow
      /\ disturbed = 0
  BY NobodyIs DEF Init
<1>3. ASSUME NEW n \in Nodes
      PROVE  Bounded(n)
  <2>1. LiveOnes(n) = {} /\ Sweepers(n) = {}
    BY <1>2 DEF LiveOnes, Sweepers, Live
  <2>2. Counts(n) /\ Load(n) <= 1 /\ Load(n) \in Nat
    BY <2>1, FS_EmptySet DEF Counts, Load
  <2>3. Carried(n) = {0}
    BY <1>2 DEF Carried
  <2>4. Excess(0) = 0
    BY GraphAssumption DEF Excess, GraphAssumption
  <2>5. QED  BY <1>2, <2>2, <2>3, <2>4 DEF Bounded
<1>4. QED  BY <1>1, <1>3 DEF LoadBounded

LEMMA LoadBoundedStep == LoadBounded /\ [Next]_vars => LoadBounded'
<1> SUFFICES ASSUME LoadBounded, [Next]_vars PROVE LoadBounded'
  OBVIOUS
<1>1. LoadStep /\ GraphTypeOK'
  BY GraphTypeStep, DisturbedGrows DEF LoadBounded, LoadStep, Grown
<1>2. ASSUME NEW m \in Nodes
      PROVE  Bounded(m)'
  <2>1. CASE Decides \/ GetsBrand \/ FactoryPlans \/ FactorySettles \/ FactoryReopens \/ UNCHANGED vars
    BY <1>1, <2>1, StillBounded
       DEF Decides, GetsBrand, FactoryPlans, FactorySettles, FactoryReopens, vars
  <2>2. QED  BY <1>1, <2>1, ExecutesBounded, ProcessBounded, RestartsBounded DEF Next, Outside
<1>3. QED  BY <1>1, <1>2 DEF LoadBounded

LEMMA LoadAlwaysBounded == Spec => []LoadBounded
BY LoadInit, LoadBoundedStep, PTL DEF Spec

\* What the bound says of one node.
LEMMA BoundIs ==
  ASSUME LoadBounded, NEW n \in Nodes
  PROVE  /\ disturbed \in Nat /\ node[n].retry \in Nat /\ Cardinality(LiveOnes(n)) \in Nat
         /\ Cardinality(LiveOnes(n)) <= Load(n) /\ Load(n) \in Nat /\ (Owes(n) => Load(n) >= 1)
         /\ Excess(node[n].retry) + Load(n) <= 1 + disturbed /\ Excess(node[n].retry) \in Nat
<1>1. GraphTypeOK /\ Bounded(n) /\ MAX_NODE_RETRIES \in Nat
  BY GraphAssumption DEF LoadBounded, GraphAssumption
<1>2. disturbed \in Nat /\ node[n].retry \in Nat
  BY <1>1, CarriedNat, GraphAssumption DEF GraphTypeOK, GraphAssumption
<1>3. /\ Cardinality(LiveOnes(n)) \in Nat /\ Cardinality(Sweepers(n)) \in Nat /\ Load(n) \in Nat
      /\ Load(n) = Cardinality(LiveOnes(n)) + Cardinality(Sweepers(n)) + (IF Owes(n) THEN 1 ELSE 0)
  BY <1>1, LoadNat DEF Bounded, Load
<1>4. Excess(node[n].retry) + Load(n) <= 1 + disturbed /\ Excess(node[n].retry) \in Nat
  BY <1>1, <1>2 DEF Bounded, Carried, Excess
<1>5. QED  BY <1>2, <1>3, <1>4

\* Every execution of a node beyond the first has been paid for by a launch or requeue of
\* a row over a live execution, however many crashes, sweeps and retries there are.
THEOREM ExecutionsAreBounded == Spec => []BoundedExecutions
<1>1. LoadBounded => BoundedExecutions
  BY BoundIs DEF BoundedExecutions
<1>2. QED  BY <1>1, LoadAlwaysBounded, PTL

\* So has every retry beyond the budget, counted by whatever execution or sweep.
THEOREM RetriesWithinBudget == Spec => []RetryBudget
<1>1. ASSUME LoadBounded, NEW n \in Nodes
      PROVE  /\ node[n].status \in {"pending", "running"} => node[n].retry <= MAX_NODE_RETRIES + disturbed
             /\ node[n].retry <= MAX_NODE_RETRIES + 1 + disturbed
  <2>1. MAX_NODE_RETRIES \in Nat
    BY GraphAssumption DEF GraphAssumption
  <2>2. node[n].retry <= MAX_NODE_RETRIES + Excess(node[n].retry)
    BY <1>1, <2>1, BoundIs DEF Excess
  <2>3. ASSUME node[n].status \in {"pending", "running"}
        PROVE  Load(n) >= 1
    <3>1. CASE Owes(n)
      BY <1>1, <3>1, BoundIs
    <3>2. CASE ~Owes(n)
      <4>1. LiveOnes(n) # {} /\ IsFiniteSet(LiveOnes(n))
        BY <1>1, <2>3, <3>2 DEF Owes, LiveOnes, Live, LoadBounded, Bounded, Counts
      <4>2. Cardinality(LiveOnes(n)) # 0
        BY <4>1, FS_EmptySet
      <4>3. QED  BY <1>1, <4>2, BoundIs
    <3>3. QED  BY <3>1, <3>2
  <2>4. QED  BY <1>1, <2>1, <2>2, <2>3, BoundIs
<1>2. LoadBounded => RetryBudget
  BY <1>1 DEF RetryBudget
<1>3. QED  BY <1>2, LoadAlwaysBounded, PTL
=============================================================================
