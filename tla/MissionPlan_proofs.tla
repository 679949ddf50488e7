-------------------------- MODULE MissionPlan_proofs --------------------------
(***************************************************************************)
(* What TaskGraph does for a mission as a whole while nothing is           *)
(* disturbed, for any graph and any bounds: no node is left waiting behind *)
(* a lost one, and the rows implement MissionPlan.  Both rest on the       *)
(* invariant of TaskGraph_proofs.                                          *)
(***************************************************************************)
EXTENDS TaskGraph_proofs

-----------------------------------------------------------------------------
(* No node is left behind.                                                 *)

Exposed(nd, k) ==
  nd[k].status = "pending" /\ \E d \in Deps[k] : nd[d].status \in {"failed", "skipped"}

\* A proposed mission has not begun.
Fresh ==
  mission = "proposed" =>
    /\ \A n \in Nodes : node[n].status = "pending"
    /\ \A n \in Nodes, c \in Copies : exec[n][c].at = "none"
    /\ \A p \in Procs : caller[p] = "idle" /\ sweep[p] = NoRow

\* What an execution is going to skip takes in the pending nodes behind it.
DoomClosed ==
  \A n \in Nodes, c \in Copies : \A j \in exec[n][c].doomed, k \in Nodes :
    node[k].status = "pending" /\ j \in Deps[k] => k \in exec[n][c].doomed

\* A sweep fails a row without a skip only in a mission that is over.
OverStays ==
  \A p \in Procs : sweep[p] # NoRow /\ sweep[p].over => mission \notin Active \/ AllTerminal(node)

Covered ==
  ~skipLost /\ mission \in Active =>
    \A k \in Nodes : Exposed(node, k) => \E n \in Nodes, c \in Copies : k \in exec[n][c].doomed

Kept == Fresh /\ DoomClosed /\ OverStays /\ Covered

\* What every lemma below assumes.
CalmState ==
  /\ GraphTypeOK /\ Calm
  /\ node \in Rows /\ exec \in Runs /\ disturbed \in Nat
  /\ Placed(node, exec)
  /\ \A n \in Nodes : Deps[n] \subseteq Nodes

LEMMA CalmStateIs == GraphTypeOK /\ Calm => CalmState
BY TypesAre, GraphAssumption DEF CalmState, GraphTypeOK, GraphAssumption, Typed, Calm

\* A step that neither exposes a pending node nor drops a doom.
LEMMA CoveredKept ==
  ASSUME Covered, mission' \in Active => mission \in Active, ~skipLost' => ~skipLost,
         \A k \in Nodes : Exposed(node', k) => Exposed(node, k),
         ~skipLost' => \A n \in Nodes, c \in Copies :
           exec[n][c].doomed = {} \/ exec'[n][c].doomed = exec[n][c].doomed
  PROVE  Covered'
<1> SUFFICES ASSUME ~skipLost', mission' \in Active, NEW k \in Nodes, Exposed(node', k)
             PROVE  \E n \in Nodes, c \in Copies : k \in exec'[n][c].doomed
  BY DEF Covered
<1>1. PICK n \in Nodes, c \in Copies : k \in exec[n][c].doomed
  BY DEF Covered
<1>2. exec'[n][c].doomed = exec[n][c].doomed
  BY <1>1
<1>3. QED  BY <1>1, <1>2

\* When every row is terminal, no node is exposed.
LEMMA CoveredTerminal ==
  ASSUME AllTerminal(node') PROVE Covered'
BY DEF AllTerminal, Terminal, Covered, Exposed

\* A step after which a node is pending only if it was, or has all it waits for.
LEMMA DoomClosedKept ==
  ASSUME CalmState, DoomClosed,
         \A k \in Nodes : node'[k].status = "pending" => node[k].status = "pending" \/ DepsDone(node, k),
         \A n \in Nodes, c \in Copies : exec'[n][c].doomed \in {exec[n][c].doomed, {}}
  PROVE  DoomClosed'
<1> SUFFICES ASSUME NEW n \in Nodes, NEW c \in Copies, NEW j \in exec'[n][c].doomed, NEW k \in Nodes,
                    node'[k].status = "pending", j \in Deps[k]
             PROVE  k \in exec'[n][c].doomed
  BY DEF DoomClosed
<1>1. exec'[n][c].doomed = exec[n][c].doomed
  OBVIOUS
<1>2. DoomFits(node, j, exec[n][c].doomed)
  BY <1>1 DEF CalmState, Placed, Dooming
<1>3. ~DepsDone(node, k)
  BY <1>2 DEF DepsDone, DoomFits
<1>4. QED  BY <1>1, <1>3 DEF DoomClosed

-----------------------------------------------------------------------------
(* Steps of an execution.                                                  *)

\* The row of a node at work changes, but for a failure for good.
LEMMA WriteExposesNothing ==
  ASSUME CalmState, NEW n \in Nodes, RowBecomes(node', n, node'[n]),
         node[n].status = "running" \/ \E c \in Copies : Live(exec[n][c]),
         node'[n].status \in {"pending", "running", "completed"}
  PROVE  /\ \A k \in Nodes : Exposed(node', k) => Exposed(node, k)
         /\ \A k \in Nodes : node'[k].status = "pending" =>
              node[k].status = "pending" \/ DepsDone(node, k)
<1>1. DepsDone(node, n) /\ n \notin Deps[n]
  BY AtWorkIs DEF CalmState
<1>2. \A m \in Nodes : m # n => node'[m] = node[m]
  BY DEF RowBecomes
<1>3. ASSUME NEW k \in Nodes, Exposed(node', k)
      PROVE  Exposed(node, k)
  <2>1. PICK d \in Deps[k] : node'[d].status \in {"failed", "skipped"}
    BY <1>3 DEF Exposed
  <2>2. d \in Nodes /\ d # n /\ node[d] = node'[d]
    BY <1>2, <2>1 DEF CalmState
  <2>3. k # n
    BY <1>1, <2>1, <2>2 DEF DepsDone
  <2>4. QED  BY <1>2, <1>3, <2>1, <2>2, <2>3 DEF Exposed
<1>4. QED  BY <1>1, <1>2, <1>3

LEMMA ExecutesCovered ==
  ASSUME CalmState, Kept, CalmState', disturbed' = disturbed, NEW n \in Nodes, NEW c \in Copies,
         Executes(n, c)
  PROVE  DoomClosed' /\ Covered'
<1>1. Typed /\ Covered /\ DoomClosed
  BY DEF CalmState, Typed, Kept
<1>2. exec[n][c].at # "skipping" => exec[n][c].doomed = {}
  BY DEF CalmState, Placed, Dooming
<1>3. skipLost' = skipLost
  BY DEF Executes, MarksRunning, MarksInFlight, FailsEarly, Succeeds, Fails, FailsAgain, FailsForGood, SkipsBlocked,
         GoesOn, Closes, AdvancesLast
<1>4. ASSUME RowChanges(n), RunChanges(n, c), Live(exec[n][c]), exec'[n][c].doomed = {},
             node'[n].status \in {"pending", "running", "completed"},
             mission' \in Active => mission \in Active
      PROVE  DoomClosed' /\ Covered'
  <2>1. /\ \A k \in Nodes : Exposed(node', k) => Exposed(node, k)
        /\ \A k \in Nodes : node'[k].status = "pending" =>
             node[k].status = "pending" \/ DepsDone(node, k)
    BY <1>4, WriteExposesNothing DEF RowChanges
  <2>2. exec[n][c].doomed = {}
    BY <1>2, <1>4 DEF Live
  <2>3. \A m \in Nodes, d \in Copies : exec'[m][d].doomed = exec[m][d].doomed
    BY <1>4, <2>2 DEF RunChanges, RunBecomes
  <2>4. DoomClosed'
    BY <1>1, <2>1, <2>3, DoomClosedKept
  <2>5. Covered'
    BY <1>1, <1>3, <1>4, <2>1, <2>3, CoveredKept
  <2>6. QED  BY <2>4, <2>5
<1>5. CASE MarksRunning(n, c)
  <2>1. Live(exec[n][c]) /\ (mission' \in Active => mission \in Active)
    BY <1>5 DEF MarksRunning, At, Live
  <2>2. QED  BY <1>1, <1>4, <1>5, <2>1, MarksRunningIs
<1>6. CASE FailsEarly(n, c) \/ Succeeds(n, c) \/ FailsAgain(n, c)
  <2>1. Live(exec[n][c]) /\ mission' = mission
    BY <1>6 DEF FailsEarly, Succeeds, FailsAgain, At, Live
  <2>2. QED  BY <1>1, <1>4, <1>6, <2>1, FailsEarlyIs, SucceedsIs, FailsAgainIs
<1>7. CASE FailsForGood(n, c)
  <2>1. /\ node' \in Rows /\ RunChanges(n, c) /\ exec'[n][c].doomed = Doomed(node')
        /\ node'[n].status = "failed" /\ RowChanges(n)
    BY <1>1, <1>7, FailsForGoodIs DEF RowChanges, RowBecomes
  <2>2. ASSUME NEW k \in Nodes, node'[k].status = "pending", NEW j \in Deps[k],
               node'[j].status \in {"failed", "skipped"} \/ j \in Doomed(node')
        PROVE  k \in exec'[n][c].doomed
    <3>1. j \in Nodes
      BY DEF CalmState
    <3>2. QED  BY <2>1, <2>2, <3>1, DoomedCloses
  <2>3. Covered'
    <3>1. ASSUME NEW k \in Nodes, Exposed(node', k)
          PROVE  k \in exec'[n][c].doomed
      BY <2>2, <3>1 DEF Exposed
    <3>2. QED  BY <3>1 DEF Covered
  <2>4. \A k \in Nodes : node'[k].status = "pending" => node[k].status = "pending"
    BY <2>1 DEF RowChanges, RowBecomes
  <2>5. ASSUME NEW m \in Nodes, NEW d \in Copies, NEW j \in exec'[m][d].doomed, NEW k \in Nodes,
               node'[k].status = "pending", j \in Deps[k]
        PROVE  k \in exec'[m][d].doomed
    <3>1. CASE m = n /\ d = c
      BY <2>1, <2>2, <2>5, <3>1
    <3>2. CASE m # n \/ d # c
      <4>1. exec'[m][d] = exec[m][d]
        BY <2>1, <3>2 DEF RunChanges, RunBecomes
      <4>2. QED  BY <1>1, <2>4, <2>5, <4>1 DEF DoomClosed
    <3>3. QED  BY <3>1, <3>2
  <2>6. DoomClosed'
    BY <2>5 DEF DoomClosed
  <2>7. QED  BY <2>3, <2>6
<1>8. CASE SkipsBlocked(n, c)
  <2> DEFINE D == exec[n][c].doomed
  <2>1. /\ \A m \in D : m \in Nodes /\ node'[m].status = "skipped"
        /\ \A m \in Nodes \ D : node'[m] = node[m]
        /\ RunChanges(n, c) /\ exec'[n][c].doomed = {} /\ mission' = mission
    BY <1>1, <1>8, SkipsBlockedIs DEF SkipsBlocked
  <2>2. \A m \in Nodes, d \in Copies : m # n \/ d # c => exec'[m][d] = exec[m][d]
    BY <2>1 DEF RunChanges, RunBecomes
  <2>3. ASSUME NEW k \in Nodes, Exposed(node', k)
        PROVE  k \notin D /\ Exposed(node, k)
    <3>1. k \notin D /\ node[k].status = "pending"
      BY <2>1, <2>3 DEF Exposed
    <3>2. PICK d \in Deps[k] : node'[d].status \in {"failed", "skipped"}
      BY <2>3 DEF Exposed
    <3>3. d \notin D
      BY <1>1, <3>1, <3>2 DEF DoomClosed
    <3>4. node[d].status \in {"failed", "skipped"}
      BY <2>1, <3>2, <3>3 DEF CalmState
    <3>5. QED  BY <3>1, <3>2, <3>4 DEF Exposed
  <2>4. Covered'
    <3>1. ASSUME ~skipLost', mission' \in Active, NEW k \in Nodes, Exposed(node', k)
          PROVE  \E m \in Nodes, d \in Copies : k \in exec'[m][d].doomed
      <4>1. k \notin D /\ Exposed(node, k)
        BY <2>3, <3>1
      <4>2. PICK m \in Nodes, d \in Copies : k \in exec[m][d].doomed
        BY <1>1, <1>3, <2>1, <3>1, <4>1 DEF Covered
      <4>3. QED  BY <2>2, <4>1, <4>2
    <3>2. QED  BY <3>1 DEF Covered
  <2>5. DoomClosed'
    <3>1. \A k \in Nodes : node'[k].status = "pending" => node[k].status = "pending"
      BY <2>1
    <3>2. \A m \in Nodes, d \in Copies : exec'[m][d].doomed \in {exec[m][d].doomed, {}}
      BY <2>1, <2>2
    <3>3. QED  BY <1>1, <3>1, <3>2, DoomClosedKept
  <2>6. QED  BY <2>4, <2>5
<1>9. ASSUME node' = node,
             \A m \in Nodes, d \in Copies : exec'[m][d].doomed = exec[m][d].doomed,
             AllTerminal(node) \/ (mission' \in Active => mission \in Active)
      PROVE  DoomClosed' /\ Covered'
  <2>1. DoomClosed'
    BY <1>1, <1>9, DoomClosedKept
  <2>2. Covered'
    BY <1>1, <1>3, <1>9, CoveredKept, CoveredTerminal
  <2>3. QED  BY <2>1, <2>2
<1>10. CASE MarksInFlight(n, c) \/ Fails(n, c) \/ Closes(n, c)
  <2>1. node' = node /\ RunChanges(n, c) /\ exec'[n][c].doomed = {}
    BY <1>1, <1>10, MarksInFlightIs, FailsIs, ClosesIs
  <2>2. AllTerminal(node) \/ (mission' \in Active => mission \in Active)
    BY <1>10 DEF MarksInFlight, Active, Fails, Closes, At, CalmState, Placed, InStep, Closing
  <2>3. exec[n][c].doomed = {}
    BY <1>2, <1>10 DEF MarksInFlight, Fails, Closes, At
  <2>4. \A m \in Nodes, d \in Copies : exec'[m][d].doomed = exec[m][d].doomed
    BY <2>1, <2>3 DEF RunChanges, RunBecomes
  <2>5. QED  BY <1>9, <2>1, <2>2, <2>4
<1>11. CASE GoesOn(n, c) \/ AdvancesLast(n, c)
  <2>1. node' = node /\ mission' = mission
    BY <1>11 DEF GoesOn, AdvancesLast
  <2>2. \A m \in Nodes, d \in Copies : exec'[m][d].doomed = exec[m][d].doomed
    <3>1. CASE \E R : Launches(R)
      <4>1. \A m \in Nodes, d \in Copies : exec[m][d].at # "skipping" => exec[m][d].doomed = {}
        BY DEF CalmState, Placed, Dooming
      <4>2. ASSUME NEW m \in Nodes, NEW d \in Copies, exec'[m][d] # exec[m][d]
            PROVE  exec[m][d].at # "skipping" /\ exec'[m][d].doomed = {}
        BY <3>1, <4>2 DEF Launches
      <4>3. QED  BY <4>1, <4>2
    <3>2. CASE Verdict(n, c)
      <4>1. exec[n][c].doomed = {}
        BY <1>2, <1>11 DEF GoesOn, AdvancesLast, At
      <4>2. QED  BY <3>2, <4>1 DEF Verdict, RunChanges, RunBecomes
    <3>3. QED  BY <1>1, <1>11, <3>1, <3>2, GoesOnIs, AdvancesLastIs DEF CalmState
  <2>3. QED  BY <1>9, <2>1, <2>2
<1>12. QED
  BY <1>5, <1>6, <1>7, <1>8, <1>10, <1>11 DEF Executes

-----------------------------------------------------------------------------
(* Steps of a process and of the operator.                                 *)

LEMMA SweepCovered ==
  ASSUME CalmState, Kept, disturbed' = disturbed, NEW p \in Procs, SweepWrites(p)
  PROVE  DoomClosed' /\ Covered'
<1> DEFINE n == sweep[p].node
<1>1. /\ sweep[p] \in StaleRow /\ n \in Nodes /\ node[n].status = "running"
      /\ node' = Swept(sweep[p]) /\ exec' = exec /\ sweep[p] # NoRow
  BY SweepIs DEF CalmState, SweepWrites
<1>2. Typed /\ Covered /\ DoomClosed /\ mission' = mission /\ skipLost' = skipLost
  BY DEF CalmState, Typed, Kept, SweepWrites
<1>3. /\ DepsDone(node, n) /\ ~AllTerminal(node)
      /\ \A m \in Nodes : DepsDone(node, m) => n \notin Deps[m]
  BY <1>1, AtWorkIs DEF CalmState
<1>4. DoomClosed'
  <2>1. \A k \in Nodes : node'[k].status = "pending" => node[k].status = "pending" \/ DepsDone(node, k)
    <3>1. ASSUME RowBecomes(node', n, node'[n])
          PROVE  \A k \in Nodes : k # n => node'[k] = node[k]
      BY <3>1 DEF RowBecomes
    <3>2. ASSUME NEW ne \in Rows, RowBecomes(ne, n, ne[n]),
                 \A m \in Doomed(ne) : node'[m].status = "skipped",
                 \A m \in Nodes \ Doomed(ne) : node'[m] = ne[m]
          PROVE  \A k \in Nodes : k # n /\ node'[k].status = "pending" => node[k].status = "pending"
      BY <3>2 DEF RowBecomes
    <3>3. \A k \in Nodes : k # n /\ node'[k].status = "pending" => node[k].status = "pending"
      BY <1>1, <1>2, <3>1, <3>2, SweptIs
    <3>4. QED  BY <1>3, <3>3
  <2>2. QED  BY <1>1, <1>2, <2>1, DoomClosedKept
<1>5. CASE sweep[p].over
  <2>1. mission \notin Active
    BY <1>1, <1>3, <1>5 DEF Kept, OverStays
  <2>2. QED  BY <1>2, <1>4, <2>1 DEF Covered
<1>6. CASE RowBecomes(node', n, node'[n]) /\ node'[n].status = "pending"
  <2>1. \A k \in Nodes : Exposed(node', k) => Exposed(node, k)
    BY <1>1, <1>6, WriteExposesNothing
  <2>2. Covered'
    BY <1>1, <1>2, <2>1, CoveredKept
  <2>3. QED  BY <1>4, <2>2
<1>7. ASSUME NEW ne \in Rows,
             \A m \in Doomed(ne) : node'[m].status = "skipped",
             \A m \in Nodes \ Doomed(ne) : node'[m] = ne[m]
      PROVE  Covered'
  <2>1. ASSUME NEW k \in Nodes, Exposed(node', k)
        PROVE  FALSE
    <3>1. k \notin Doomed(ne) /\ ne[k].status = "pending"
      BY <1>7, <2>1 DEF Exposed
    <3>2. PICK d \in Deps[k] : node'[d].status \in {"failed", "skipped"}
      BY <2>1 DEF Exposed
    <3>3. d \in Nodes /\ (ne[d].status \in {"failed", "skipped"} \/ d \in Doomed(ne))
      BY <1>7, <3>2 DEF CalmState
    <3>4. QED  BY <1>7, <3>1, <3>3, DoomedCloses
  <2>2. QED  BY <2>1 DEF Covered
<1>8. CASE ~sweep[p].over
  BY <1>1, <1>2, <1>4, <1>6, <1>7, <1>8, SweptIs
<1>9. QED  BY <1>5, <1>8

LEMMA ProcessCovered ==
  ASSUME CalmState, Kept, disturbed' = disturbed, NEW p \in Procs, Process(p)
  PROVE  DoomClosed' /\ Covered'
<1>1. Typed /\ Covered /\ DoomClosed
  BY DEF CalmState, Typed, Kept
<1>2. \A m \in Nodes, d \in Copies : exec[m][d].at # "skipping" => exec[m][d].doomed = {}
  BY DEF CalmState, Placed, Dooming
<1>3. ASSUME node' = node, skipLost' = skipLost,
             \A m \in Nodes, d \in Copies : exec'[m][d].doomed = exec[m][d].doomed,
             mission' = mission \/ AllTerminal(node)
      PROVE  DoomClosed' /\ Covered'
  <2>1. DoomClosed'
    BY <1>1, <1>3, DoomClosedKept
  <2>2. Covered'
    BY <1>1, <1>3, CoveredKept, CoveredTerminal
  <2>3. QED  BY <2>1, <2>2
<1>4. CASE Advance(p)
  <2>1. node' = node /\ skipLost' = skipLost /\ mission' = mission
    BY <1>4 DEF Advance
  <2>2. CASE Launches(Ready(node))
    <3>1. ASSUME NEW m \in Nodes, NEW d \in Copies, exec'[m][d] # exec[m][d]
          PROVE  exec[m][d].at # "skipping" /\ exec'[m][d].doomed = {}
      BY <2>2, <3>1 DEF Launches
    <3>2. QED  BY <1>2, <1>3, <2>1, <3>1
  <2>3. CASE exec' = exec
    BY <1>3, <2>1, <2>3
  <2>4. QED  BY <1>1, <1>4, <2>2, <2>3, AdvanceIs DEF CalmState
<1>5. CASE FactoryAsks(p) \/ CallerCloses(p) \/ (\E n \in Nodes : SweepReads(p, n)) \/ Boots(p)
  <2>1. node' = node /\ skipLost' = skipLost /\ exec' = exec
    BY <1>5 DEF FactoryAsks, CallerCloses, SweepReads, Boots
  <2>2. mission' = mission \/ AllTerminal(node)
    BY <1>5 DEF FactoryAsks, CallerCloses, SweepReads, Boots, CalmState, Calm, Verdicts
  <2>3. QED  BY <1>3, <2>1, <2>2
<1>6. CASE SweepWrites(p)
  BY <1>6, SweepCovered
<1>7. CASE Crash(p)
  <2>1. /\ node' = node /\ mission' = mission
        /\ skipLost' = (skipLost \/ \E n \in Nodes : \E c \in Copies :
                                      exec[n][c].proc = p /\ exec[n][c].doomed # {})
    BY <1>7 DEF Crash
  <2>2. \A m \in Nodes, d \in Copies :
          exec'[m][d] = exec[m][d] \/ (exec[m][d].proc = p /\ exec'[m][d].doomed = {})
    BY <1>1, <1>7, CrashIs
  <2>3. DoomClosed'
    BY <1>1, <2>1, <2>2, DoomClosedKept
  <2>4. ~skipLost' => ~skipLost /\ \A m \in Nodes, d \in Copies :
          exec[m][d].doomed = {} \/ exec'[m][d].doomed = exec[m][d].doomed
    BY <2>1, <2>2
  <2>5. Covered'
    BY <1>1, <2>1, <2>4, CoveredKept
  <2>6. QED  BY <2>3, <2>5
<1>8. CASE Recovers(p)
  <2>1. exec' = exec /\ mission' = mission /\ skipLost' = skipLost
    BY <1>8 DEF Recovers
  <2>2. \A n \in Nodes : \/ node'[n] = node[n] /\ node[n].status # "running"
                         \/ node[n].status = "running" /\ node'[n].status = "pending"
    BY <1>1, <1>8, RecoversIs
  <2>3. \A k \in Nodes : node[k].status = "running" => DepsDone(node, k)
    BY AtWorkIs DEF CalmState
  <2>4. ASSUME NEW k \in Nodes, Exposed(node', k)
        PROVE  Exposed(node, k)
    <3>1. PICK d \in Deps[k] : node'[d].status \in {"failed", "skipped"}
      BY <2>4 DEF Exposed
    <3>2. node[d].status \in {"failed", "skipped"}
      BY <2>2, <3>1 DEF CalmState
    <3>3. ~DepsDone(node, k)
      BY <3>2 DEF DepsDone
    <3>4. node[k].status = "pending"
      BY <2>2, <2>3, <2>4, <3>3 DEF Exposed
    <3>5. QED  BY <3>2, <3>4 DEF Exposed
  <2>5. DoomClosed'
    BY <1>1, <2>1, <2>2, <2>3, DoomClosedKept
  <2>6. Covered'
    BY <1>1, <2>1, <2>4, CoveredKept
  <2>7. QED  BY <2>5, <2>6
<1>9. QED  BY <1>4, <1>5, <1>6, <1>7, <1>8 DEF Process

LEMMA OutsideCovered ==
  ASSUME CalmState, Kept, disturbed' = disturbed, Outside \/ UNCHANGED vars
  PROVE  DoomClosed' /\ Covered'
<1>1. Typed /\ Covered /\ DoomClosed
  BY DEF CalmState, Typed, Kept
<1>2. CASE Restarts
  <2>1. \A n \in Nodes, c \in Copies : exec'[n][c].doomed = {}
    BY <1>1, <1>2, RestartIsQuiet, RestartsIs DEF CalmState, Placed, Dooming
  <2>2. \A n \in Nodes : node'[n].status \notin {"failed", "skipped"}
    BY <1>1, <1>2, RestartsIs DEF Reset
  <2>3. \A k \in Nodes : ~Exposed(node', k)
    BY <2>2 DEF Exposed, CalmState
  <2>4. QED  BY <2>1, <2>3 DEF DoomClosed, Covered
<1>3. CASE Decides
  <2>1. node' = node /\ exec' = exec /\ skipLost' = skipLost
    BY <1>3 DEF Decides
  <2>2. DoomClosed'
    BY <1>1, <2>1, DoomClosedKept
  <2>3. CASE mission = "proposed"
    <3>1. \A k \in Nodes : ~Exposed(node', k)
      BY <2>1, <2>3 DEF Kept, Fresh, Exposed, CalmState
    <3>2. QED  BY <2>2, <3>1 DEF Covered
  <2>4. CASE mission # "proposed"
    <3>1. mission' \notin Active
      BY <1>3, <2>4 DEF Decides, Active
    <3>2. QED  BY <2>2, <3>1 DEF Covered
  <2>5. QED  BY <2>3, <2>4
<1>4. CASE GetsBrand \/ FactoryPlans \/ FactorySettles \/ FactoryReopens \/ UNCHANGED vars
  <2>1. node' = node /\ exec' = exec /\ skipLost' = skipLost /\ mission' = mission
    BY <1>4 DEF GetsBrand, FactoryPlans, FactorySettles, FactoryReopens, vars
  <2>2. DoomClosed'
    BY <1>1, <2>1, DoomClosedKept
  <2>3. Covered'
    BY <1>1, <2>1, CoveredKept
  <2>4. QED  BY <2>2, <2>3
<1>5. QED  BY <1>2, <1>3, <1>4 DEF Outside

LEMMA FreshStep ==
  ASSUME CalmState, Kept, [Next]_vars
  PROVE  Fresh'
<1> SUFFICES ASSUME mission' = "proposed" PROVE Fresh'
  BY DEF Fresh
<1>1. ASSUME mission = "proposed"
      PROVE  Fresh'
  <2>1. /\ \A n \in Nodes : node[n].status = "pending"
        /\ \A n \in Nodes, c \in Copies : exec[n][c].at = "none"
        /\ \A p \in Procs : caller[p] = "idle" /\ sweep[p] = NoRow
    BY <1>1 DEF Kept, Fresh
  <2>2. ~AllTerminal(node)
    BY <2>1 DEF AllTerminal, Terminal
  <2>3. \A n \in Nodes, c \in Copies : ~Executes(n, c)
    BY <2>1 DEF Executes, MarksRunning, MarksInFlight, FailsEarly, Succeeds, Fails, FailsAgain, FailsForGood,
                SkipsBlocked, GoesOn, Closes, AdvancesLast, At
  <2>4. ASSUME NEW p \in Procs, Process(p)
        PROVE  Fresh'
    <3>1. Crash(p) \/ Boots(p) \/ Recovers(p)
      BY <1>1, <2>1, <2>2, <2>4 DEF Process, Advance, FactoryAsks, CallerCloses, SweepReads,
         SweepWrites, Active
    <3>2. CASE Crash(p)
      <4>1. \A n \in Nodes, c \in Copies : exec'[n][c].at = "none"
        BY <2>1, <3>2, CrashIs DEF CalmState, Typed
      <4>2. \A q \in Procs : caller'[q] = "idle" /\ sweep'[q] = NoRow
        BY <2>1, <3>2 DEF Crash, CalmState, GraphTypeOK
      <4>3. QED  BY <2>1, <3>2, <4>1, <4>2 DEF Crash, Fresh
    <3>3. CASE Boots(p)
      BY <2>1, <3>3 DEF Boots, Fresh
    <3>4. CASE Recovers(p)
      <4>1. \A n \in Nodes : node'[n] = node[n]
        BY <2>1, <3>4, RecoversIs DEF CalmState, Typed
      <4>2. QED  BY <2>1, <3>4, <4>1 DEF Recovers, Fresh
    <3>5. QED  BY <3>1, <3>2, <3>3, <3>4
  <2>5. CASE Outside \/ UNCHANGED vars
    <3>1. ~Restarts
      BY <1>1 DEF Restarts, Active
    <3>2. UNCHANGED <<node, exec, caller, sweep>>
      BY <2>5, <3>1 DEF Outside, Decides, GetsBrand, FactoryPlans, FactorySettles, FactoryReopens, vars
    <3>3. QED  BY <2>1, <3>2 DEF Fresh
  <2>6. QED  BY <2>3, <2>4, <2>5 DEF Next
<1>2. mission = "proposed"
  <2>1. ASSUME NEW n \in Nodes, NEW c \in Copies, Executes(n, c)
        PROVE  mission' = mission \/ mission' # "proposed"
    BY <2>1 DEF Executes, MarksRunning, MarksInFlight, FailsEarly, Succeeds, Fails, FailsAgain, FailsForGood,
       SkipsBlocked, GoesOn, Closes, AdvancesLast, Closed
  <2>2. ASSUME NEW p \in Procs, Process(p)
        PROVE  mission' = mission \/ mission' # "proposed"
    BY <2>2 DEF Process, Advance, FactoryAsks, CallerCloses, SweepReads, SweepWrites, Crash,
       Boots, Recovers, Closed
  <2>3. CASE Outside \/ UNCHANGED vars
    BY <2>3 DEF Outside, Decides, Restarts, GetsBrand, FactoryPlans, FactorySettles, FactoryReopens, vars
  <2>4. QED  BY <2>1, <2>2, <2>3 DEF Next
<1>3. QED  BY <1>1, <1>2

LEMMA OverStep ==
  ASSUME CalmState, Kept, disturbed' = disturbed, [Next]_vars
  PROVE  OverStays'
<1>1. OverStays /\ sweep \in [Procs -> StaleRow \cup {NoRow}]
  BY DEF Kept, CalmState, GraphTypeOK
<1>2. CASE Restarts
  <2>1. \A p \in Procs : sweep'[p] = NoRow
    BY <1>2, RestartIsQuiet DEF CalmState, Restarts
  <2>2. QED  BY <2>1 DEF OverStays
<1>3. CASE mission = "proposed" /\ Decides
  <2>1. \A p \in Procs : sweep'[p] = NoRow
    BY <1>3 DEF Kept, Fresh, Decides
  <2>2. QED  BY <2>1 DEF OverStays
<1>4. CASE AllTerminal(node) /\ ~Restarts
  <2>1. AllTerminal(node')
    BY <1>4, TerminalStays DEF CalmState
  <2>2. QED  BY <2>1 DEF OverStays
<1>5. CASE ~AllTerminal(node) /\ ~Restarts /\ ~(mission = "proposed" /\ Decides)
  <2>1. mission' \in Active => mission \in Active
    <3>1. ASSUME NEW n \in Nodes, NEW c \in Copies, Executes(n, c)
          PROVE  mission' \in Active => mission \in Active
      <4>1. ~Closes(n, c)
        BY <1>5 DEF Closes, At, CalmState, Placed, InStep, Closing
      <4>2. QED  BY <3>1, <4>1 DEF Executes, MarksRunning, MarksInFlight, FailsEarly, Succeeds, Fails, FailsAgain,
                 FailsForGood, SkipsBlocked, GoesOn, AdvancesLast, Active
    <3>2. ASSUME NEW p \in Procs, Process(p)
          PROVE  mission' \in Active => mission \in Active
      <4>1. ~CallerCloses(p)
        BY <1>5 DEF CallerCloses, CalmState, Calm, Verdicts
      <4>2. QED  BY <3>2, <4>1 DEF Process, Advance, FactoryAsks, SweepReads, SweepWrites, Crash,
                 Boots, Recovers
    <3>3. CASE Outside \/ UNCHANGED vars
      BY <1>5, <3>3 DEF Outside, Decides, GetsBrand, FactoryPlans, FactorySettles, FactoryReopens,
         vars, Active
    <3>4. QED  BY <3>1, <3>2, <3>3 DEF Next
  <2>2. ASSUME NEW p \in Procs, sweep'[p] # NoRow, sweep'[p].over, sweep'[p] # sweep[p]
        PROVE  mission' \notin Active
    <3>1. PICK n \in Nodes : SweepReads(p, n)
      <4>1. ASSUME NEW q \in Procs, Process(q)
            PROVE  \E n \in Nodes : SweepReads(p, n)
        <5>1. ~SweepWrites(q) /\ ~Crash(q)
          BY <1>1, <2>2 DEF SweepWrites, Crash
        <5>2. \E n \in Nodes : SweepReads(q, n)
          BY <2>2, <4>1, <5>1 DEF Process, Advance, FactoryAsks, CallerCloses, Boots, Recovers
        <5>3. q = p
          BY <1>1, <2>2, <5>2 DEF SweepReads
        <5>4. QED  BY <5>2, <5>3
      <4>2. ASSUME NEW n \in Nodes, NEW c \in Copies, Executes(n, c)
            PROVE  FALSE
        BY <2>2, <4>2 DEF Executes, MarksRunning, MarksInFlight, FailsEarly, Succeeds, Fails, FailsAgain,
           FailsForGood, SkipsBlocked, GoesOn, Closes, AdvancesLast
      <4>3. ~(Outside \/ UNCHANGED vars)
        BY <2>2 DEF Outside, Decides, Restarts, GetsBrand, FactoryPlans, FactorySettles,
           FactoryReopens, vars
      <4>4. QED  BY <4>1, <4>2, <4>3 DEF Next
    <3>2. sweep'[p].over = (mission \in {"cancelled", "rejected"}) /\ mission' = mission
      <4> DEFINE row == [node |-> n, seen |-> node[n].retry,
                         over |-> mission \in {"cancelled", "rejected"}, alive |-> Attended(n)]
      <4>1. sweep' = [sweep EXCEPT ![p] = row] /\ mission' = mission
        BY <3>1 DEF SweepReads
      <4>2. row.over = (mission \in {"cancelled", "rejected"})
        OBVIOUS
      <4> HIDE DEF row
      <4>3. sweep'[p] = row
        BY <1>1, <4>1
      <4>4. QED  BY <4>1, <4>2, <4>3
    <3>3. mission \in {"cancelled", "rejected"}
      BY <2>2, <3>2
    <3>4. QED  BY <3>2, <3>3 DEF Active
  <2>3. ASSUME NEW p \in Procs, sweep'[p] # NoRow, sweep'[p].over
        PROVE  mission' \notin Active
    <3>1. CASE sweep'[p] = sweep[p]
      BY <1>1, <1>5, <2>1, <2>3, <3>1 DEF OverStays
    <3>2. QED  BY <2>2, <2>3, <3>1
  <2>4. QED  BY <2>3 DEF OverStays
<1>6. QED  BY <1>2, <1>3, <1>4, <1>5

-----------------------------------------------------------------------------
(* The invariant, and what it gives.                                       *)

KeptInv == SoundAndCalm /\ (disturbed = 0 => Kept)

LEMMA KeptInit == Init => Kept
<1> SUFFICES ASSUME Init PROVE Kept
  OBVIOUS
<1>1. /\ \A n \in Nodes : node[n].status = "pending"
      /\ \A n \in Nodes, c \in Copies : exec[n][c] = Nobody
      /\ \A p \in Procs : caller[p] = "idle" /\ sweep[p] = NoRow
      /\ mission = "proposed"
  BY DEF Init
<1>2. QED  BY <1>1, NobodyIs DEF Kept, Fresh, DoomClosed, OverStays, Covered, Active

LEMMA KeptStep == KeptInv /\ [Next]_vars => KeptInv'
<1> SUFFICES ASSUME KeptInv, [Next]_vars PROVE KeptInv'
  OBVIOUS
<1>1. SoundAndCalm /\ SoundAndCalm' /\ GraphTypeOK
  BY SoundAndCalmStep DEF KeptInv, SoundAndCalm, Sound
<1>2. ASSUME disturbed' = 0
      PROVE  Kept'
  <2>1. disturbed = 0 /\ disturbed' = disturbed
    BY <1>1, <1>2, DisturbedGrows
  <2>2. CalmState /\ Kept
    BY <1>1, <2>1, CalmStateIs DEF KeptInv, SoundAndCalm
  <2>3. CalmState'
    <3>1. GraphTypeOK' /\ Calm'
      BY <1>1, <1>2 DEF SoundAndCalm, Sound
    <3>2. QED  BY <3>1, CalmStateIs, PTL
  <2>4. Fresh' /\ OverStays'
    BY <2>1, <2>2, FreshStep, OverStep
  <2>5. DoomClosed' /\ Covered'
    BY <2>1, <2>2, <2>3, ExecutesCovered, ProcessCovered, OutsideCovered DEF Next
  <2>6. QED  BY <2>4, <2>5 DEF Kept
<1>3. QED  BY <1>1, <1>2 DEF KeptInv

LEMMA KeptAlways == Spec => []KeptInv
<1>1. Init => KeptInv
  BY SoundInit, CalmInit, KeptInit DEF KeptInv, SoundAndCalm
<1>2. QED  BY <1>1, KeptStep, PTL DEF Spec

\* While no execution dies between a failure and its skip, every node of an active
\* mission that waits for a lost one is about to be skipped.
THEOREM NobodyLeftBehind == Spec => []NoNodeLeftBehind
<1>1. KeptInv => NoNodeLeftBehind
  BY DEF KeptInv, Kept, Covered, Exposed, NoNodeLeftBehind
<1>2. QED  BY <1>1, KeptAlways, PTL

-----------------------------------------------------------------------------
(* The rows implement MissionPlan.                                         *)

SameClosed == (mission' = "completed") <=> (mission = "completed")
SameFates == \A n \in Nodes : Fate(node'[n].status) = Fate(node[n].status)

LEMMA FatesAre ==
  /\ Fate("pending") = "open" /\ Fate("running") = "open" /\ Fate("completed") = "finished"
  /\ Fate("failed") = "lost" /\ Fate("skipped") = "dropped"
BY DEF Fate

LEMMA PlanStutters ==
  ASSUME SameFates, SameClosed
  PROVE  UNCHANGED <<fates, mission = "completed">>
BY DEF SameFates, SameClosed, fates

LEMMA PlanFinishes ==
  ASSUME SameClosed, \A m \in Nodes : Deps[m] \subseteq Nodes,
         NEW n \in Nodes, node[n].status = "running", DepsDone(node, n), node'[n].status = "completed",
         \A m \in Nodes : m # n => node'[m] = node[m]
  PROVE  Plan!Finish(n)
<1>1. \A d \in Deps[n] : Fate(node[d].status) = "finished"
  BY FatesAre DEF DepsDone
<1>2. Fate(node[n].status) = "open" /\ Fate(node'[n].status) = "finished"
  BY FatesAre
<1>3. QED  BY <1>1, <1>2 DEF Plan!Finish, Plan!AfterDeps, SameClosed, fates

LEMMA PlanLoses ==
  ASSUME SameClosed, \A m \in Nodes : Deps[m] \subseteq Nodes,
         NEW n \in Nodes, node[n].status = "running", DepsDone(node, n), node'[n].status = "failed",
         \A m \in Nodes : m # n => node'[m] = node[m]
  PROVE  Plan!Lose(n)
<1>1. \A d \in Deps[n] : Fate(node[d].status) = "finished"
  BY FatesAre DEF DepsDone
<1>2. Fate(node[n].status) = "open" /\ Fate(node'[n].status) = "lost"
  BY FatesAre
<1>3. QED  BY <1>1, <1>2 DEF Plan!Lose, Plan!AfterDeps, SameClosed, fates

LEMMA PlanCloses ==
  ASSUME AllTerminal(node), node' = node, mission' = Closed
  PROVE  Plan!Next \/ (SameFates /\ SameClosed)
<1>1. SameFates
  BY DEF SameFates
<1>2. Closed \in {"in_flight", "completed"}
  BY DEF Closed
<1>3. CASE mission' = "completed" /\ mission # "completed"
  <2>1. Nodes # {} /\ \A n \in Nodes : Fate(node[n].status) # "open"
    BY FatesAre DEF AllTerminal, Terminal
  <2>2. Plan!Close
    BY <1>1, <1>3, <2>1 DEF Plan!Close, SameFates, fates
  <2>3. QED  BY <2>2 DEF Plan!Next
<1>4. CASE mission' # "completed" /\ mission = "completed"
  <2>1. Plan!Reopen
    BY <1>1, <1>4 DEF Plan!Reopen, SameFates, fates
  <2>2. QED  BY <2>1 DEF Plan!Next
<1>5. QED  BY <1>1, <1>3, <1>4 DEF SameClosed

LEMMA PlanDrops ==
  ASSUME SameClosed, \A m \in Nodes : Deps[m] \subseteq Nodes,
         NEW S \in SUBSET Nodes, NEW L \in SUBSET Nodes, S # {},
         \A n \in L : node[n].status = "running" /\ DepsDone(node, n) /\ node'[n].status = "failed",
         \A m \in S : /\ node[m].status = "pending" /\ node'[m].status = "skipped"
                      /\ \E d \in Deps[m] : d \in S \cup L \/ node[d].status \in {"failed", "skipped"},
         \A m \in Nodes \ (S \cup L) : Fate(node'[m].status) = Fate(node[m].status)
  PROVE  Plan!Drop(S, L)
<1>1. \A n \in L : Fate(node[n].status) = "open" /\ Fate(node'[n].status) = "lost"
  BY FatesAre
<1>2. \A n \in L : \A d \in Deps[n] : Fate(node[d].status) = "finished"
  BY FatesAre DEF DepsDone
<1>3. \A m \in S : Fate(node[m].status) = "open" /\ Fate(node'[m].status) = "dropped"
  BY FatesAre
<1>4. \A m \in S : \E d \in Deps[m] :
        d \in Nodes /\ (d \in S \cup L \/ Fate(node[d].status) \in {"lost", "dropped"})
  BY FatesAre
<1>5. L \subseteq {n \in Nodes : Fate(node[n].status) = "open"
                                 /\ \A d \in Deps[n] : Fate(node[d].status) = "finished"}
  BY <1>1, <1>2
<1>6. \A n \in L : n \notin S
  BY FatesAre
<1>7. [n \in Nodes |-> Fate(node'[n].status)] =
        [n \in Nodes |-> IF n \in S THEN "dropped" ELSE IF n \in L THEN "lost"
                         ELSE Fate(node[n].status)]
  BY <1>1, <1>3
<1>8. \A n \in Nodes : fates[n] = Fate(node[n].status)
  BY DEF fates
<1>9. \A n \in S : Deps[n] \cap Plan!Gone(S \cup L) # {}
  <2>1. \A d \in Nodes : d \in S \cup L \/ Fate(node[d].status) \in {"lost", "dropped"} =>
                           d \in Plan!Gone(S \cup L)
    BY <1>8 DEF Plan!Gone
  <2>2. QED  BY <1>4, <2>1
<1>10. L \subseteq {n \in Nodes : fates[n] = "open" /\ Plan!AfterDeps(n)}
  <2>1. ASSUME NEW n \in L
        PROVE  fates[n] = "open" /\ Plan!AfterDeps(n)
    BY <1>1, <1>2, <1>8 DEF Plan!AfterDeps
  <2>2. QED  BY <2>1
<1>11. S \subseteq {n \in Nodes : fates[n] = "open"}
  BY <1>3, <1>8
<1>12. fates' = [n \in Nodes |-> IF n \in S THEN "dropped" ELSE IF n \in L THEN "lost" ELSE fates[n]]
  BY <1>7 DEF fates
<1>13. QED  BY <1>9, <1>10, <1>11, <1>12 DEF Plan!Drop, SameClosed

\* Each step of an execution is a step of the plan, or changes nothing in it.
LEMMA ExecutesPlan ==
  ASSUME CalmState, disturbed' = disturbed, NEW n \in Nodes, NEW c \in Copies, Executes(n, c)
  PROVE  Plan!Next \/ (SameFates /\ SameClosed)
<1>1. /\ Typed /\ \A m \in Nodes : Deps[m] \subseteq Nodes
  BY DEF CalmState, Typed
<1>2. ASSUME exec[n][c].at = "working" \/ exec[n][c].at = "failing"
      PROVE  node[n].status = "running" /\ DepsDone(node, n) /\ Live(exec[n][c])
  <2>1. Live(exec[n][c]) /\ node[n].status = "running"
    BY <1>2 DEF CalmState, Placed, InStep, Live
  <2>2. QED  BY <2>1, AtWorkIs DEF CalmState
<1>3. ASSUME RowChanges(n), node[n].status \in {"pending", "running"},
             node'[n].status \in {"pending", "running"}
      PROVE  SameFates
  BY <1>3, FatesAre DEF RowChanges, RowBecomes, SameFates
<1>4. CASE MarksRunning(n, c)
  <2>1. exec[n][c].at = "launched" /\ mission' = mission
    BY <1>4 DEF MarksRunning, At
  <2>2. node[n].status = "pending"
    BY <2>1 DEF CalmState, Placed, InStep
  <2>3. SameClosed
    BY <2>1 DEF SameClosed
  <2>4. QED  BY <1>1, <1>3, <1>4, <2>2, <2>3, MarksRunningIs
<1>5. CASE FailsEarly(n, c) \/ FailsAgain(n, c)
  <2>1. node[n].status = "running" /\ mission' = mission
    BY <1>2, <1>5 DEF FailsEarly, FailsAgain, At
  <2>2. RowChanges(n) /\ node'[n].status = "pending"
    BY <1>1, <1>5, FailsEarlyIs, FailsAgainIs
  <2>3. QED  BY <1>3, <2>1, <2>2 DEF SameClosed
<1>6. CASE Succeeds(n, c)
  <2>1. node[n].status = "running" /\ DepsDone(node, n) /\ mission' = mission
    BY <1>2, <1>6 DEF Succeeds, At
  <2>2. RowChanges(n) /\ node'[n].status = "completed"
    BY <1>1, <1>6, SucceedsIs
  <2>3. Plan!Finish(n)
    BY <1>1, <2>1, <2>2, PlanFinishes DEF SameClosed, RowChanges, RowBecomes
  <2>4. QED  BY <2>3 DEF Plan!Next
<1>7. CASE FailsForGood(n, c)
  <2>1. node[n].status = "running" /\ DepsDone(node, n) /\ mission' = mission
    BY <1>2, <1>7 DEF FailsForGood, At
  <2>2. RowChanges(n) /\ node'[n].status = "failed"
    BY <1>1, <1>7, FailsForGoodIs
  <2>3. Plan!Lose(n)
    BY <1>1, <2>1, <2>2, PlanLoses DEF SameClosed, RowChanges, RowBecomes
  <2>4. QED  BY <2>3 DEF Plan!Next
<1>8. CASE SkipsBlocked(n, c)
  <2> DEFINE D == exec[n][c].doomed
             S == {m \in D : node[m].status = "pending"}
  <2>1. /\ \A m \in D : m \in Nodes /\ node'[m].status = "skipped"
        /\ \A m \in Nodes \ D : node'[m] = node[m]
        /\ mission' = mission
    BY <1>1, <1>8, SkipsBlockedIs DEF SkipsBlocked
  <2>2. \A m \in D : DoomFits(node, m, D)
    BY DEF CalmState, Placed, Dooming
  <2>3. \A m \in Nodes \ S : Fate(node'[m].status) = Fate(node[m].status)
    BY <2>1, <2>2 DEF DoomFits
  <2>4. CASE S = {}
    BY <2>1, <2>3, <2>4 DEF SameFates, SameClosed
  <2>5. CASE S # {}
    <3>1. ASSUME NEW m \in S
          PROVE  \E d \in Deps[m] : d \in S \/ node[d].status \in {"failed", "skipped"}
      <4>1. PICK d \in Deps[m] : d \in D \/ node[d].status \in {"failed", "skipped"}
        BY <2>2 DEF DoomFits
      <4>2. d \in D => d \in S \/ node[d].status = "skipped"
        BY <2>2 DEF DoomFits
      <4>3. QED  BY <4>1, <4>2
    <3>2. S \in SUBSET Nodes /\ \A m \in S : node[m].status = "pending" /\ node'[m].status = "skipped"
      BY <2>1
    <3>3. {} \in SUBSET Nodes /\ SameClosed
      BY <2>1 DEF SameClosed
    <3> HIDE DEF S
    <3>4. Plan!Drop(S, {})
      BY <1>1, <2>3, <2>5, <3>1, <3>2, <3>3, PlanDrops
    <3>5. QED  BY <3>2, <3>3, <3>4 DEF Plan!Next
  <2>6. QED  BY <2>4, <2>5
<1>9. CASE Closes(n, c)
  <2>1. AllTerminal(node)
    BY <1>9 DEF Closes, At, CalmState, Placed, InStep, Closing
  <2>2. node' = node /\ mission' = Closed
    BY <1>9 DEF Closes
  <2>3. QED  BY <2>1, <2>2, PlanCloses
<1>10. CASE MarksInFlight(n, c) \/ Fails(n, c) \/ GoesOn(n, c) \/ AdvancesLast(n, c)
  <2>1. node' = node /\ (mission' = "completed" <=> mission = "completed")
    BY <1>10 DEF MarksInFlight, Fails, GoesOn, AdvancesLast
  <2>2. QED  BY <2>1 DEF SameFates, SameClosed
<1>11. QED
  BY <1>4, <1>5, <1>6, <1>7, <1>8, <1>9, <1>10 DEF Executes

LEMMA SweepPlan ==
  ASSUME CalmState, disturbed' = disturbed, NEW p \in Procs, SweepWrites(p)
  PROVE  Plan!Next \/ (SameFates /\ SameClosed)
<1> DEFINE n == sweep[p].node
<1>1. /\ sweep[p] \in StaleRow /\ n \in Nodes /\ node[n].status = "running"
      /\ node' = Swept(sweep[p]) /\ SameClosed
  BY SweepIs DEF CalmState, SweepWrites, SameClosed
<1>2. /\ Typed /\ DepsDone(node, n) /\ \A m \in Nodes : Deps[m] \subseteq Nodes
      /\ \A m \in Nodes : DepsDone(node, m) => n \notin Deps[m]
  BY <1>1, AtWorkIs DEF CalmState, Typed
<1>3. ASSUME RowBecomes(node', n, node'[n]), node'[n].status = "failed"
      PROVE  Plan!Next
  <2>1. Plan!Lose(n)
    BY <1>1, <1>2, <1>3, PlanLoses DEF RowBecomes
  <2>2. QED  BY <1>1, <2>1 DEF Plan!Next
<1>4. ASSUME RowBecomes(node', n, node'[n]), node'[n].status = "pending"
      PROVE  SameFates
  BY <1>1, <1>4, FatesAre DEF RowBecomes, SameFates
<1>5. ASSUME NEW ne \in Rows, RowBecomes(ne, n, ne[n]), ne[n].status = "failed",
             \A m \in Doomed(ne) : node'[m].status = "skipped",
             \A m \in Nodes \ Doomed(ne) : node'[m] = ne[m]
      PROVE  Plan!Next
  <2> DEFINE S == Doomed(ne)
  <2>1. \A m \in Nodes : m # n => ne[m] = node[m]
    BY <1>5 DEF RowBecomes
  <2>2. S \in SUBSET Nodes /\ n \notin S /\ \A m \in S : ne[m].status = "pending"
    BY <1>5 DEF Doomed
  <2>3. ASSUME NEW m \in S
        PROVE  \E d \in Deps[m] : d \in S \cup {n} \/ node[d].status \in {"failed", "skipped"}
    <3>1. PICK d \in Deps[m] : d \in Nodes /\ (ne[d].status \in {"failed", "skipped"} \/ d \in S)
      BY <1>5, <2>3, DoomedHasCause
    <3>2. QED  BY <2>1, <3>1
  <2>4. \A m \in S : node[m].status = "pending" /\ node'[m].status = "skipped"
    BY <1>5, <2>1, <2>2
  <2>5. \A m \in Nodes \ (S \cup {n}) : Fate(node'[m].status) = Fate(node[m].status)
    BY <1>5, <2>1
  <2>6. node'[n].status = "failed" /\ {n} \in SUBSET Nodes
    BY <1>1, <1>5, <2>2
  <2> HIDE DEF S, n
  <2>7. CASE S # {}
    <3>1. \A m \in {n} : node[m].status = "running" /\ DepsDone(node, m) /\ node'[m].status = "failed"
      BY <1>1, <1>2, <2>6
    <3>2. Plan!Drop(S, {n})
      BY <1>1, <1>2, <2>2, <2>3, <2>4, <2>5, <2>6, <2>7, <3>1, PlanDrops
    <3>3. QED  BY <2>2, <2>6, <3>2 DEF Plan!Next
  <2>8. CASE S = {}
    <3>1. \A m \in Nodes : m # n => node'[m] = node[m]
      BY <1>5, <2>1, <2>8 DEF S
    <3>2. Plan!Lose(n)
      BY <1>1, <1>2, <2>6, <3>1, PlanLoses
    <3>3. QED  BY <1>1, <3>2 DEF Plan!Next
  <2>9. QED  BY <2>7, <2>8
<1>6. QED  BY <1>1, <1>2, <1>3, <1>4, <1>5, SweptIs

LEMMA ProcessPlan ==
  ASSUME CalmState, disturbed' = disturbed, NEW p \in Procs, Process(p)
  PROVE  Plan!Next \/ (SameFates /\ SameClosed)
<1>1. CASE CallerCloses(p)
  <2>1. AllTerminal(node) /\ node' = node /\ mission' = Closed
    BY <1>1 DEF CallerCloses, CalmState, Calm, Verdicts
  <2>2. QED  BY <2>1, PlanCloses
<1>2. CASE SweepWrites(p)
  BY <1>2, SweepPlan
<1>3. CASE Recovers(p)
  <2>1. mission' = mission /\ \A n \in Nodes :
          node'[n] = node[n] \/ (node[n].status = "running" /\ node'[n].status = "pending")
    BY <1>3, RecoversIs DEF Recovers, CalmState, Typed
  <2>2. QED  BY <2>1, FatesAre DEF SameFates, SameClosed
<1>4. CASE \/ Advance(p) \/ FactoryAsks(p) \/ (\E n \in Nodes : SweepReads(p, n))
           \/ Crash(p) \/ Boots(p)
  <2>1. node' = node /\ mission' = mission
    BY <1>4 DEF Advance, FactoryAsks, SweepReads, Crash, Boots
  <2>2. QED  BY <2>1 DEF SameFates, SameClosed
<1>5. QED  BY <1>1, <1>2, <1>3, <1>4 DEF Process

LEMMA OutsidePlan ==
  ASSUME CalmState, Outside
  PROVE  Plan!Next \/ (SameFates /\ SameClosed)
<1>1. CASE Restarts
  <2>1. /\ mission' = "in_flight"
        /\ \A n \in Nodes : \/ ~Reset(n) /\ node'[n] = node[n]
                            \/ Reset(n) /\ node'[n].status = "pending"
    BY <1>1, RestartsIs DEF Restarts, CalmState, Typed
  <2>2. \A n \in Nodes : node[n].status \in NodeStatus
    BY DEF CalmState, Rows, Row
  <2>3. ASSUME NEW n \in Nodes
        PROVE  Fate(node'[n].status) =
                 IF n \in Derived \/ Fate(node[n].status) # "finished" THEN "open"
                 ELSE Fate(node[n].status)
    <3>1. CASE Reset(n)
      <4>1. Fate(node'[n].status) = "open"
        BY <2>1, <3>1, FatesAre
      <4>2. n \in Derived \/ Fate(node[n].status) # "finished"
        BY <3>1, FatesAre DEF Reset
      <4>3. QED  BY <4>1, <4>2
    <3>2. CASE ~Reset(n)
      <4>1. n \notin Derived /\ node'[n] = node[n] /\ node[n].status \in {"pending", "completed"}
        BY <2>1, <2>2, <3>2 DEF Reset, NodeStatus
      <4>2. QED  BY <4>1, FatesAre
    <3>3. QED  BY <3>1, <3>2
  <2>4. Plan!Restart
    BY <2>1, <2>3 DEF Plan!Restart, fates
  <2>5. QED  BY <2>4 DEF Plan!Next
<1>2. CASE Decides
  <2>1. node' = node /\ mission # "completed" /\ mission' # "completed"
    BY <1>2 DEF Decides, Active
  <2>2. QED  BY <2>1 DEF SameFates, SameClosed
<1>3. CASE GetsBrand \/ FactoryPlans \/ FactorySettles \/ FactoryReopens
  <2>1. node' = node /\ mission' = mission
    BY <1>3 DEF GetsBrand, FactoryPlans, FactorySettles, FactoryReopens
  <2>2. QED  BY <2>1 DEF SameFates, SameClosed
<1>4. QED  BY <1>1, <1>2, <1>3 DEF Outside

\* A step that disturbs nothing, in a behaviour undisturbed so far, is one of the plan.
LEMMA PlanStep ==
  ASSUME SoundAndCalm, [Next]_vars, disturbed' = 0
  PROVE  Plan!Next \/ UNCHANGED <<fates, mission = "completed">>
<1>1. GraphTypeOK
  BY DEF SoundAndCalm, Sound
<1>2. disturbed = 0 /\ disturbed' = disturbed
  BY <1>1, DisturbedGrows
<1>3. CalmState
  BY <1>1, <1>2, CalmStateIs DEF SoundAndCalm
<1>4. CASE UNCHANGED vars
  BY <1>4, PlanStutters DEF vars, SameFates, SameClosed
<1>5. Plan!Next \/ (SameFates /\ SameClosed) \/ UNCHANGED vars
  BY <1>2, <1>3, ExecutesPlan, ProcessPlan, OutsidePlan DEF Next
<1>6. QED  BY <1>4, <1>5, PlanStutters

\* Whatever is disturbed later, every step up to the first launch or requeue over a live
\* execution is one of the plan: retries, sweeps, requeues and crashes are invisible in it.
THEOREM PlanKeptUntilDisturbed == Spec => KeepsPlanUntilDisturbed
<1>1. SoundAndCalm /\ [Next]_vars
      => [disturbed' = 0 => Plan!Next \/ UNCHANGED <<fates, mission = "completed">>]_vars
  BY PlanStep
<1>2. QED  BY <1>1, SoundAndCalmAlways, PTL DEF Spec, KeepsPlanUntilDisturbed

\* Hence, if no row is ever launched or requeued over a live execution, the rows of the task
\* graph implement the mission plan.
THEOREM GraphImplementsPlan == ASSUME MaxDisturbed = 0 PROVE Spec => ImplementsPlan
<1>1. Init => Plan!Init
  <2> SUFFICES ASSUME Init PROVE Plan!Init
    OBVIOUS
  <2>1. mission = "proposed" /\ \A n \in Nodes : Fate(node[n].status) = "open"
    BY FatesAre DEF Init
  <2>2. QED  BY <2>1 DEF Plan!Init, fates
<1>2. SoundAndCalm /\ [Next]_vars => [Plan!Next]_<<fates, mission = "completed">>
  <2> SUFFICES ASSUME SoundAndCalm, [Next]_vars
               PROVE  [Plan!Next]_<<fates, mission = "completed">>
    OBVIOUS
  <2>1. GraphTypeOK'
    BY GraphTypeStep DEF SoundAndCalm, Sound
  <2>2. disturbed' = 0
    BY <2>1 DEF GraphTypeOK
  <2>3. QED  BY <2>2, PlanStep
<1>3. QED  BY <1>1, <1>2, SoundAndCalmAlways, PTL DEF Spec, ImplementsPlan, Plan!Spec
=============================================================================
