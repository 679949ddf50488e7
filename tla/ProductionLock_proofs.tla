------------------------ MODULE ProductionLock_proofs ------------------------
(***************************************************************************)
(* Proofs about ProductionLock, for any numbers of processes, runs and     *)
(* faults.  What each step makes of its run comes first; the inductive     *)
(* invariant then says that a run past its workspace key still has that    *)
(* key unless its lane has lapsed, and that only still keys are stolen.    *)
(* The last part is about the locks that are left behind: what each step   *)
(* of a run passes on of the releases that the run owes.                   *)
(***************************************************************************)
EXTENDS ProductionLock, TLAPS

-----------------------------------------------------------------------------
(* Steps of one run.                                                       *)

\* A run that is not past its workspace key, and is not stealing a video key.
Outside(x) == x.pc # "paint" /\ ~(x.pc \in Acquiring /\ x.level = 2)
StillOnly(x) == x.pc \in {"probe", "steal", "retake"} => x.lane = "still"
Harmless(x) == x \in RunStates /\ Outside(x) /\ StillOnly(x)

\* Going from x to y leaves the lane, or stays in it.
GoesOn(x, y) ==
  y \in RunStates /\ StillOnly(y) /\ (Outside(y) \/ (~Outside(x) /\ y.lane = x.lane))

\* The points of a run.
LEMMA PointsAre ==
  /\ "idle" \in Points /\ "take" \in Points /\ "probe" \in Points /\ "steal" \in Points
  /\ "retake" \in Points /\ "paint" \in Points /\ "tail" \in Points /\ "clear" \in Points
  /\ "backoff" \in Points /\ "refused" \in Points /\ "inner" \in Points
  /\ "final" \in Points /\ Releasing \subseteq Points
BY DEF Points, Releasing

\* A slot without a request is outside the lane.
LEMMA IdleIs == Harmless(Idle) /\ Idle.pc = "idle"
<1>1. Idle.pc = "idle" /\ Idle \in RunStates
  BY PointsAre DEF Idle, RunStates
<1>2. QED  BY <1>1 DEF Harmless, Outside, StillOnly, Acquiring

\* Going on to another point changes the point and the level only.
LEMMA AtIs ==
  ASSUME NEW x \in RunStates, NEW pc \in Points, NEW level \in 1..2
  PROVE  /\ At(x, pc, level) \in RunStates
         /\ At(x, pc, level).pc = pc /\ At(x, pc, level).level = level
         /\ At(x, pc, level).lane = x.lane /\ At(x, pc, level).kind = x.kind
         /\ At(x, pc, level).try = x.try /\ At(x, pc, level).depth = x.depth
BY DEF At, RunStates

\* The same for a point of the recovery, at the level where the run is.
LEMMA RecoveryIs ==
  ASSUME NEW x \in RunStates, NEW pc \in {"probe", "steal", "retake"}
  PROVE  /\ At(x, pc, x.level) \in RunStates /\ At(x, pc, x.level).pc = pc
         /\ At(x, pc, x.level).level = x.level /\ At(x, pc, x.level).lane = x.lane
<1>1. pc \in Points
  BY PointsAre
<1>2. x.level \in 1..2
  BY DEF RunStates
<1> DEFINE n == x.level
<1> HIDE DEF n
<1>3. n \in 1..2
  BY <1>2 DEF n
<1>4. /\ At(x, pc, n) \in RunStates /\ At(x, pc, n).pc = pc
      /\ At(x, pc, n).level = n /\ At(x, pc, n).lane = x.lane
  BY <1>1, <1>3, AtIs
<1>5. QED  BY <1>4 DEF n

\* Going on to a point outside the lane is harmless.
LEMMA AtHarmless ==
  ASSUME NEW x \in RunStates, NEW pc \in Points, NEW level \in 1..2,
         pc # "paint", ~(pc \in Acquiring /\ level = 2),
         pc \in {"probe", "steal", "retake"} => x.lane = "still"
  PROVE  Harmless(At(x, pc, level)) /\ At(x, pc, level).pc = pc
BY AtIs DEF Harmless, Outside, StillOnly

\* Counting an attempt changes nothing else.
LEMMA TryIs ==
  ASSUME NEW x \in RunStates, NEW n \in 1..3
  PROVE  /\ [x EXCEPT !.try = n] \in RunStates
         /\ [x EXCEPT !.try = n].pc = x.pc /\ [x EXCEPT !.try = n].level = x.level
         /\ [x EXCEPT !.try = n].lane = x.lane
BY DEF RunStates

LEMMA LevelIs ==
  ASSUME NEW x \in RunStates, NEW n \in 1..2
  PROVE  /\ [x EXCEPT !.level = n] \in RunStates
         /\ [x EXCEPT !.level = n].pc = x.pc /\ [x EXCEPT !.level = n].level = n
BY DEF RunStates

\* A refused run waits, probes, or gives up: it leaves the lane, or probes in it.
LEMMA RefusalIs ==
  ASSUME NEW x \in RunStates, x.pc \in {"take", "retake"}, StillOnly(x)
  PROVE  GoesOn(x, AfterRefusal(x))
<1>1. /\ x.level \in 1..2 /\ 1 \in 1..2 /\ x.lane \in {"still", "video"}
      /\ x.try \in 1..3 /\ x.depth \in 1..2
  BY DEF RunStates
<1>2. Harmless(At(x, "backoff", 1))
  BY AtHarmless, <1>1, PointsAre
<1>3. x.lane = "still" => GoesOn(x, At(x, "probe", x.level))
  <2>1. /\ At(x, "probe", x.level) \in RunStates /\ At(x, "probe", x.level).pc = "probe"
        /\ At(x, "probe", x.level).level = x.level /\ At(x, "probe", x.level).lane = x.lane
    BY RecoveryIs
  <2>2. QED  BY <2>1 DEF GoesOn, Outside, StillOnly, Acquiring
<1>4. MayTryAgain(x) => Harmless([At(x, "clear", 1) EXCEPT !.try = @ + 1])
  <2> SUFFICES ASSUME MayTryAgain(x)
               PROVE  Harmless([At(x, "clear", 1) EXCEPT !.try = @ + 1])
    OBVIOUS
  <2>1. At(x, "clear", 1) \in RunStates /\ At(x, "clear", 1).try = x.try
    BY AtIs, <1>1, PointsAre
  <2>2. At(x, "clear", 1).pc = "clear"
    BY AtIs, <1>1, PointsAre
  <2>3. x.try + 1 \in 1..3
    BY <1>1 DEF MayTryAgain
  <2>4. [At(x, "clear", 1) EXCEPT !.try = x.try + 1] \in RunStates
    BY <2>1, <2>3, TryIs
  <2>5. [At(x, "clear", 1) EXCEPT !.try = x.try + 1].pc = "clear"
    BY <2>1, <2>2, <2>3, TryIs
  <2>6. QED  BY <2>1, <2>4, <2>5 DEF Harmless, Outside, StillOnly, Acquiring
<1>5. \A y : Harmless(y) => GoesOn(x, y)
  BY DEF Harmless, GoesOn
<1>6. QED  BY <1>2, <1>3, <1>4, <1>5, IdleIs DEF AfterRefusal

\* A release moves its run on, and not into the lane.
LEMMA ReleaseIs ==
  ASSUME NEW x \in RunStates, x.pc \in Releasing
  PROVE  Harmless(AfterRelease(x)) /\ AfterRelease(x) # x
<1>1. x.level \in 1..2 /\ 1 \in 1..2 /\ 2 \in 1..2 /\ x.depth \in 1..2
  BY DEF RunStates
<1>2. CASE x.level < LastLevel(x)
  <2>1. LastLevel(x) \in 1..2
    BY <1>1 DEF LastLevel
  <2>2. x.level = 1
    BY <1>1, <1>2, <2>1
  <2>3. /\ [x EXCEPT !.level = 2] \in RunStates
        /\ [x EXCEPT !.level = 2].pc = x.pc /\ [x EXCEPT !.level = 2].level = 2
    BY <1>1, LevelIs
  <2>4. [x EXCEPT !.level = 2] # x
    <3>1. x.level # [x EXCEPT !.level = 2].level
      BY <2>2, <2>3
    <3>2. QED  BY <3>1, ZenonT(10)
  <2>5. x.pc \notin {"paint", "take", "probe", "steal", "retake"}
    BY DEF Releasing
  <2>6. Harmless([x EXCEPT !.level = 2])
    BY <2>3, <2>5 DEF Harmless, Outside, StillOnly, Acquiring
  <2>7. QED  BY <1>2, <2>4, <2>6 DEF AfterRelease
<1>3. CASE ~(x.level < LastLevel(x))
  <2>1. x.pc = "clear" => Harmless(At(x, "take", 1)) /\ At(x, "take", 1) # x
    BY AtHarmless, <1>1, PointsAre
  <2>2. x.pc = "backoff" => /\ Harmless([At(x, "clear", 1) EXCEPT !.try = 3])
                            /\ [At(x, "clear", 1) EXCEPT !.try = 3] # x
    <3>1. At(x, "clear", 1) \in RunStates /\ At(x, "clear", 1).pc = "clear"
      BY AtIs, <1>1, PointsAre
    <3>2. 3 \in 1..3
      OBVIOUS
    <3>3. /\ [At(x, "clear", 1) EXCEPT !.try = 3] \in RunStates
          /\ [At(x, "clear", 1) EXCEPT !.try = 3].pc = "clear"
      BY <3>1, <3>2, TryIs
    <3>4. QED  BY <3>3 DEF Harmless, Outside, StillOnly, Acquiring
  <2>3. x.pc = "backoff" => Harmless(At(x, "refused", 1)) /\ At(x, "refused", 1) # x
    BY AtHarmless, <1>1, PointsAre
  <2>4. x.pc = "inner" => Harmless(At(x, "tail", 1)) /\ At(x, "tail", 1) # x
    BY AtHarmless, <1>1, PointsAre
  <2>5. Harmless(Idle) /\ Idle # x
    BY IdleIs DEF Releasing
  <2>6. QED  BY <1>3, <2>1, <2>2, <2>3, <2>4, <2>5 DEF AfterRelease, AfterReleases
<1>4. QED  BY <1>2, <1>3

-----------------------------------------------------------------------------
(* The store and the invariant.                                            *)

LEMMA KeysAre ==
  ASSUME run \in [Runs -> RunStates], NEW r \in Runs
  PROVE  Key(r) \in Keys /\ ReleasedKey(r) \in Keys
<1>1. run[r].lane \in {"still", "video"} /\ run[r].level \in 1..2
  BY DEF RunStates
<1>2. QED  BY <1>1 DEF Key, ReleasedKey, Keys, Lanes

LEMMA LocksAre ==
  /\ Free \in LockStates /\ Free.by = NoProcess
  /\ \A p \in Processes : Taken(p) \in LockStates /\ Taken(p).by = p
BY DEF Free, Taken, LockStates

\* Writing who knows a lock, or its age, leaves it with its taker.
LEMMA SameTaker ==
  ASSUME NEW s \in LockStates, NEW w \in Runs \cup {"held", "lost"}, NEW b \in BOOLEAN
  PROVE  /\ [s EXCEPT !.known = w] \in LockStates /\ [s EXCEPT !.known = w].by = s.by
         /\ [s EXCEPT !.stale = b] \in LockStates /\ [s EXCEPT !.stale = b].by = s.by
BY DEF LockStates

LaneKey(l) == <<l, 1>>
Steady == \A r \in Runs : StillOnly(run[r])
LaneHeld ==
  OneRunEach =>
    \A r \in Runs : InLane(r) /\ run[r].lane \notin lapsed => Mine(r, LaneKey(run[r].lane))
LockInv == LockTypeOK /\ Steady /\ LaneHeld

LEMMA LaneKeyIs ==
  /\ \A l \in Lanes : LaneKey(l) \in Keys /\ LaneKey(l)[1] = l /\ LaneKey(l)[2] = 1
  /\ \A l, m \in Lanes : LaneKey(l) = LaneKey(m) => l = m
BY DEF LaneKey, Keys

LEMMA LaneIs ==
  ASSUME LockTypeOK, NEW r \in Runs
  PROVE  run[r] \in RunStates /\ run[r].lane \in Lanes /\ (InLane(r) <=> ~Outside(run[r]))
<1>1. run[r] \in RunStates
  BY DEF LockTypeOK
<1>2. run[r].lane \in Lanes
  BY <1>1 DEF RunStates, Lanes
<1>3. QED  BY <1>1, <1>2 DEF InLane, Painting, Outside

\* A step of one run keeps the invariant if it takes the key of a lane from nobody
\* else who is in the lane, and is in the lane only with it.
LEMMA OneRunMoves ==
  ASSUME LockInv, lapsed \subseteq lapsed',
         NEW r \in Runs, NEW x \in RunStates, StillOnly(x), Becomes(r, x),
         OneRunEach => \A l \in Lanes :
           \/ l \in lapsed'
           \/ store'[LaneKey(l)].by = store[LaneKey(l)].by
           \/ store[LaneKey(l)].by \in {Home[r], NoProcess},
         Outside(x) \/ (OneRunEach /\ x.lane \notin lapsed'
                         => store'[LaneKey(x.lane)].by = Home[r])
  PROVE  run' \in [Runs -> RunStates] /\ Steady' /\ LaneHeld'
<1>1. run \in [Runs -> RunStates] /\ LockTypeOK /\ Steady /\ LaneHeld
  BY DEF LockInv, LockTypeOK
<1>2. run' \in [Runs -> RunStates] /\ run'[r] = x
  BY <1>1 DEF Becomes
<1>3. \A q \in Runs : q # r => run'[q] = run[q]
  BY <1>1 DEF Becomes
<1>4. Steady'
  BY <1>1, <1>2, <1>3 DEF Steady
<1>5. SUFFICES ASSUME OneRunEach, NEW q \in Runs, InLane(q)', run'[q].lane \notin lapsed'
               PROVE  store'[LaneKey(run'[q].lane)].by = Home[q]
  BY <1>2, <1>4 DEF LaneHeld, Mine, OneRunEach
<1>6. CASE q = r
  <2>1. ~Outside(x)
    BY <1>2, <1>5, <1>6 DEF InLane, Painting, Outside
  <2>2. QED  BY <1>2, <1>5, <1>6, <2>1
<1>7. CASE q # r
  <2> DEFINE l == run[q].lane
  <2>1. InLane(q) /\ run'[q] = run[q] /\ l \in Lanes /\ l \notin lapsed'
    BY <1>1, <1>3, <1>5, <1>7, LaneIs DEF InLane, Painting
  <2>2. store[LaneKey(l)].by = Home[q]
    BY <1>1, <1>5, <2>1 DEF LaneHeld, Mine
  <2>3. Home[q] # Home[r] /\ Home[q] # NoProcess
    BY <1>5, <1>7, LockAssumption DEF OneRunEach
  <2> HIDE DEF l
  <2>4. store'[LaneKey(l)].by = Home[q]
    BY <1>5, <2>1, <2>2, <2>3
  <2>5. QED  BY <2>1, <2>4 DEF l
<1>8. QED  BY <1>6, <1>7

\* Every step of a run keeps the invariant, and takes a lock that is not stale from
\* its holder only by a steal or by a run of the process that holds it.
Own(k) ==
  store[k] # Free /\ ~store[k].stale /\ store'[k].by # store[k].by =>
    \/ \E r \in Runs : run[r].pc = "steal" /\ Key(r) = k /\ run'[r].pc = "retake"
    \/ \E r \in Runs : run'[r] # run[r] /\ Mine(r, k)
    \/ UNCHANGED run

LEMMA StartSafe ==
  ASSUME LockInv, NEW r \in Runs, Start(r)
  PROVE  LockInv' /\ \A k \in Keys : Own(k)
<1>1. PICK q \in Requests[r] :
        Becomes(r, [pc |-> IF q.kind = "redo" THEN "clear" ELSE "take", level |-> 1,
                    try |-> 1, lane |-> q.lane, kind |-> q.kind, depth |-> q.depth])
  BY DEF Start
<1> DEFINE x == [pc |-> IF q.kind = "redo" THEN "clear" ELSE "take", level |-> 1,
                 try |-> 1, lane |-> q.lane, kind |-> q.kind, depth |-> q.depth]
<1>2. q \in AllRequests
  BY LockAssumption
<1>3. x \in RunStates /\ Outside(x) /\ StillOnly(x)
  <2>1. /\ q.lane \in {"still", "video"} /\ q.depth \in 1..2
        /\ q.kind \in {"public", "internal", "redo", "completion"}
    BY <1>2 DEF AllRequests
  <2>2. (IF q.kind = "redo" THEN "clear" ELSE "take") \in Points
    BY PointsAre
  <2>3. x \in RunStates
    BY <2>1, <2>2 DEF RunStates
  <2>4. QED  BY <2>3 DEF Outside, StillOnly, Acquiring
<1>4. UNCHANGED <<store, touch, faults, lapsed>>
  BY DEF Start
<1>5. run' \in [Runs -> RunStates] /\ Steady' /\ LaneHeld'
  <2> HIDE DEF x
  <2>1. QED  BY <1>1, <1>3, <1>4, OneRunMoves DEF x
<1>6. LockTypeOK'
  BY <1>4, <1>5 DEF LockInv, LockTypeOK
<1>7. QED  BY <1>4, <1>5, <1>6 DEF LockInv, Own

LEMMA TakesSafe ==
  ASSUME LockInv, NEW r \in Runs, Takes(r)
  PROVE  LockInv' /\ \A k \in Keys : Own(k)
<1> DEFINE x == IF run[r].level < run[r].depth THEN At(run[r], "take", 2)
                ELSE At(run[r], "paint", 1)
<1>0. /\ run \in [Runs -> RunStates] /\ store \in [Keys -> LockStates]
      /\ run[r] \in RunStates /\ StillOnly(run[r])
  BY DEF LockInv, LockTypeOK, Steady
<1>1. /\ run[r].pc \in {"take", "retake"} /\ store[Key(r)] = Free
      /\ store' = [store EXCEPT ![Key(r)] = Taken(Home[r])]
      /\ Becomes(r, x) /\ UNCHANGED <<touch, faults, lapsed>>
  BY DEF Takes
<1>2. Key(r) \in Keys /\ Home[r] \in Processes
  BY <1>0, KeysAre, LockAssumption
<1>3. store' \in [Keys -> LockStates] /\ store'[Key(r)].by = Home[r]
  BY <1>0, <1>1, <1>2, LocksAre
<1>4. \A k \in Keys : k # Key(r) => store'[k] = store[k]
  BY <1>0, <1>1, <1>2
<1>5. x \in RunStates /\ StillOnly(x) /\ x.lane = run[r].lane
  <2>1. 1 \in 1..2 /\ 2 \in 1..2
    OBVIOUS
  <2>2. /\ At(run[r], "take", 2) \in RunStates /\ At(run[r], "take", 2).pc = "take"
        /\ At(run[r], "take", 2).lane = run[r].lane
    BY <1>0, <2>1, PointsAre, AtIs
  <2>3. /\ At(run[r], "paint", 1) \in RunStates /\ At(run[r], "paint", 1).pc = "paint"
        /\ At(run[r], "paint", 1).lane = run[r].lane
    BY <1>0, <2>1, PointsAre, AtIs
  <2>4. QED  BY <2>2, <2>3 DEF StillOnly
<1>6. OneRunEach /\ x.lane \notin lapsed' => store'[LaneKey(x.lane)].by = Home[r]
  <2>1. SUFFICES ASSUME OneRunEach, run[r].lane \notin lapsed
                 PROVE  store'[LaneKey(run[r].lane)].by = Home[r]
    BY <1>1, <1>5
  <2>2. run[r].level \in 1..2 /\ run[r].lane \in Lanes
    BY <1>0, LaneIs DEF RunStates, LockInv
  <2>3. CASE run[r].level = 1
    BY <1>3, <2>3 DEF Key, LaneKey
  <2>4. CASE run[r].level = 2
    <3>1. Mine(r, LaneKey(run[r].lane))
      BY <1>1, <2>1, <2>4 DEF LockInv, LaneHeld, InLane, Acquiring
    <3>2. Key(r) # LaneKey(run[r].lane)
      BY <2>4 DEF Key, LaneKey
    <3>3. QED  BY <1>4, <2>2, <3>1, <3>2, LaneKeyIs DEF Mine
  <2>5. QED  BY <2>2, <2>3, <2>4
<1>7. \A l \in Lanes : \/ store'[LaneKey(l)].by = store[LaneKey(l)].by
                      \/ store[LaneKey(l)].by = NoProcess
  BY <1>1, <1>4, LaneKeyIs, LocksAre
<1>8. run' \in [Runs -> RunStates] /\ Steady' /\ LaneHeld'
  <2> HIDE DEF x
  <2>1. lapsed \subseteq lapsed'
    BY <1>1
  <2>2. QED  BY <1>1, <1>5, <1>6, <1>7, <2>1, OneRunMoves
<1>9. LockTypeOK'
  BY <1>1, <1>3, <1>8 DEF LockInv, LockTypeOK
<1>10. QED  BY <1>1, <1>4, <1>8, <1>9 DEF LockInv, Own

\* A step of one run that takes locks only from itself, and none if it is in the lane.
LEMMA HarmlessMove ==
  ASSUME LockInv, NEW r \in Runs, NEW x, GoesOn(run[r], x), Becomes(r, x),
         touch' \in [Runs -> Keys \cup {NoKey}], UNCHANGED lapsed, faults' \in 0..MaxFaults,
         store' \in [Keys -> LockStates],
         \A k \in Keys : \/ store'[k].by = store[k].by \/ store[k] = Free
                         \/ Mine(r, k) /\ x # run[r] /\ Outside(x)
  PROVE  LockInv' /\ \A k \in Keys : Own(k)
<1>1. \A l \in Lanes : \/ store[LaneKey(l)].by = store'[LaneKey(l)].by
                      \/ store[LaneKey(l)].by \in {Home[r], NoProcess}
  BY LaneKeyIs, LocksAre DEF Mine
<1>2. Outside(x) \/ (OneRunEach /\ x.lane \notin lapsed' => store'[LaneKey(x.lane)].by = Home[r])
  <2>1. SUFFICES ASSUME ~Outside(x), OneRunEach, x.lane \notin lapsed
                 PROVE  store'[LaneKey(x.lane)].by = Home[r]
    OBVIOUS
  <2>2. InLane(r) /\ x.lane = run[r].lane /\ x.lane \in Lanes
    BY <2>1, LaneIs DEF GoesOn, LockInv
  <2>3. store[LaneKey(x.lane)].by = Home[r] /\ LaneKey(x.lane) \in Keys
    BY <2>1, <2>2, LaneKeyIs DEF LockInv, LaneHeld, Mine
  <2>4. store[LaneKey(x.lane)] # Free
    BY <2>3, LocksAre, LockAssumption
  <2>5. QED  BY <2>1, <2>3, <2>4
<1>3. run' \in [Runs -> RunStates] /\ Steady' /\ LaneHeld'
  <2>1. x \in RunStates /\ StillOnly(x) /\ lapsed \subseteq lapsed'
    BY DEF GoesOn
  <2>2. QED  BY <1>1, <1>2, <2>1, OneRunMoves
<1>4. LockTypeOK'
  BY <1>3 DEF LockInv, LockTypeOK
<1>5. run'[r] = x
  BY DEF LockInv, LockTypeOK, Becomes
<1>6. QED  BY <1>3, <1>4, <1>5 DEF LockInv, Own

\* The same for a step that answers no touch.
LEMMA HarmlessStep ==
  ASSUME LockInv, NEW r \in Runs, NEW x, GoesOn(run[r], x), Becomes(r, x),
         UNCHANGED <<touch, lapsed>>, faults' \in 0..MaxFaults,
         store' \in [Keys -> LockStates],
         \A k \in Keys : \/ store'[k].by = store[k].by \/ store[k] = Free
                         \/ Mine(r, k) /\ x # run[r] /\ Outside(x)
  PROVE  LockInv' /\ \A k \in Keys : Own(k)
<1>1. touch' \in [Runs -> Keys \cup {NoKey}]
  BY DEF LockInv, LockTypeOK
<1>2. QED  BY <1>1, HarmlessMove

\* A step of one run out of the lane.
LEMMA OutsideGoesOn == ASSUME NEW x, NEW y, Harmless(y) PROVE GoesOn(x, y) /\ Outside(y)
BY DEF Harmless, GoesOn

LEMMA FaultIs == ASSUME LockTypeOK, Fault PROVE faults' \in 0..MaxFaults
BY LockAssumption DEF LockTypeOK, Fault

LEMMA RefusedSafe ==
  ASSUME LockInv, NEW r \in Runs, Refused(r) \/ TakeUnanswered(r)
  PROVE  LockInv' /\ \A k \in Keys : Own(k)
<1>1. /\ run \in [Runs -> RunStates] /\ store \in [Keys -> LockStates]
      /\ run[r] \in RunStates /\ StillOnly(run[r]) /\ faults \in 0..MaxFaults
  BY DEF LockInv, LockTypeOK, Steady
<1>2. GoesOn(run[r], AfterRefusal(run[r])) /\ Becomes(r, AfterRefusal(run[r]))
  BY <1>1, RefusalIs DEF Refused, TakeUnanswered
<1>3. CASE Refused(r)
  BY <1>1, <1>2, <1>3, HarmlessStep DEF Refused
<1>4. CASE TakeUnanswered(r)
  <2>1. Key(r) \in Keys /\ Home[r] \in Processes
    BY <1>1, KeysAre, LockAssumption
  <2>2. "lost" \in Runs \cup {"held", "lost"}
    OBVIOUS
  <2>3. [Taken(Home[r]) EXCEPT !.known = "lost"] \in LockStates
    BY <2>1, <2>2, LocksAre, SameTaker
  <2>4. store' \in [Keys -> LockStates] /\ store[Key(r)] = Free
    BY <1>1, <1>4, <2>1, <2>3 DEF TakeUnanswered
  <2>5. \A k \in Keys : store'[k].by = store[k].by \/ store[k] = Free
    BY <1>1, <1>4, <2>1, <2>4 DEF TakeUnanswered
  <2>6. faults' \in 0..MaxFaults
    BY <1>4, FaultIs DEF TakeUnanswered, LockInv
  <2>7. QED  BY <1>2, <1>4, <2>4, <2>5, <2>6, HarmlessStep DEF TakeUnanswered
<1>5. QED  BY <1>3, <1>4

LEMMA ProbesSafe ==
  ASSUME LockInv, NEW r \in Runs, Probes(r) \/ ProbeUnreadable(r)
  PROVE  LockInv' /\ \A k \in Keys : Own(k)
<1>1. /\ store \in [Keys -> LockStates] /\ run[r] \in RunStates
      /\ run[r].lane = "still" /\ faults \in 0..MaxFaults
  BY DEF LockInv, LockTypeOK, Steady, StillOnly, Probes, ProbeUnreadable
<1>2. run[r].level \in 1..2 /\ 1 \in 1..2
  BY <1>1 DEF RunStates
<1>3. GoesOn(run[r], At(run[r], "steal", run[r].level))
  <2> DEFINE y == At(run[r], "steal", run[r].level)
  <2>1. /\ y \in RunStates /\ y.pc = "steal" /\ y.level = run[r].level /\ y.lane = run[r].lane
    BY <1>1, RecoveryIs
  <2>2. run[r].pc = "probe"
    BY DEF Probes, ProbeUnreadable
  <2> HIDE DEF y
  <2>3. GoesOn(run[r], y)
    BY <1>1, <2>1, <2>2 DEF GoesOn, Outside, StillOnly, Acquiring
  <2>4. QED  BY <2>3 DEF y
<1>4. PICK x : GoesOn(run[r], x) /\ Becomes(r, x)
  <2>1. Harmless(At(run[r], "backoff", 1)) /\ Harmless(Idle)
    BY <1>1, <1>2, AtHarmless, IdleIs, PointsAre
  <2>2. QED  BY <1>3, <2>1, OutsideGoesOn DEF Probes, ProbeUnreadable
<1>5. faults' \in 0..MaxFaults
  BY <1>1, FaultIs DEF Probes, ProbeUnreadable, LockInv
<1>6. UNCHANGED <<store, touch, lapsed>>
  BY DEF Probes, ProbeUnreadable
<1>7. QED  BY <1>1, <1>4, <1>5, <1>6, HarmlessStep

LEMMA StealsSafe ==
  ASSUME LockInv, NEW r \in Runs, Steals(r)
  PROVE  LockInv' /\ \A k \in Keys : Own(k)
<1> DEFINE x == At(run[r], "retake", run[r].level)
<1>1. /\ run \in [Runs -> RunStates] /\ store \in [Keys -> LockStates]
      /\ run[r] \in RunStates /\ run[r].lane = "still" /\ faults \in 0..MaxFaults
  BY DEF LockInv, LockTypeOK, Steady, StillOnly, Steals
<1>2. run[r].level \in 1..2 /\ Key(r) \in Keys
  BY <1>1, KeysAre DEF RunStates
<1>3. /\ x \in RunStates /\ StillOnly(x) /\ x.pc = "retake"
      /\ x.lane = "still" /\ x.level = run[r].level
  <2>1. /\ x \in RunStates /\ x.pc = "retake"
        /\ x.lane = run[r].lane /\ x.level = run[r].level
    BY <1>1, RecoveryIs
  <2>2. QED  BY <1>1, <2>1 DEF StillOnly
<1>4. /\ Becomes(r, x) /\ store' = [store EXCEPT ![Key(r)] = Free]
      /\ lapsed' = (IF \E q \in Runs : Needed(Key(r), q) THEN lapsed \cup {"still"} ELSE lapsed)
      /\ UNCHANGED <<touch, faults>> /\ run[r].pc = "steal"
  BY DEF Steals
<1>5. /\ store' \in [Keys -> LockStates] /\ lapsed \subseteq lapsed' /\ lapsed' \subseteq Lanes
      /\ \A k \in Keys : k # Key(r) => store'[k] = store[k]
  BY <1>1, <1>2, <1>4, LocksAre DEF LockInv, LockTypeOK, Lanes
<1>6. run' \in [Runs -> RunStates] /\ Steady' /\ LaneHeld'
  <2>1. LockTypeOK /\ Steady /\ LaneHeld
    BY DEF LockInv
  <2>2. run'[r] = x /\ \A q \in Runs : q # r => run'[q] = run[q]
    BY <1>1, <1>4 DEF Becomes
  <2>3. run' \in [Runs -> RunStates] /\ Steady'
    BY <1>1, <1>3, <1>4, <2>1, <2>2 DEF Steady, Becomes
  <2>4. ASSUME NEW q \in Runs, InLane(q)' PROVE InLane(q) /\ run'[q].lane = run[q].lane
    <3>1. CASE q # r
      BY <2>2, <2>4, <3>1 DEF InLane, Painting
    <3>2. CASE q = r
      <4>1. x.level = 2 /\ run[r].level = 2
        BY <1>3, <2>2, <2>4, <3>2 DEF InLane, Painting
      <4>2. QED  BY <1>1, <1>3, <1>4, <2>2, <3>2, <4>1 DEF InLane, Acquiring
    <3>3. QED  BY <3>1, <3>2
  <2>5. ASSUME OneRunEach, NEW q \in Runs, InLane(q)', run'[q].lane \notin lapsed'
        PROVE  store'[LaneKey(run'[q].lane)].by = Home[q]
    <3>1. InLane(q) /\ run'[q].lane = run[q].lane /\ run[q].lane \in Lanes
      BY <2>1, <2>4, <2>5, LaneIs
    <3>2. Mine(q, LaneKey(run[q].lane))
      BY <1>5, <2>1, <2>5, <3>1 DEF LaneHeld
    <3>3. Key(r) # LaneKey(run[q].lane)
      <4>1. SUFFICES ASSUME Key(r) = LaneKey(run[q].lane) PROVE FALSE
        OBVIOUS
      <4>2. run[q].lane = "still"
        BY <1>1, <4>1 DEF Key, LaneKey
      <4>3. Needed(Key(r), q)
        BY <3>1, <3>2, <4>1 DEF Needed, LaneKey
      <4>4. "still" \in lapsed'
        BY <1>4, <4>3
      <4>5. QED  BY <2>5, <3>1, <4>2, <4>4
    <3>4. QED  BY <1>5, <3>1, <3>2, <3>3, LaneKeyIs DEF Mine
  <2>6. QED  BY <2>3, <2>5 DEF LaneHeld, Mine, OneRunEach
<1>7. LockTypeOK'
  BY <1>1, <1>4, <1>5, <1>6 DEF LockInv, LockTypeOK
<1>8. run'[r].pc = "retake"
  BY <1>1, <1>3, <1>4 DEF Becomes
<1>9. \A k \in Keys : Own(k)
  BY <1>1, <1>4, <1>8 DEF Own
<1>10. QED  BY <1>6, <1>7, <1>9 DEF LockInv

LEMMA FinishesSafe ==
  ASSUME LockInv, NEW r \in Runs, Finishes(r)
  PROVE  LockInv' /\ \A k \in Keys : Own(k)
<1>1. store \in [Keys -> LockStates] /\ run[r] \in RunStates /\ faults \in 0..MaxFaults
  BY DEF LockInv, LockTypeOK
<1>2. Harmless(At(run[r], "inner", 1)) /\ Harmless(At(run[r], "final", 1))
  <2>1. 1 \in 1..2
    OBVIOUS
  <2>2. QED  BY <1>1, <2>1, AtHarmless, PointsAre
<1>3. PICK x : Harmless(x) /\ Becomes(r, x)
  BY <1>2 DEF Finishes
<1>4. UNCHANGED <<store, touch, faults, lapsed>>
  BY DEF Finishes
<1>5. QED  BY <1>1, <1>3, <1>4, HarmlessStep, OutsideGoesOn

LEMMA OvertakenSafe ==
  ASSUME LockInv, NEW r \in Runs, ReleaseOvertaken(r)
  PROVE  LockInv' /\ \A k \in Keys : Own(k)
<1> DEFINE j == ReleasedKey(r)
<1>1. /\ run \in [Runs -> RunStates] /\ store \in [Keys -> LockStates]
      /\ touch \in [Runs -> Keys \cup {NoKey}]
      /\ run[r] \in RunStates /\ faults \in 0..MaxFaults /\ j \in Keys
  BY KeysAre DEF LockInv, LockTypeOK
<1>2. PICK q \in Runs :
        /\ run[r].pc \in Releasing /\ store' = [store EXCEPT ![j].known = "lost"]
        /\ touch' = [touch EXCEPT ![q] = NoKey]
        /\ Becomes(r, AfterRelease(run[r])) /\ UNCHANGED <<faults, lapsed>>
  BY DEF ReleaseOvertaken
<1>3. GoesOn(run[r], AfterRelease(run[r])) /\ Outside(AfterRelease(run[r]))
  BY <1>1, <1>2, ReleaseIs, OutsideGoesOn
<1>4. touch' \in [Runs -> Keys \cup {NoKey}]
  BY <1>1, <1>2
<1>5. /\ [store[j] EXCEPT !.known = "lost"] \in LockStates
      /\ [store[j] EXCEPT !.known = "lost"].by = store[j].by
  <2>1. "lost" \in Runs \cup {"held", "lost"} /\ store[j] \in LockStates
    BY <1>1
  <2>2. QED  BY <2>1, SameTaker
<1>6. store' = [store EXCEPT ![j] = [store[j] EXCEPT !.known = "lost"]]
  BY <1>1, <1>2
<1>7. store' \in [Keys -> LockStates] /\ \A k \in Keys : store'[k].by = store[k].by
  BY <1>1, <1>5, <1>6
<1>8. QED  BY <1>1, <1>2, <1>3, <1>4, <1>7, HarmlessMove

LEMMA ReleasesSafe ==
  ASSUME LockInv, NEW r \in Runs, Releases(r) \/ ReleaseLost(r)
  PROVE  LockInv' /\ \A k \in Keys : Own(k)
<1> DEFINE j == ReleasedKey(r)
<1>1. /\ run \in [Runs -> RunStates] /\ store \in [Keys -> LockStates]
      /\ run[r] \in RunStates /\ faults \in 0..MaxFaults /\ j \in Keys
  BY KeysAre DEF LockInv, LockTypeOK
<1>2. /\ GoesOn(run[r], AfterRelease(run[r])) /\ Outside(AfterRelease(run[r]))
      /\ AfterRelease(run[r]) # run[r]
      /\ Becomes(r, AfterRelease(run[r])) /\ UNCHANGED <<touch, lapsed>>
  BY <1>1, ReleaseIs, OutsideGoesOn DEF Releases, ReleaseLost
<1>3. CASE Releases(r)
  <2>1. CASE Holds(r, j)
    <3>1. store' = [store EXCEPT ![j] = Free] /\ Mine(r, j)
      BY <1>3, <2>1 DEF Releases, CompareAndDelete, Holds
    <3>2. store' \in [Keys -> LockStates]
      BY <1>1, <3>1, LocksAre
    <3>3. \A k \in Keys : k # j => store'[k] = store[k]
      BY <1>1, <3>1
    <3> HIDE DEF j
    <3>4. QED  BY <1>1, <1>2, <1>3, <3>1, <3>2, <3>3, HarmlessStep DEF Releases
  <2>2. CASE ~Holds(r, j)
    <3>1. UNCHANGED store
      BY <1>3, <2>2 DEF Releases, CompareAndDelete
    <3>2. QED  BY <1>1, <1>2, <1>3, <3>1, HarmlessStep DEF Releases
  <2>3. QED  BY <2>1, <2>2
<1>4. CASE ReleaseLost(r)
  <2>1. store' = [store EXCEPT ![j] = [store[j] EXCEPT !.known = "lost"]]
    BY <1>1, <1>4 DEF ReleaseLost
  <2>2. "lost" \in Runs \cup {"held", "lost"} /\ store[j] \in LockStates
    BY <1>1
  <2>3. /\ [store[j] EXCEPT !.known = "lost"] \in LockStates
        /\ [store[j] EXCEPT !.known = "lost"].by = store[j].by
    BY <2>2, SameTaker
  <2>4. store' \in [Keys -> LockStates] /\ \A k \in Keys : store'[k].by = store[k].by
    BY <1>1, <2>1, <2>3
  <2>5. faults' \in 0..MaxFaults
    BY <1>4, FaultIs DEF ReleaseLost, LockInv
  <2>6. QED  BY <1>2, <2>4, <2>5, HarmlessStep
<1>5. QED  BY <1>3, <1>4

-----------------------------------------------------------------------------
(* Touches, time, crashes and the backend.                                 *)

\* A step that moves no run and leaves every lock with its taker.
LEMMA QuietStep ==
  ASSUME LockInv, UNCHANGED <<run, lapsed>>, faults' \in 0..MaxFaults,
         store' \in [Keys -> LockStates], touch' \in [Runs -> Keys \cup {NoKey}],
         \A k \in Keys : store'[k].by = store[k].by
  PROVE  LockInv' /\ \A k \in Keys : Own(k)
<1>1. LockTypeOK' /\ Steady'
  BY DEF LockInv, LockTypeOK, Steady
<1>2. LaneHeld'
  <2>1. \A r \in Runs : run[r].lane \in Lanes
    BY LaneIs DEF LockInv
  <2>2. QED  BY <2>1, LaneKeyIs DEF LockInv, LaneHeld, InLane, Painting, Mine
<1>3. QED  BY <1>1, <1>2 DEF LockInv, Own

LEMMA TouchSentSafe ==
  ASSUME LockInv, NEW r \in Runs, NEW k \in Keys, TouchSent(r, k)
  PROVE  LockInv' /\ \A j \in Keys : Own(j)
<1>1. /\ store \in [Keys -> LockStates] /\ touch \in [Runs -> Keys \cup {NoKey}]
      /\ faults \in 0..MaxFaults /\ store[k] \in LockStates
  BY DEF LockInv, LockTypeOK
<1>2. store' = [store EXCEPT ![k] = [[store[k] EXCEPT !.known = r] EXCEPT !.stale = FALSE]]
  BY <1>1 DEF TouchSent
<1>3. /\ [store[k] EXCEPT !.known = r] \in LockStates
      /\ [store[k] EXCEPT !.known = r].by = store[k].by
  BY <1>1, SameTaker
<1>4. /\ [[store[k] EXCEPT !.known = r] EXCEPT !.stale = FALSE] \in LockStates
      /\ [[store[k] EXCEPT !.known = r] EXCEPT !.stale = FALSE].by = store[k].by
  BY <1>3, SameTaker
<1>5. store' \in [Keys -> LockStates] /\ \A j \in Keys : store'[j].by = store[j].by
  BY <1>1, <1>2, <1>4
<1>6. touch' \in [Runs -> Keys \cup {NoKey}] /\ UNCHANGED <<run, faults, lapsed>>
  BY <1>1 DEF TouchSent
<1>7. QED  BY <1>1, <1>5, <1>6, QuietStep

LEMMA TouchAnsweredSafe ==
  ASSUME LockInv, NEW r \in Runs, TouchAnswered(r) \/ TouchFails(r)
  PROVE  LockInv' /\ \A j \in Keys : Own(j)
<1> DEFINE k == touch[r]
<1>1. /\ store \in [Keys -> LockStates] /\ touch \in [Runs -> Keys \cup {NoKey}]
      /\ faults \in 0..MaxFaults
  BY DEF LockInv, LockTypeOK
<1>2. k \in Keys /\ store[k] \in LockStates
  BY <1>1 DEF TouchAnswered, TouchFails
<1>3. PICK w \in {"held", "lost"} : store' \in {store, [store EXCEPT ![k].known = w]}
  BY DEF TouchAnswered, TouchFails
<1>4. /\ [store[k] EXCEPT !.known = w] \in LockStates
      /\ [store[k] EXCEPT !.known = w].by = store[k].by
  BY <1>2, SameTaker
<1>5. [store EXCEPT ![k].known = w] = [store EXCEPT ![k] = [store[k] EXCEPT !.known = w]]
  BY <1>1, <1>2
<1>6. store' \in [Keys -> LockStates] /\ \A j \in Keys : store'[j].by = store[j].by
  <2> HIDE DEF k
  <2>1. QED  BY <1>1, <1>2, <1>3, <1>4, <1>5
<1>7. touch' \in [Runs -> Keys \cup {NoKey}] /\ UNCHANGED <<run, lapsed>>
  BY <1>1 DEF TouchAnswered, TouchFails
<1>8. faults' \in 0..MaxFaults
  BY <1>1, FaultIs DEF TouchAnswered, TouchFails, LockInv
<1>9. QED  BY <1>1, <1>6, <1>7, <1>8, QuietStep

LEMMA GoesStaleSafe ==
  ASSUME LockInv, NEW k \in Keys, GoesStale(k)
  PROVE  LockInv' /\ \A j \in Keys : Own(j)
<1>1. /\ store \in [Keys -> LockStates] /\ touch \in [Runs -> Keys \cup {NoKey}]
      /\ faults \in 0..MaxFaults /\ store[k] \in LockStates
  BY DEF LockInv, LockTypeOK
<1>2. store' = [store EXCEPT ![k] = [store[k] EXCEPT !.stale = TRUE]]
  BY <1>1 DEF GoesStale
<1>3. /\ [store[k] EXCEPT !.stale = TRUE] \in LockStates
      /\ [store[k] EXCEPT !.stale = TRUE].by = store[k].by
  BY <1>1, SameTaker
<1>4. store' \in [Keys -> LockStates] /\ \A j \in Keys : store'[j].by = store[j].by
  BY <1>1, <1>2, <1>3
<1>5. faults' \in 0..MaxFaults
  BY <1>1, FaultIs DEF GoesStale, TimePasses, LockInv
<1>6. UNCHANGED <<touch, run, lapsed>>
  BY DEF GoesStale
<1>7. QED  BY <1>1, <1>4, <1>5, <1>6, QuietStep

\* The only step that frees the key of a run in the lane marks it.
LEMMA ExpiresSafe ==
  ASSUME LockInv, NEW k \in Keys, Expires(k)
  PROVE  LockInv' /\ \A j \in Keys : Own(j)
<1>1. /\ store \in [Keys -> LockStates] /\ touch \in [Runs -> Keys \cup {NoKey}]
      /\ faults \in 0..MaxFaults /\ lapsed \subseteq Lanes
  BY DEF LockInv, LockTypeOK
<1>2. store' = [store EXCEPT ![k] = Free] /\ UNCHANGED <<touch, run>>
  BY DEF Expires
<1>3. store' \in [Keys -> LockStates] /\ \A j \in Keys : j # k => store'[j] = store[j]
  BY <1>1, <1>2, LocksAre
<1>4. faults' \in 0..MaxFaults
  BY <1>1, FaultIs DEF Expires, TimePasses, LockInv
<1>5. lapsed' = (IF \E r \in Runs : Needed(k, r) THEN lapsed \cup {k[1]} ELSE lapsed)
  BY DEF Expires
<1>6. LockTypeOK'
  <2>1. lapsed' \subseteq Lanes
    BY <1>1, <1>5 DEF Keys
  <2>2. QED  BY <1>2, <1>3, <1>4, <2>1 DEF LockInv, LockTypeOK
<1>7. Steady'
  BY <1>2 DEF LockInv, Steady
<1>8. LaneHeld'
  <2>1. SUFFICES ASSUME OneRunEach, NEW r \in Runs, InLane(r), run[r].lane \notin lapsed'
                 PROVE  store'[LaneKey(run[r].lane)].by = Home[r]
    BY <1>2 DEF LaneHeld, Mine, InLane, Painting, OneRunEach
  <2>2. run[r].lane \in Lanes /\ Mine(r, LaneKey(run[r].lane))
    BY <1>5, <2>1, LaneIs DEF LockInv, LaneHeld
  <2>3. k # LaneKey(run[r].lane)
    <3>1. SUFFICES ASSUME k = LaneKey(run[r].lane) PROVE FALSE
      OBVIOUS
    <3>2. Needed(k, r) /\ k[1] = run[r].lane
      BY <2>1, <2>2, <3>1 DEF Needed, LaneKey
    <3>3. QED  BY <1>5, <2>1, <3>2
  <2>4. QED  BY <1>3, <2>2, <2>3, LaneKeyIs DEF Mine
<1>9. store[k].stale
  BY DEF Expires
<1>10. \A j \in Keys : Own(j)
  BY <1>3, <1>9 DEF Own
<1>11. QED  BY <1>6, <1>7, <1>8, <1>10 DEF LockInv

LEMMA CrashesSafe ==
  ASSUME LockInv, NEW p \in Processes, Crashes(p)
  PROVE  LockInv' /\ \A j \in Keys : Own(j)
<1>1. /\ store \in [Keys -> LockStates] /\ touch \in [Runs -> Keys \cup {NoKey}]
      /\ run \in [Runs -> RunStates]
  BY DEF LockInv, LockTypeOK
<1>2. /\ store' = [k \in Keys |-> IF store[k].by = p THEN [store[k] EXCEPT !.known = "lost"]
                                  ELSE store[k]]
      /\ touch' = [r \in Runs |-> IF Home[r] = p THEN NoKey ELSE touch[r]]
      /\ run' = [r \in Runs |-> IF Home[r] = p THEN Idle ELSE run[r]]
      /\ UNCHANGED lapsed
  BY DEF Crashes
<1>3. faults' \in 0..MaxFaults
  BY FaultIs DEF Crashes, LockInv
<1>4. \A k \in Keys : /\ [store[k] EXCEPT !.known = "lost"] \in LockStates
                      /\ [store[k] EXCEPT !.known = "lost"].by = store[k].by
  <2>1. "lost" \in Runs \cup {"held", "lost"}
    OBVIOUS
  <2>2. \A k \in Keys : store[k] \in LockStates
    BY <1>1
  <2>3. QED  BY <2>1, <2>2, SameTaker
<1>5. store' \in [Keys -> LockStates] /\ \A k \in Keys : store'[k].by = store[k].by
  BY <1>1, <1>2, <1>4
<1>6. Idle \in RunStates /\ StillOnly(Idle) /\ Idle.pc = "idle"
  BY IdleIs DEF Harmless
<1>7. run' \in [Runs -> RunStates] /\ touch' \in [Runs -> Keys \cup {NoKey}]
  BY <1>1, <1>2, <1>6
<1>8. Steady'
  BY <1>2, <1>6 DEF LockInv, Steady
<1>9. LaneHeld'
  <2>1. \A r \in Runs : InLane(r)' => run'[r] = run[r]
    BY <1>2, <1>6 DEF InLane, Painting, Acquiring
  <2>2. \A r \in Runs : InLane(r)' => InLane(r)
    BY <2>1 DEF InLane, Painting
  <2>3. \A r \in Runs : run[r].lane \in Lanes
    BY LaneIs DEF LockInv
  <2>4. QED  BY <1>2, <1>5, <2>1, <2>2, <2>3, LaneKeyIs DEF LockInv, LaneHeld, Mine, OneRunEach
<1>10. QED  BY <1>2, <1>3, <1>5, <1>7, <1>8, <1>9 DEF LockInv, LockTypeOK, Own

LEMMA BackendDropsSafe ==
  ASSUME LockInv, BackendDrops
  PROVE  LockInv' /\ \A j \in Keys : Own(j)
<1>1. faults' \in 0..MaxFaults
  BY FaultIs DEF BackendDrops, LockInv
<1>2. store' \in [Keys -> LockStates] /\ lapsed' = Lanes
  BY LocksAre DEF BackendDrops
<1>3. UNCHANGED <<touch, run>>
  BY DEF BackendDrops
<1>4. LockTypeOK' /\ Steady'
  BY <1>1, <1>2, <1>3 DEF LockInv, LockTypeOK, Steady
<1>5. LaneHeld'
  BY <1>2, <1>4, LaneIs DEF LaneHeld, LockInv, LockTypeOK, RunStates, Lanes
<1>6. QED  BY <1>3, <1>4, <1>5 DEF LockInv, Own

-----------------------------------------------------------------------------
(* The theorems.                                                           *)

LEMMA LockInvStarts == Init => LockInv
<1>1. SUFFICES ASSUME Init PROVE LockInv
  OBVIOUS
<1>2. Idle \in RunStates /\ Idle.pc = "idle"
  BY IdleIs DEF Harmless
<1>3. run \in [Runs -> RunStates] /\ \A r \in Runs : run[r].pc = "idle"
  BY <1>1, <1>2 DEF Init
<1>4. store \in [Keys -> LockStates] /\ touch \in [Runs -> Keys \cup {NoKey}]
  BY <1>1, LocksAre DEF Init
<1>5. faults \in 0..MaxFaults
  BY <1>1, LockAssumption DEF Init
<1>6. lapsed \subseteq Lanes
  BY <1>1 DEF Init
<1>7. LockTypeOK
  BY <1>3, <1>4, <1>5, <1>6 DEF LockTypeOK
<1>8. QED  BY <1>3, <1>7 DEF LockInv, Steady, StillOnly, LaneHeld, InLane, Painting, Acquiring

LEMMA LockInvStep ==
  ASSUME LockInv, [Next]_vars
  PROVE  LockInv' /\ (UNCHANGED vars \/ \A k \in Keys : Own(k))
<1>1. CASE UNCHANGED vars
  BY <1>1 DEF vars, LockInv, LockTypeOK, Steady, LaneHeld, InLane, Painting, Mine
<1>2. ASSUME NEW r \in Runs, RunNext(r)
      PROVE  LockInv' /\ \A k \in Keys : Own(k)
  BY <1>2, StartSafe, TakesSafe, RefusedSafe, ProbesSafe, StealsSafe, FinishesSafe,
     OvertakenSafe, ReleasesSafe, TouchSentSafe, TouchAnsweredSafe DEF RunNext
<1>3. CASE \E k \in Keys : GoesStale(k) \/ Expires(k)
  BY <1>3, GoesStaleSafe, ExpiresSafe
<1>4. CASE \E p \in Processes : Crashes(p)
  BY <1>4, CrashesSafe
<1>5. CASE BackendDrops
  BY <1>5, BackendDropsSafe
<1>6. QED  BY <1>1, <1>2, <1>3, <1>4, <1>5 DEF Next

LEMMA LockInvAlways == Spec => []LockInv
<1>1. LockInv /\ [Next]_vars => LockInv'
  BY LockInvStep
<1>2. QED  BY <1>1, LockInvStarts, PTL DEF Spec

\* Types, and three attempts at most, in every order of commands and faults.
THEOREM LockTyped == Spec => []LockTypeOK
<1>1. LockInv => LockTypeOK
  BY DEF LockInv
<1>2. QED  BY <1>1, LockInvAlways, PTL

\* No release, retry, touch or crash takes the live lock of another process: only a
\* run that found the key free or stale does, or the backend, or time.
THEOREM ReleasesAreOwn == Spec => LocksAreOwn
<1>1. LockInv /\ [Next]_vars =>
        [\A k \in Keys : Own(k)]_vars
  BY LockInvStep
<1>2. (\A k \in Keys : Own(k)) =>
        \A k \in Keys :
          store[k] # Free /\ ~store[k].stale /\ store'[k].by # store[k].by =>
            \/ \E r \in Runs : run[r].pc = "steal" /\ Key(r) = k /\ run'[r].pc = "retake"
            \/ \E r \in Runs : run'[r] # run[r] /\ Mine(r, k)
            \/ UNCHANGED run
  BY DEF Own
<1>3. QED  BY <1>1, <1>2, LockInvAlways, PTL DEF Spec, LocksAreOwn

\* With one run for each process, whatever the number of processes, no two runs paint
\* together in a lane in which no run past its workspace key has lost it.
THEOREM LanesExcludePaints == Spec => []PaintsExclude
<1>1. LockInv => PaintsExclude
  <2>1. SUFFICES ASSUME LockInv, OneRunEach, NEW r \in Runs, NEW q \in Runs,
                        Painting(r), Painting(q), run[r].lane = run[q].lane,
                        run[r].lane \notin lapsed
                 PROVE  r = q
    BY DEF PaintsExclude
  <2>2. Mine(r, LaneKey(run[r].lane)) /\ Mine(q, LaneKey(run[r].lane))
    BY <2>1 DEF LockInv, LaneHeld, InLane
  <2>3. QED  BY <2>1, <2>2 DEF Mine, OneRunEach
<1>2. QED  BY <1>1, LockInvAlways, PTL
-----------------------------------------------------------------------------
(* Locks left behind.  Every step of a run passes what it owes on to where *)
(* the run goes, except the key that it releases.                          *)

Sound(x) == /\ x \in RunStates /\ StillOnly(x)
            /\ x.pc \in Acquiring => x.level <= x.depth
            /\ x.pc = "backoff" => x.level = 1
Passes(x, y) == Sound(y) /\ \A k \in Keys : Due(x, k) => Due(y, k)

\* The key of a touch under way is not given out of the hands of its run.
TouchesKnown ==
  \A k \in Keys : store[k].known \in Runs =>
    Mine(store[k].known, k) /\ touch[store[k].known] = k
DueInv == /\ LockTypeOK /\ TouchesKnown /\ EveryLockIsDue
          /\ \A r \in Runs : Sound(run[r])

LEMMA KeyIs == \A k \in Keys : k[1] \in Lanes /\ k[2] \in 1..2 /\ k = <<k[1], k[2]>> /\ k # NoKey
BY LockAssumption DEF Keys, Lanes

LEMMA RefusalPasses ==
  ASSUME NEW x, Sound(x), x.pc \in {"take", "retake"}
  PROVE  Passes(x, AfterRefusal(x))
<1>1. /\ x \in RunStates /\ x.level \in 1..2 /\ 1 \in 1..2 /\ x.lane \in {"still", "video"}
      /\ x.try \in 1..3 /\ x.depth \in 1..2 /\ x.level <= x.depth
      /\ x.pc = "retake" => x.lane = "still"
  BY DEF Sound, RunStates, StillOnly, Acquiring
<1>2. GoesOn(x, AfterRefusal(x))
  BY <1>1, RefusalIs DEF Sound
<1>3. CASE x.level = 2 /\ (x.lane = "video" \/ x.pc = "retake" \/ ~Recovers(x))
  <2> DEFINE y == At(x, "backoff", 1)
  <2>1. /\ y \in RunStates /\ y.pc = "backoff" /\ y.level = 1 /\ y.lane = x.lane
        /\ y.depth = x.depth
    BY <1>1, AtIs, PointsAre
  <2>2. AfterRefusal(x) = y
    BY <1>3 DEF AfterRefusal
  <2> HIDE DEF y
  <2>3. Sound(y)
    BY <2>1 DEF Sound, StillOnly, Acquiring
  <2>4. ASSUME NEW k \in Keys, Due(x, k) PROVE Due(y, k)
    BY <1>1, <1>3, <2>1, <2>4, KeyIs DEF Due, Acquiring
  <2>5. QED  BY <2>2, <2>3, <2>4 DEF Passes
<1>4. CASE ~(x.level = 2 /\ (x.lane = "video" \/ x.pc = "retake" \/ ~Recovers(x)))
           /\ x.lane = "still" /\ x.pc = "take" /\ Recovers(x)
  <2> DEFINE y == At(x, "probe", x.level)
  <2>1. /\ y \in RunStates /\ y.pc = "probe" /\ y.level = x.level /\ y.lane = x.lane
    BY <1>1, RecoveryIs
  <2>2. y.depth = x.depth
    BY <1>1 DEF At, RunStates
  <2>3. AfterRefusal(x) = y
    BY <1>4 DEF AfterRefusal
  <2> HIDE DEF y
  <2>4. Sound(y)
    BY <1>1, <1>4, <2>1, <2>2 DEF Sound, StillOnly, Acquiring
  <2>5. ASSUME NEW k \in Keys, Due(x, k) PROVE Due(y, k)
    BY <1>1, <1>4, <2>1, <2>2, <2>5, KeyIs DEF Due, Acquiring
  <2>6. QED  BY <2>3, <2>4, <2>5 DEF Passes
<1>5. CASE ~(x.level = 2 /\ (x.lane = "video" \/ x.pc = "retake" \/ ~Recovers(x)))
           /\ ~(x.lane = "still" /\ x.pc = "take" /\ Recovers(x))
  <2>1. x.level = 1
    BY <1>1, <1>5
  <2>2. ASSUME NEW k \in Keys PROVE ~Due(x, k)
    BY <1>1, <2>1, KeyIs DEF Due, Acquiring
  <2>3. AfterRefusal(x).pc \in {"clear", "idle"}
    <3> DEFINE y == At(x, "clear", 1)
    <3>1. y \in RunStates /\ y.pc = "clear" /\ y.try = x.try
      BY <1>1, AtIs, PointsAre
    <3>2. [y EXCEPT !.try = @ + 1].pc = "clear"
      BY <3>1 DEF RunStates
    <3>3. AfterRefusal(x) \in {[y EXCEPT !.try = @ + 1], Idle}
      BY <1>5 DEF AfterRefusal
    <3> HIDE DEF y
    <3>4. QED  BY <3>2, <3>3, IdleIs
  <2>4. Sound(AfterRefusal(x))
    BY <1>2, <2>3 DEF Sound, GoesOn, Acquiring
  <2>5. QED  BY <2>2, <2>4 DEF Passes
<1>6. QED  BY <1>3, <1>4, <1>5

\* A release passes on everything but its key.
LEMMA ReleasePasses ==
  ASSUME NEW x, Sound(x), x.pc \in Releasing,
         NEW k \in Keys, Due(x, k), k # <<IF x.pc = "inner" THEN "still" ELSE x.lane, x.level>>
  PROVE  Due(AfterRelease(x), k)
<1>1. /\ x \in RunStates /\ x.level \in 1..2 /\ 1 \in 1..2 /\ 2 \in 1..2
      /\ x.lane \in {"still", "video"} /\ x.depth \in 1..2
      /\ x.pc = "backoff" => x.level = 1
  BY DEF Sound, RunStates
<1>2. k[1] = x.lane /\ k[2] <= x.depth /\ k[2] \in 1..2 /\ k = <<k[1], k[2]>>
  BY KeyIs DEF Due
<1>3. x.pc \in {"final", "inner"}
  BY <1>1, <1>2 DEF Due, Releasing, Acquiring
<1>4. CASE x.level < LastLevel(x)
  <2> DEFINE y == [x EXCEPT !.level = 2]
  <2>1. y \in RunStates /\ y.pc = x.pc /\ y.level = 2 /\ y.lane = x.lane /\ y.depth = x.depth
    BY <1>1 DEF RunStates
  <2>2. AfterRelease(x) = y
    BY <1>4 DEF AfterRelease
  <2>3. x.level = 1
    BY <1>1, <1>3, <1>4 DEF LastLevel
  <2> HIDE DEF y
  <2>4. QED  BY <1>1, <1>2, <1>3, <2>1, <2>2, <2>3 DEF Due, Acquiring
<1>5. CASE ~(x.level < LastLevel(x))
  <2>1. x.level >= x.depth
    BY <1>1, <1>3, <1>5 DEF LastLevel
  <2>2. x.pc = "inner" /\ x.lane = "video"
    BY <1>1, <1>2, <1>3, <2>1 DEF Due, Acquiring
  <2> DEFINE y == At(x, "tail", 1)
  <2>3. y.pc = "tail" /\ y.lane = x.lane /\ y.depth = x.depth
    BY <1>1, AtIs, PointsAre
  <2>4. AfterRelease(x) = y
    BY <1>5, <2>2 DEF AfterRelease, AfterReleases
  <2> HIDE DEF y
  <2>5. QED  BY <1>2, <2>2, <2>3, <2>4 DEF Due
<1>6. QED  BY <1>4, <1>5

LEMMA ReleaseSound ==
  ASSUME NEW x, Sound(x), x.pc \in Releasing
  PROVE  Sound(AfterRelease(x))
<1>1. Harmless(AfterRelease(x)) /\ x \in RunStates
  BY ReleaseIs DEF Sound
<1>2. /\ x.level \in 1..2 /\ 1 \in 1..2 /\ x.depth \in 1..2
      /\ x.pc = "backoff" => x.level = 1
  BY <1>1 DEF Sound, RunStates
<1> DEFINE y == AfterRelease(x)
<1>3. y.pc \in Acquiring => y.level <= y.depth
  <2>1. y \in RunStates /\ ~(y.pc \in Acquiring /\ y.level = 2)
    BY <1>1 DEF Harmless, Outside
  <2>2. y.level \in 1..2 /\ y.depth \in 1..2
    BY <2>1 DEF RunStates
  <2>3. QED  BY <2>1, <2>2
<1>4. y.pc # "backoff"
  <2>1. CASE x.level < LastLevel(x)
    <3>1. x.pc # "backoff"
      BY <1>2, <2>1 DEF LastLevel
    <3>2. y.pc = x.pc
      BY <1>1, <1>2, <2>1, LevelIs DEF AfterRelease
    <3>3. QED  BY <3>1, <3>2
  <2>2. CASE ~(x.level < LastLevel(x))
    <3> DEFINE c == At(x, "clear", 1)
    <3>1. /\ At(x, "take", 1).pc = "take" /\ At(x, "refused", 1).pc = "refused"
          /\ At(x, "tail", 1).pc = "tail" /\ c \in RunStates /\ c.pc = "clear"
      BY <1>1, <1>2, AtIs, PointsAre
    <3>2. [c EXCEPT !.try = 3].pc = "clear"
      BY <3>1 DEF RunStates
    <3>3. y \in {At(x, "take", 1), [c EXCEPT !.try = 3], At(x, "refused", 1),
                 At(x, "tail", 1), Idle}
      BY <2>2 DEF AfterRelease, AfterReleases
    <3> HIDE DEF c, y
    <3>4. QED  BY <3>1, <3>2, <3>3, IdleIs
  <2>3. QED  BY <2>1, <2>2
<1>5. QED  BY <1>1, <1>3, <1>4 DEF Sound, Harmless

LEMMA LostIs == "lost" \notin Runs /\ "held" \notin Runs /\ Free.known = "lost"
                /\ \A p \in Processes : Taken(p).by = p /\ Taken(p).known = "held"
BY LockAssumption DEF Free, Taken

LEMMA TouchesKept ==
  ASSUME TouchesKnown, UNCHANGED touch,
         \A k \in Keys : store'[k].known \in Runs =>
           store'[k].by = store[k].by /\ store'[k].known = store[k].known
  PROVE  TouchesKnown'
BY DEF TouchesKnown, Mine

\* A step of one run that passes on what it owes of the locks it leaves.
LEMMA OneRunPasses ==
  ASSUME DueInv, LockTypeOK', TouchesKnown', NEW r \in Runs, NEW x, Sound(x), Becomes(r, x),
         \A k \in Keys : store'[k].known # "lost" =>
           \/ /\ store'[k].by = store[k].by /\ store[k].known # "lost"
              /\ Mine(r, k) /\ Due(run[r], k) => Due(x, k)
           \/ store'[k].by = Home[r] /\ Due(x, k)
  PROVE  DueInv'
<1>1. run'[r] = x /\ \A q \in Runs : q # r => run'[q] = run[q]
  BY DEF DueInv, LockTypeOK, Becomes
<1>2. \A q \in Runs : Sound(run'[q])
  BY <1>1 DEF DueInv
<1>3. ASSUME NEW k \in Keys, store'[k].known # "lost"
      PROVE  \E q \in Runs : store'[k].by = Home[q] /\ Due(run'[q], k)
  <2>1. CASE store'[k].by = Home[r] /\ Due(x, k)
    BY <1>1, <2>1
  <2>2. CASE /\ store'[k].by = store[k].by /\ store[k].known # "lost"
             /\ Mine(r, k) /\ Due(run[r], k) => Due(x, k)
    <3>1. PICK q \in Runs : Mine(q, k) /\ Due(run[q], k)
      BY <2>2 DEF DueInv, EveryLockIsDue
    <3>2. QED  BY <1>1, <2>2, <3>1 DEF Mine
  <2>3. QED  BY <1>3, <2>1, <2>2
<1>4. QED  BY <1>2, <1>3 DEF DueInv, EveryLockIsDue, Mine

\* A step in which no run moves and no token is learnt.
LEMMA NoRunPasses ==
  ASSUME DueInv, LockTypeOK', TouchesKnown', UNCHANGED run,
         \A k \in Keys : store'[k].known # "lost" =>
           store'[k].by = store[k].by /\ store[k].known # "lost"
  PROVE  DueInv'
BY DEF DueInv, EveryLockIsDue, Mine

LEMMA DueTypes ==
  ASSUME DueInv, NEW r \in Runs
  PROVE  /\ store \in [Keys -> LockStates] /\ touch \in [Runs -> Keys \cup {NoKey}]
         /\ run \in [Runs -> RunStates] /\ Sound(run[r])
         /\ run[r].level \in 1..2 /\ run[r].depth \in 1..2 /\ run[r].lane \in Lanes
         /\ Home[r] \in Processes
<1>1. /\ store \in [Keys -> LockStates] /\ touch \in [Runs -> Keys \cup {NoKey}]
      /\ run \in [Runs -> RunStates] /\ Sound(run[r])
  BY DEF DueInv, LockTypeOK
<1>2. run[r] \in RunStates
  BY <1>1
<1>3. QED  BY <1>1, <1>2, LockAssumption DEF RunStates, Lanes

\* A step of one run that writes no lock.
LEMMA OneRunPassesAll ==
  ASSUME DueInv, LockTypeOK', NEW r \in Runs, NEW x, Passes(run[r], x), Becomes(r, x),
         UNCHANGED <<store, touch>>
  PROVE  DueInv'
<1>1. TouchesKnown'
  BY TouchesKept DEF DueInv
<1>2. QED  BY <1>1, OneRunPasses DEF Passes

LEMMA StartDue ==
  ASSUME DueInv, LockTypeOK', NEW r \in Runs, Start(r)
  PROVE  DueInv'
<1>1. PICK q \in Requests[r] :
        Becomes(r, [pc |-> IF q.kind = "redo" THEN "clear" ELSE "take", level |-> 1,
                    try |-> 1, lane |-> q.lane, kind |-> q.kind, depth |-> q.depth])
  BY DEF Start
<1> DEFINE x == [pc |-> IF q.kind = "redo" THEN "clear" ELSE "take", level |-> 1,
                 try |-> 1, lane |-> q.lane, kind |-> q.kind, depth |-> q.depth]
<1>2. run'[r] = x /\ run'[r] \in RunStates
  BY <1>1 DEF Becomes, DueInv, LockTypeOK
<1>3. x \in RunStates /\ x.depth \in 1..2 /\ x.level = 1 /\ x.pc \in {"clear", "take"}
  BY <1>2 DEF RunStates
<1>4. ~\E k \in Keys : Due(run[r], k)
  BY DEF Start, Due, Acquiring
<1>5. UNCHANGED <<store, touch>>
  BY DEF Start
<1> HIDE DEF x
<1>6. Sound(x)
  BY <1>3 DEF Sound, StillOnly, Acquiring
<1>7. Passes(run[r], x)
  BY <1>4, <1>6 DEF Passes
<1>8. QED  BY <1>1, <1>5, <1>7, OneRunPassesAll DEF x

\* A run that has taken its key goes on to the next one, or paints.
LEMMA TakePasses ==
  ASSUME NEW x, Sound(x), x.pc \in {"take", "retake"},
         NEW y, y = IF x.level < x.depth THEN At(x, "take", 2) ELSE At(x, "paint", 1)
  PROVE  Passes(x, y) /\ Due(y, <<x.lane, x.level>>)
<1>1. /\ x \in RunStates /\ x.level \in 1..2 /\ x.depth \in 1..2 /\ x.level <= x.depth
      /\ 1 \in 1..2 /\ 2 \in 1..2
  BY DEF Sound, RunStates, Acquiring
<1>2. CASE x.level < x.depth
  <2>1. y = At(x, "take", 2) /\ x.level = 1 /\ x.depth = 2
    BY <1>1, <1>2
  <2>2. /\ y \in RunStates /\ y.pc = "take" /\ y.level = 2 /\ y.lane = x.lane
        /\ y.depth = x.depth
    <3>1. /\ At(x, "take", 2) \in RunStates /\ At(x, "take", 2).pc = "take"
          /\ At(x, "take", 2).level = 2 /\ At(x, "take", 2).lane = x.lane
          /\ At(x, "take", 2).depth = x.depth
      BY <1>1, AtIs, PointsAre
    <3>2. QED  BY <2>1, <3>1, Zenon
  <2>3. Sound(y)
    BY <2>1, <2>2 DEF Sound, StillOnly, Acquiring
  <2>4. Due(y, <<x.lane, x.level>>)
    BY <2>1, <2>2 DEF Due, Acquiring
  <2>5. ASSUME NEW k \in Keys, Due(x, k) PROVE Due(y, k)
    BY <1>1, <2>1, <2>2, <2>5, KeyIs DEF Due, Acquiring
  <2>6. QED  BY <2>3, <2>4, <2>5 DEF Passes
<1>3. CASE ~(x.level < x.depth)
  <2>1. y = At(x, "paint", 1)
    BY <1>3
  <2>2. /\ y \in RunStates /\ y.pc = "paint" /\ y.level = 1 /\ y.lane = x.lane
        /\ y.depth = x.depth
    <3>1. /\ At(x, "paint", 1) \in RunStates /\ At(x, "paint", 1).pc = "paint"
          /\ At(x, "paint", 1).level = 1 /\ At(x, "paint", 1).lane = x.lane
          /\ At(x, "paint", 1).depth = x.depth
      BY <1>1, AtIs, PointsAre
    <3>2. QED  BY <2>1, <3>1, Zenon
  <2>3. Sound(y)
    BY <2>2 DEF Sound, StillOnly, Acquiring
  <2>4. Due(y, <<x.lane, x.level>>)
    BY <1>1, <2>2 DEF Due
  <2>5. ASSUME NEW k \in Keys, Due(x, k) PROVE Due(y, k)
    BY <2>2, <2>5 DEF Due
  <2>6. QED  BY <2>3, <2>4, <2>5 DEF Passes
<1>4. QED  BY <1>2, <1>3

LEMMA TakesDue ==
  ASSUME DueInv, LockTypeOK', NEW r \in Runs, Takes(r)
  PROVE  DueInv'
<1>1. PICK x : /\ Becomes(r, x) /\ x = IF run[r].level < run[r].depth THEN At(run[r], "take", 2)
                                        ELSE At(run[r], "paint", 1)
  BY DEF Takes
<1>2. /\ run[r].pc \in {"take", "retake"} /\ UNCHANGED touch
      /\ store' = [store EXCEPT ![Key(r)] = Taken(Home[r])]
  BY DEF Takes
<1>3. /\ store \in [Keys -> LockStates] /\ Home[r] \in Processes /\ Key(r) \in Keys
      /\ Sound(run[r])
  BY DueTypes, KeysAre
<1>4. Passes(run[r], x) /\ Due(x, Key(r))
  BY <1>1, <1>2, <1>3, TakePasses DEF Key
<1>5. /\ store'[Key(r)].by = Home[r] /\ store'[Key(r)].known = "held"
      /\ \A k \in Keys : k # Key(r) => store'[k] = store[k]
  BY <1>2, <1>3, LostIs
<1>6. TouchesKnown'
  BY <1>2, <1>5, LostIs, TouchesKept DEF DueInv
<1>7. QED  BY <1>1, <1>4, <1>5, <1>6, OneRunPasses DEF Passes
LEMMA RefusedDue ==
  ASSUME DueInv, LockTypeOK', NEW r \in Runs, Refused(r) \/ TakeUnanswered(r)
  PROVE  DueInv'
<1> DEFINE x == AfterRefusal(run[r])
<1>1. Becomes(r, x) /\ run[r].pc \in {"take", "retake"} /\ UNCHANGED touch
  BY DEF Refused, TakeUnanswered
<1>2. store \in [Keys -> LockStates] /\ Key(r) \in Keys /\ Sound(run[r])
  BY DueTypes, KeysAre
<1>3. Passes(run[r], x)
  BY <1>1, <1>2, RefusalPasses
<1> HIDE DEF x
<1>4. CASE Refused(r)
  BY <1>1, <1>3, <1>4, OneRunPassesAll DEF Refused
<1>5. CASE TakeUnanswered(r)
  <2>1. store' = [store EXCEPT ![Key(r)] = [Taken(Home[r]) EXCEPT !.known = "lost"]]
    BY <1>5 DEF TakeUnanswered
  <2>2. [Taken(Home[r]) EXCEPT !.known = "lost"].known = "lost"
    BY DEF Taken
  <2>3. store'[Key(r)].known = "lost" /\ \A k \in Keys : k # Key(r) => store'[k] = store[k]
    BY <1>2, <2>1, <2>2
  <2>4. TouchesKnown'
    BY <1>1, <2>3, LostIs, TouchesKept DEF DueInv
  <2>5. QED  BY <1>1, <1>3, <2>3, <2>4, OneRunPasses DEF Passes
<1>6. QED  BY <1>4, <1>5

\* A probing run stays at its key, or backs off, or had taken nothing.
LEMMA RecoveryPasses ==
  ASSUME NEW x, Sound(x), x.pc \in {"probe", "steal"}, NEW pc \in {"steal", "retake"}
  PROVE  Passes(x, At(x, pc, x.level))
<1>1. /\ x \in RunStates /\ x.lane = "still" /\ x.level <= x.depth
      /\ pc \in {"probe", "steal", "retake"}
  BY DEF Sound, StillOnly, Acquiring
<1> DEFINE y == At(x, pc, x.level)
<1>2. y \in RunStates /\ y.pc = pc /\ y.level = x.level /\ y.lane = x.lane
  BY <1>1, RecoveryIs
<1>3. y.depth = x.depth
  BY <1>1 DEF At, RunStates
<1> HIDE DEF y
<1>4. Sound(y)
  BY <1>1, <1>2, <1>3 DEF Sound, StillOnly
<1>5. ASSUME NEW k \in Keys, Due(x, k) PROVE Due(y, k)
  BY <1>1, <1>2, <1>3, <1>5 DEF Due, Acquiring
<1>6. Passes(x, y)
  BY <1>4, <1>5 DEF Passes
<1>7. QED  BY <1>6 DEF y

LEMMA ProbePasses ==
  ASSUME NEW x, Sound(x), x.pc = "probe"
  PROVE  Passes(x, IF x.level = 2 THEN At(x, "backoff", 1) ELSE Idle)
<1>1. x \in RunStates /\ x.level \in 1..2 /\ 1 \in 1..2
  BY DEF Sound, RunStates
<1>2. CASE x.level = 2
  <2> DEFINE y == At(x, "backoff", 1)
  <2>1. /\ y \in RunStates /\ y.pc = "backoff" /\ y.level = 1 /\ y.lane = x.lane
        /\ y.depth = x.depth
    BY <1>1, AtIs, PointsAre
  <2> HIDE DEF y
  <2>2. Sound(y)
    BY <2>1 DEF Sound, StillOnly, Acquiring
  <2>3. ASSUME NEW k \in Keys, Due(x, k) PROVE Due(y, k)
    BY <1>1, <1>2, <2>1, <2>3, KeyIs DEF Due, Acquiring
  <2>4. Passes(x, y)
    BY <2>2, <2>3 DEF Passes
  <2>5. QED  BY <1>2, <2>4 DEF y
<1>3. CASE x.level # 2
  <2>1. ASSUME NEW k \in Keys PROVE ~Due(x, k)
    BY <1>1, <1>3, KeyIs DEF Due, Acquiring
  <2>2. Sound(Idle)
    BY IdleIs DEF Sound, Harmless, Acquiring
  <2>3. QED  BY <1>3, <2>1, <2>2 DEF Passes
<1>4. QED  BY <1>2, <1>3

LEMMA ProbesDue ==
  ASSUME DueInv, LockTypeOK', NEW r \in Runs, Probes(r) \/ ProbeUnreadable(r)
  PROVE  DueInv'
<1> DEFINE s == At(run[r], "steal", run[r].level)
           b == IF run[r].level = 2 THEN At(run[r], "backoff", 1) ELSE Idle
<1>1. run[r].pc = "probe" /\ UNCHANGED <<store, touch>>
  BY DEF Probes, ProbeUnreadable
<1>2. Becomes(r, s) \/ Becomes(r, b)
  BY DEF Probes, ProbeUnreadable
<1>3. Sound(run[r])
  BY DueTypes
<1>4. Passes(run[r], s) /\ Passes(run[r], b)
  BY <1>1, <1>3, RecoveryPasses, ProbePasses
<1> HIDE DEF s, b
<1>5. QED  BY <1>1, <1>2, <1>4, OneRunPassesAll

LEMMA StealsDue ==
  ASSUME DueInv, LockTypeOK', NEW r \in Runs, Steals(r)
  PROVE  DueInv'
<1> DEFINE x == At(run[r], "retake", run[r].level)
<1>1. /\ Becomes(r, x) /\ run[r].pc = "steal" /\ UNCHANGED touch
      /\ store' = [store EXCEPT ![Key(r)] = Free]
  BY DEF Steals
<1>2. store \in [Keys -> LockStates] /\ Key(r) \in Keys /\ Sound(run[r])
  BY DueTypes, KeysAre
<1>3. Passes(run[r], x)
  BY <1>1, <1>2, RecoveryPasses
<1> HIDE DEF x
<1>4. store'[Key(r)].known = "lost" /\ \A k \in Keys : k # Key(r) => store'[k] = store[k]
  BY <1>1, <1>2, LostIs
<1>5. TouchesKnown'
  BY <1>1, <1>4, LostIs, TouchesKept DEF DueInv
<1>6. QED  BY <1>1, <1>3, <1>4, <1>5, OneRunPasses DEF Passes

\* A paint that has come back owes its keys to its releases.
LEMMA FinishPasses ==
  ASSUME NEW x, Sound(x), x.pc \in {"paint", "tail"}, NEW pc \in {"inner", "final"},
         x.pc = "paint" \/ pc = "final"
  PROVE  Passes(x, At(x, pc, 1))
<1>1. x \in RunStates /\ 1 \in 1..2 /\ pc \in Points /\ x.lane \in {"still", "video"}
  BY PointsAre DEF Sound, RunStates
<1> DEFINE y == At(x, pc, 1)
<1>2. y \in RunStates /\ y.pc = pc /\ y.level = 1 /\ y.lane = x.lane /\ y.depth = x.depth
  BY <1>1, AtIs
<1> HIDE DEF y
<1>3. Sound(y)
  BY <1>2 DEF Sound, StillOnly, Acquiring
<1>4. ASSUME NEW k \in Keys, Due(x, k) PROVE Due(y, k)
  BY <1>1, <1>2, <1>4, KeyIs DEF Due, Acquiring
<1>5. Passes(x, y)
  BY <1>3, <1>4 DEF Passes
<1>6. QED  BY <1>5 DEF y

LEMMA FinishesDue ==
  ASSUME DueInv, LockTypeOK', NEW r \in Runs, Finishes(r)
  PROVE  DueInv'
<1>1. PICK pc \in {"inner", "final"} :
        /\ run[r].pc \in {"paint", "tail"} /\ (run[r].pc = "paint" \/ pc = "final")
        /\ Becomes(r, At(run[r], pc, 1))
  BY DEF Finishes, Painting
<1>2. Sound(run[r]) /\ UNCHANGED <<store, touch>>
  BY DueTypes DEF Finishes
<1>3. Passes(run[r], At(run[r], pc, 1))
  BY <1>1, <1>2, FinishPasses
<1>4. QED  BY <1>1, <1>2, <1>3, OneRunPassesAll
\* A release frees its key or gives up its token; a touch of it is not unanswered.
LEMMA ReleasesDue ==
  ASSUME DueInv, LockTypeOK', NEW r \in Runs, Releases(r) \/ ReleaseLost(r)
  PROVE  DueInv'
<1> DEFINE x == AfterRelease(run[r])
           j == ReleasedKey(r)
<1>1. /\ Becomes(r, x) /\ run[r].pc \in Releasing /\ UNCHANGED touch /\ Answered(r)
  BY DEF Releases, ReleaseLost
<1>2. store \in [Keys -> LockStates] /\ j \in Keys /\ Sound(run[r])
  BY DueTypes, KeysAre
<1>3. \A k \in Keys : k # j /\ Due(run[r], k) => Due(x, k)
  BY <1>1, <1>2, ReleasePasses DEF ReleasedKey
<1>4. Sound(x)
  BY <1>1, <1>2, ReleaseSound
<1>5. /\ \A k \in Keys : k # j => store'[k] = store[k]
      /\ store'[j].known = "lost" \/ (store'[j] = store[j] /\ ~Holds(r, j))
  <2>1. CASE Releases(r)
    BY <1>2, <2>1, LostIs DEF Releases, CompareAndDelete
  <2>2. CASE ReleaseLost(r)
    <3>1. store' = [store EXCEPT ![j].known = "lost"] /\ store[j] \in LockStates
      BY <1>2, <2>2 DEF ReleaseLost
    <3> HIDE DEF j
    <3>2. QED  BY <1>2, <3>1 DEF LockStates
  <2>3. QED  BY <2>1, <2>2
<1>6. TouchesKnown'
  <2> HIDE DEF j
  <2>1. QED  BY <1>1, <1>2, <1>5, LostIs, TouchesKept DEF DueInv
<1>7. ASSUME Mine(r, j), ~Holds(r, j) PROVE store[j].known = "lost"
  <2>1. store[j] \in LockStates /\ store[j].known # "held"
    BY <1>2, <1>7 DEF Holds
  <2>2. store[j].known \notin Runs
    <3>1. SUFFICES ASSUME NEW q \in Runs, store[j].known = q PROVE FALSE
      OBVIOUS
    <3>2. Mine(q, j) /\ touch[q] = j
      BY <1>2, <3>1 DEF DueInv, TouchesKnown
    <3>3. Home[q] = Home[r] /\ touch[q] = NoKey
      BY <1>1, <1>7, <3>2 DEF Mine, Answered
    <3>4. QED  BY <1>2, <3>2, <3>3, KeyIs
  <2> HIDE DEF j
  <2>3. QED  BY <2>1, <2>2 DEF LockStates
<1> HIDE DEF x, j
<1>8. ASSUME NEW k \in Keys, store'[k].known # "lost"
      PROVE  /\ store'[k].by = store[k].by /\ store[k].known # "lost"
             /\ Mine(r, k) /\ Due(run[r], k) => Due(x, k)
  BY <1>3, <1>5, <1>7, <1>8
<1>9. QED  BY <1>1, <1>4, <1>6, <1>8, OneRunPasses

LEMMA OvertakenDue ==
  ASSUME DueInv, LockTypeOK', NEW r \in Runs, ReleaseOvertaken(r)
  PROVE  DueInv'
<1> DEFINE x == AfterRelease(run[r])
           j == ReleasedKey(r)
<1>1. PICK q \in Runs :
        /\ Becomes(r, x) /\ run[r].pc \in Releasing /\ store[j].known = q
        /\ store' = [store EXCEPT ![j].known = "lost"] /\ touch' = [touch EXCEPT ![q] = NoKey]
  BY DEF ReleaseOvertaken
<1>2. /\ store \in [Keys -> LockStates] /\ j \in Keys /\ Sound(run[r])
      /\ touch \in [Runs -> Keys \cup {NoKey}]
  BY DueTypes, KeysAre
<1>3. \A k \in Keys : k # j /\ Due(run[r], k) => Due(x, k)
  BY <1>1, <1>2, ReleasePasses DEF ReleasedKey
<1>4. Sound(x)
  BY <1>1, <1>2, ReleaseSound
<1> HIDE DEF x, j
<1>5. /\ \A k \in Keys : k # j => store'[k] = store[k]
      /\ store'[j].known = "lost"
  <2>1. store[j] \in LockStates
    BY <1>2
  <2>2. QED  BY <1>1, <1>2, <2>1 DEF LockStates
<1>6. TouchesKnown'
  <2>1. SUFFICES ASSUME NEW k \in Keys, store'[k].known \in Runs
                 PROVE  store'[k].by = Home[store'[k].known] /\ touch'[store'[k].known] = k
    BY DEF TouchesKnown, Mine
  <2>2. k # j /\ store'[k] = store[k]
    BY <1>5, <2>1, LostIs
  <2>3. store[k].by = Home[store[k].known] /\ touch[store[k].known] = k /\ touch[q] = j
    BY <1>1, <1>2, <2>1, <2>2 DEF DueInv, TouchesKnown, Mine
  <2>4. store[k].known # q
    BY <2>2, <2>3
  <2>5. QED  BY <1>1, <1>2, <2>1, <2>2, <2>3, <2>4
<1>7. QED  BY <1>1, <1>3, <1>4, <1>5, <1>6, OneRunPasses

-----------------------------------------------------------------------------
(* Steps that move no run.                                                 *)

LEMMA TouchSentDue ==
  ASSUME DueInv, LockTypeOK', NEW r \in Runs, NEW k \in Keys, TouchSent(r, k)
  PROVE  DueInv'
<1>1. /\ store \in [Keys -> LockStates] /\ store[k] \in LockStates
      /\ touch \in [Runs -> Keys \cup {NoKey}]
  BY DueTypes
<1>2. /\ Mine(r, k) /\ store[k].known = "held" /\ touch[r] = NoKey /\ UNCHANGED run
      /\ touch' = [touch EXCEPT ![r] = k]
      /\ store' = [store EXCEPT ![k] = [[store[k] EXCEPT !.known = r] EXCEPT !.stale = FALSE]]
  BY <1>1 DEF TouchSent, Holds
<1>3. /\ store'[k].by = store[k].by /\ store'[k].known = r
      /\ \A i \in Keys : i # k => store'[i] = store[i]
  BY <1>1, <1>2 DEF LockStates
<1>4. TouchesKnown'
  <2>1. SUFFICES ASSUME NEW i \in Keys, store'[i].known \in Runs
                 PROVE  store'[i].by = Home[store'[i].known] /\ touch'[store'[i].known] = i
    BY DEF TouchesKnown, Mine
  <2>2. CASE i = k
    BY <1>1, <1>2, <1>3, <2>2 DEF Mine
  <2>3. CASE i # k
    <3>1. store'[i] = store[i]
      BY <1>3, <2>3
    <3>2. store[i].by = Home[store[i].known] /\ touch[store[i].known] = i
      BY <2>1, <3>1 DEF DueInv, TouchesKnown, Mine
    <3>3. store[i].known # r
      BY <1>2, <3>2, KeyIs
    <3>4. QED  BY <1>1, <1>2, <2>1, <3>1, <3>2, <3>3
  <2>4. QED  BY <2>2, <2>3
<1>5. QED  BY <1>2, <1>3, <1>4, LostIs, NoRunPasses

LEMMA TouchAnsweredDue ==
  ASSUME DueInv, LockTypeOK', NEW r \in Runs, TouchAnswered(r) \/ TouchFails(r)
  PROVE  DueInv'
<1> DEFINE k == touch[r]
<1>1. /\ store \in [Keys -> LockStates] /\ touch \in [Runs -> Keys \cup {NoKey}]
      /\ k \in Keys /\ store[k] \in LockStates
  BY DueTypes DEF TouchAnswered, TouchFails
<1>2. PICK w \in {"held", "lost"} :
        /\ store' = IF store[k].known = r THEN [store EXCEPT ![k].known = w] ELSE store
        /\ touch' = [touch EXCEPT ![r] = NoKey] /\ UNCHANGED run
  BY DEF TouchAnswered, TouchFails
<1>3. \A i \in Keys :
        /\ store'[i].by = store[i].by
        /\ store'[i].known = IF i = k /\ store[k].known = r THEN w ELSE store[i].known
  <2> HIDE DEF k
  <2>1. QED  BY <1>1, <1>2 DEF LockStates
<1>4. TouchesKnown'
  <2>1. SUFFICES ASSUME NEW i \in Keys, store'[i].known \in Runs
                 PROVE  store'[i].by = Home[store'[i].known] /\ touch'[store'[i].known] = i
    BY DEF TouchesKnown, Mine
  <2>2. store'[i].known = store[i].known /\ ~(i = k /\ store[k].known = r)
    BY <1>3, <2>1, LostIs
  <2>3. store[i].by = Home[store[i].known] /\ touch[store[i].known] = i
    BY <2>1, <2>2 DEF DueInv, TouchesKnown, Mine
  <2>4. store[i].known # r
    BY <2>2, <2>3
  <2>5. QED  BY <1>1, <1>2, <1>3, <2>1, <2>2, <2>3, <2>4
<1>5. \A i \in Keys : store'[i].known # "lost" => store[i].known # "lost"
  BY <1>3, LostIs
<1>6. QED  BY <1>2, <1>3, <1>4, <1>5, NoRunPasses
LEMMA TimeDue ==
  ASSUME DueInv, LockTypeOK', NEW k \in Keys, GoesStale(k) \/ Expires(k)
  PROVE  DueInv'
<1>1. /\ store \in [Keys -> LockStates] /\ store[k] \in LockStates /\ UNCHANGED <<touch, run>>
  BY DEF DueInv, LockTypeOK, GoesStale, Expires
<1>2. /\ \A i \in Keys : i # k => store'[i] = store[i]
      /\ store'[k].known = "lost" \/ (store'[k].by = store[k].by /\ store'[k].known = store[k].known)
  <2>1. CASE GoesStale(k)
    BY <1>1, <2>1 DEF GoesStale, LockStates
  <2>2. CASE Expires(k)
    BY <1>1, <2>2, LostIs DEF Expires
  <2>3. QED  BY <2>1, <2>2
<1>3. TouchesKnown'
  BY <1>1, <1>2, LostIs, TouchesKept DEF DueInv
<1>4. QED  BY <1>1, <1>2, <1>3, NoRunPasses

LEMMA BackendDropsDue ==
  ASSUME DueInv, LockTypeOK', BackendDrops
  PROVE  DueInv'
<1>1. UNCHANGED <<touch, run>> /\ \A k \in Keys : store'[k].known = "lost"
  BY LostIs DEF BackendDrops
<1>2. TouchesKnown'
  BY <1>1, LostIs, TouchesKept DEF DueInv
<1>3. QED  BY <1>1, <1>2, NoRunPasses

\* A crash forgets the tokens of its process, and touches no run of another.
LEMMA CrashesDue ==
  ASSUME DueInv, LockTypeOK', NEW p \in Processes, Crashes(p)
  PROVE  DueInv'
<1>1. /\ store \in [Keys -> LockStates] /\ touch \in [Runs -> Keys \cup {NoKey}]
      /\ run \in [Runs -> RunStates]
  BY DEF DueInv, LockTypeOK
<1>2. /\ \A k \in Keys : store'[k] = IF store[k].by = p THEN [store[k] EXCEPT !.known = "lost"]
                                     ELSE store[k]
      /\ \A r \in Runs : /\ touch'[r] = IF Home[r] = p THEN NoKey ELSE touch[r]
                         /\ run'[r] = IF Home[r] = p THEN Idle ELSE run[r]
  BY DEF Crashes
<1>3. \A k \in Keys : store'[k].known # "lost" => store'[k] = store[k] /\ store[k].by # p
  BY <1>1, <1>2 DEF LockStates
<1>4. TouchesKnown'
  <2>1. SUFFICES ASSUME NEW k \in Keys, store'[k].known \in Runs
                 PROVE  store'[k].by = Home[store'[k].known] /\ touch'[store'[k].known] = k
    BY DEF TouchesKnown, Mine
  <2>2. store'[k] = store[k] /\ store[k].by # p
    BY <1>3, <2>1, LostIs
  <2>3. store[k].by = Home[store[k].known] /\ touch[store[k].known] = k
    BY <2>1, <2>2 DEF DueInv, TouchesKnown, Mine
  <2>4. QED  BY <1>2, <2>1, <2>2, <2>3
<1>5. EveryLockIsDue'
  <2>1. SUFFICES ASSUME NEW k \in Keys, store'[k].known # "lost"
                 PROVE  \E r \in Runs : store'[k].by = Home[r] /\ Due(run'[r], k)
    BY DEF EveryLockIsDue, Mine
  <2>2. store'[k] = store[k] /\ store[k].by # p
    BY <1>3, <2>1
  <2>3. PICK r \in Runs : store[k].by = Home[r] /\ Due(run[r], k)
    BY <2>1, <2>2 DEF DueInv, EveryLockIsDue, Mine
  <2>4. QED  BY <1>2, <2>2, <2>3
<1>6. \A r \in Runs : Sound(run'[r])
  <2>1. Sound(Idle)
    BY IdleIs DEF Sound, Harmless, Acquiring
  <2>2. QED  BY <1>2, <2>1 DEF DueInv
<1>7. QED  BY <1>4, <1>5, <1>6 DEF DueInv

LEMMA DueStarts == Init => DueInv
<1>1. SUFFICES ASSUME Init PROVE DueInv
  OBVIOUS
<1>2. \A k \in Keys : store[k].known = "lost"
  BY <1>1, LostIs DEF Init
<1>3. TouchesKnown /\ EveryLockIsDue
  BY <1>2, LostIs DEF TouchesKnown, EveryLockIsDue
<1>4. \A r \in Runs : Sound(run[r])
  <2>1. Sound(Idle)
    BY IdleIs DEF Sound, Harmless, Acquiring
  <2>2. QED  BY <1>1, <2>1 DEF Init
<1>5. LockTypeOK
  BY <1>1, LockInvStarts DEF LockInv
<1>6. QED  BY <1>3, <1>4, <1>5 DEF DueInv

LEMMA DueStep == ASSUME DueInv, LockTypeOK', [Next]_vars PROVE DueInv'
<1>1. CASE UNCHANGED vars
  BY <1>1 DEF vars, DueInv, LockTypeOK, TouchesKnown, EveryLockIsDue, Mine
<1>2. ASSUME NEW r \in Runs, RunNext(r) PROVE DueInv'
  BY <1>2, StartDue, TakesDue, RefusedDue, ProbesDue, StealsDue, FinishesDue, ReleasesDue,
     OvertakenDue, TouchSentDue, TouchAnsweredDue DEF RunNext
<1>3. CASE \E k \in Keys : GoesStale(k) \/ Expires(k)
  BY <1>3, TimeDue
<1>4. CASE \E p \in Processes : Crashes(p)
  BY <1>4, CrashesDue
<1>5. CASE BackendDrops
  BY <1>5, BackendDropsDue
<1>6. QED  BY <1>1, <1>2, <1>3, <1>4, <1>5 DEF Next

\* No lock is left to its TTL as long as the process that took it knows the token: one of
\* its runs is going to release it, for any requests, runs, processes and faults.
THEOREM LocksAreDue == Spec => []EveryLockIsDue
<1>1. DueInv /\ LockInv' /\ [Next]_vars => DueInv'
  BY DueStep DEF LockInv
<1>2. DueInv => EveryLockIsDue
  BY DEF DueInv
<1>3. QED  BY <1>1, <1>2, DueStarts, LockInvAlways, PTL DEF Spec
=============================================================================
