-------------------------- MODULE QueueTimely_proofs --------------------------
(***************************************************************************)
(* Proofs about the timely specifications of ProductionQueue, in which no  *)
(* message is applied after the row it is about was taken from its worker: *)
(* what the pass holds, what is on BullMQ and what is in flight in the     *)
(* table are then about the same paints, for any slots, reasons and bounds.*)
(***************************************************************************)
EXTENDS ProductionQueue_proofs

-----------------------------------------------------------------------------
(* Rows in flight.                                                         *)

\* A claim that no watchdog may touch.
Good(r) == InFlight(r) /\ r.touched = "now" /\ r.claimed = "fresh"

\* If q is in flight, r was, with the same error, and was no less alive.
Fades(r, q) ==
  InFlight(q) => /\ InFlight(r) /\ q.err = r.err
                 /\ q.touched = "now" => r.touched = "now"
                 /\ q.claimed = "fresh" => r.claimed = "fresh"

\* The statements that take a row out of flight.
LEMMA TakenOut ==
  ASSUME NEW r \in Row
  PROVE  /\ \A named : ~InFlight(MarkReady(r, named))
         /\ ~InFlight(MarkSkipped(r)) /\ ~InFlight(ReclaimStale(r))
         /\ ~InFlight(ReclaimSilent(r)) /\ ~InFlight(OpsTerminate(r)) /\ ~InFlight(ReopenBilling(r))
         /\ ~InFlight(NewRow)
<1>1. /\ \A named : ~InFlight(MarkReady(r, named))
      /\ ~InFlight(MarkSkipped(r)) /\ ~InFlight(ReclaimStale(r))
  BY DEF InFlight, MarkReady, MarkSkipped, ReclaimStale, Released, Row
<1>2. ~InFlight(ReclaimSilent(r)) /\ ~InFlight(OpsTerminate(r)) /\ ~InFlight(ReopenBilling(r))
  BY DEF InFlight, ReclaimSilent, OpsTerminate, ReopenBilling, Released, Row
<1>3. QED  BY <1>1, <1>2 DEF InFlight, NewRow, NoRow

LEMMA CompletedOut ==
  ASSUME NEW r \in Row, NEW c
  PROVE  ~InFlight(ApplyCompletion(r, c)) /\ ~InFlight(MarkFailed(r, c)) /\ ~InFlight(MarkDeferred(r, c))
<1>1. ~InFlight(MarkFailed(r, c)) /\ ~InFlight(MarkDeferred(r, c))
  BY DEF InFlight, MarkFailed, MarkDeferred, Released, Row
<1>2. ~InFlight(MarkReady(r, TRUE)) /\ ~InFlight(MarkReady(r, FALSE))
  BY TakenOut
<1>3. QED  BY <1>1, <1>2 DEF ApplyCompletion

\* A requeue leaves no row in flight that it reopens.
LEMMA ReopenedOut ==
  ASSUME NEW r \in Row, NEW g \in BOOLEAN, NEW b \in BOOLEAN
  PROVE  ~InFlight(ReopenExhausted(r, g, b)) /\ ~InFlight(ReopenFailed(r, b))
BY DEF InFlight, ReopenExhausted, ReopenFailed, Released, Row

\* A claim is fresh and keeps the error.
LEMMA ClaimedIs ==
  ASSUME NEW r \in Row, NEW told \in BOOLEAN
  PROVE  /\ Good(ClaimRow(r, told)) /\ ClaimRow(r, told).status = "claimed"
         /\ ClaimRow(r, told).err = r.err
BY DEF Good, InFlight, ClaimRow, Row

\* A heartbeat, and the mark that the row runs, change no claim that is good.
LEMMA MarksAre ==
  ASSUME NEW r \in Row, InFlight(r) => Good(r)
  PROVE  /\ TouchRunning(r) = r
         /\ Fades(r, MarkRunning(r)) /\ (Good(r) => Good(MarkRunning(r)))
         /\ (InFlight(MarkRunning(r)) => Good(MarkRunning(r)))
BY DEF Good, InFlight, TouchRunning, MarkRunning, Fades, Row

\* Time alone brings no row into flight.
LEMMA AgedFades ==
  ASSUME NEW r \in Row, NEW q \in Aged(r)
  PROVE  Fades(r, q) /\ q.status = r.status
BY DEF Aged, Fades, InFlight, Row

-----------------------------------------------------------------------------
(* The invariant.                                                          *)

InHand == {"claimed", "enqueued"}

\* What is on BullMQ has a good claim.
WorkIsGood == \A s \in Slots : delivery[s] # "none" => Good(job[s])

\* What the pass holds is a claim of its own that is not on BullMQ yet, or was put there.
HandIsGood ==
  pass.pc \in InHand =>
    /\ pass.slot \in Slots
    /\ pass.pc = "claimed" => /\ job[pass.slot].status = "claimed" /\ Good(job[pass.slot])
                              /\ delivery[pass.slot] = "none"
    /\ pass.pc = "enqueued" => (InFlight(job[pass.slot]) => Good(job[pass.slot]))

\* No claim carries an error that the sweep of the watchdog settles.
ClaimsAreClean == \A s \in Slots : InFlight(job[s]) => ~TerminalError(job[s])

InStep ==
  /\ RowsSound
  /\ WorkIsGood /\ HandIsGood /\ ClaimsAreClean
  /\ OneLivePerLane /\ PausedReelsAreNotPainted

AllFade == \A s \in Slots : Fades(job[s], job'[s])

\* Rows that only fade stay clean, one live per lane, and no paused reel comes in flight.
LEMMA FadingKeeps ==
  ASSUME InStep, AllFade, \A s \in Reels : ReelsPaused => canvas'[s] = canvas[s]
  PROVE  ClaimsAreClean' /\ OneLivePerLane' /\ PausedReelsAreNotPainted'
<1>1. ClaimsAreClean'
  BY DEF InStep, AllFade, Fades, ClaimsAreClean, TerminalError
<1>2. \A s \in Slots : Alive(s)' => Alive(s)
  BY DEF AllFade, Fades, Alive
<1>3. OneLivePerLane'
  BY <1>2 DEF InStep, OneLivePerLane
<1>4. \A s \in Reels : s \in Slots
  BY QueueAssumption DEF QueueAssumption
<1>5. PausedReelsAreNotPainted'
  BY <1>4 DEF InStep, AllFade, Fades, PausedReelsAreNotPainted
<1>6. QED  BY <1>1, <1>3, <1>5

\* A slot that is on BullMQ or in the hands of the pass.
Guarded(s) == delivery[s] # "none" \/ (pass.pc \in InHand /\ pass.slot = s)

\* Steps of nobody who holds a slot: they leave the good claims of guarded slots alone.
Background ==
  /\ \A s \in Slots : Fades(job[s], job'[s])
  /\ \A s \in Slots : Guarded(s) /\ Good(job[s]) => Good(job'[s]) /\ job'[s].status = job[s].status
  /\ delivery' = delivery /\ canvas' = canvas
  /\ pass' = pass \/ pass'.pc \notin InHand

LEMMA BackgroundKeeps ==
  ASSUME InStep, RowsSound', Background
  PROVE  InStep'
<1>1. AllFade
  BY DEF Background, AllFade
<1>2. ClaimsAreClean' /\ OneLivePerLane' /\ PausedReelsAreNotPainted'
  BY <1>1, FadingKeeps DEF Background
<1>3. WorkIsGood'
  BY DEF Background, Guarded, InStep, WorkIsGood
<1>4. HandIsGood'
  <2>1. CASE pass'.pc \notin InHand
    BY <2>1 DEF HandIsGood
  <2>2. CASE pass'.pc \in InHand
    <3>1. pass' = pass /\ pass.pc \in InHand
      BY <2>2 DEF Background
    <3>2. /\ pass.slot \in Slots /\ Guarded(pass.slot)
          /\ pass.pc = "claimed" => /\ job[pass.slot].status = "claimed" /\ Good(job[pass.slot])
                                    /\ delivery[pass.slot] = "none"
          /\ pass.pc = "enqueued" => (InFlight(job[pass.slot]) => Good(job[pass.slot]))
      BY <3>1 DEF InStep, HandIsGood, Guarded
    <3>3. /\ InFlight(job'[pass.slot]) => InFlight(job[pass.slot])
          /\ Good(job[pass.slot]) => /\ Good(job'[pass.slot])
                                     /\ job'[pass.slot].status = job[pass.slot].status
      BY <3>2 DEF Background, Fades
    <3>4. delivery' = delivery
      BY DEF Background
    <3>5. QED  BY <3>1, <3>2, <3>3, <3>4 DEF HandIsGood
  <2>3. QED  BY <2>1, <2>2
<1>5. QED  BY <1>2, <1>3, <1>4 DEF InStep

-----------------------------------------------------------------------------
(* The steps in the background.                                            *)

\* A row that is taken out of flight fades, and so does one that stays.
LEMMA OutFades == ASSUME NEW r, NEW q, q = r \/ ~InFlight(q) PROVE Fades(r, q)
BY DEF Fades

LEMMA RowsAre == ASSUME InStep PROVE job \in [Slots -> Row] /\ \A s \in Slots : job[s] \in Row
BY DEF InStep, RowsSound, TypeOK

\* A good claim is not stale, and no sweep takes it.
LEMMA GoodIsSafe ==
  ASSUME InStep, NEW s \in Slots, Good(job[s])
  PROVE  /\ ~StaleClaim(job[s]) /\ s \notin Sweepable /\ s \notin SilentRows /\ s \notin StaleRows
         /\ ~Queued(job[s]) /\ job[s].status # "absent" /\ ~(ReelsPaused /\ s \in Reels)
         /\ job[s].status \notin {"exhausted", "failed"}
BY DEF InStep, Good, InFlight, StaleClaim, Sweepable, SilentRows, SilentRowsAll, StaleRows, Queued,
       ClaimsAreClean, PausedReelsAreNotPainted

\* A statement on a set of rows that has no good claim and leaves none in flight.
TakesOut(S) ==
  /\ \A s \in Slots : job'[s] = job[s] \/ (s \in S /\ ~InFlight(job'[s]))
  /\ \A s \in S : ~Good(job[s])

LEMMA TakingOut ==
  ASSUME NEW S, TakesOut(S), delivery' = delivery, canvas' = canvas,
         pass' = pass \/ pass'.pc \notin InHand
  PROVE  Background
BY OutFades DEF TakesOut, Background

LEMMA PassBackground ==
  ASSUME InStep, PassBegins \/ PassReclaims \/ PassEnds \/ PassStops \/ DrainLockExpires
  PROVE  Background
<1>1. job \in [Slots -> Row] /\ \A s \in Slots : job[s] \in Row
  BY RowsAre
<1>2. pass \in [pc : {"idle", "checked", "loop", "claimed", "enqueued", "dead"},
                slot : Slots \cup {NoSlot}, lanes : SUBSET Lanes]
  BY DEF InStep, RowsSound, TypeOK
<1>3. CASE PassBegins
  <2>1. TakesOut(PausedReels)
    BY <1>1, <1>3, TakenOut, GoodIsSafe, QueueAssumption
    DEF PassBegins, PausedReels, Update, TakesOut, QueueAssumption
  <2>2. delivery' = delivery /\ canvas' = canvas /\ (pass' = pass \/ pass'.pc \notin InHand)
    BY <1>2, <1>3 DEF PassBegins, InHand
  <2>3. QED  BY <2>1, <2>2, TakingOut
<1>4. CASE PassReclaims
  <2>1. TakesOut({s \in Slots : StaleClaim(job[s])})
    BY <1>1, <1>4, TakenOut, GoodIsSafe DEF PassReclaims, Update, TakesOut
  <2>2. delivery' = delivery /\ canvas' = canvas /\ pass'.pc \notin InHand
    BY <1>2, <1>4 DEF PassReclaims, InHand
  <2>3. QED  BY <2>1, <2>2, TakingOut
<1>5. CASE PassEnds \/ PassStops \/ DrainLockExpires
  <2>1. job' = job /\ delivery' = delivery /\ canvas' = canvas /\ pass'.pc \notin InHand
    BY <1>5 DEF PassEnds, PassStops, DrainLockExpires, Idle, InHand
  <2>2. TakesOut({})
    BY <2>1 DEF TakesOut
  <2>3. QED  BY <2>1, <2>2, TakingOut
<1>6. QED  BY <1>3, <1>4, <1>5

LEMMA PlanBackground == ASSUME InStep, Plan PROVE Background
<1>1. PICK new \in SUBSET {s \in Slots : job[s].status = "absent"} :
        job' = [s \in Slots |-> IF s \in new THEN NewRow ELSE job[s]]
  BY DEF Plan
<1>2. \A s \in new : ~Good(job[s])
  BY GoodIsSafe
<1>3. ~InFlight(NewRow)
  BY DEF InFlight, NewRow, NoRow
<1>4. TakesOut(new)
  BY <1>1, <1>2, <1>3 DEF TakesOut
<1>5. QED  BY <1>4, TakingOut DEF Plan

LEMMA WatchdogBackground == ASSUME InStep, WatchdogNext PROVE Background
<1>1. \A s \in Slots : job[s] \in Row
  BY RowsAre
<1>2. CASE WatchdogSweeps
  <2>1. TakesOut(Sweepable)
    BY <1>1, <1>2, TakenOut, GoodIsSafe DEF WatchdogSweeps, Update, TakesOut, Sweepable
  <2>2. QED  BY <1>2, <2>1, TakingOut DEF WatchdogSweeps
<1>3. CASE WatchdogReclaimsSilent
  <2>1. TakesOut(SilentRows)
    BY <1>1, <1>3, TakenOut, GoodIsSafe
    DEF WatchdogReclaimsSilent, Update, TakesOut, SilentRows, SilentRowsAll
  <2>2. QED  BY <1>3, <2>1, TakingOut DEF WatchdogReclaimsSilent
<1>4. CASE WatchdogReclaimsStale
  <2>1. TakesOut(StaleRows)
    BY <1>1, <1>4, TakenOut, GoodIsSafe DEF WatchdogReclaimsStale, Update, TakesOut, StaleRows
  <2>2. QED  BY <1>4, <2>1, TakingOut DEF WatchdogReclaimsStale
<1>5. QED  BY <1>2, <1>3, <1>4 DEF WatchdogNext

LEMMA TimeBackground == ASSUME InStep, TimeNext PROVE Background
<1>1. job \in [Slots -> Row] /\ \A s \in Slots : job[s] \in Row
  BY RowsAre
<1>2. PICK s \in Slots :
        \/ BackoffElapses(s) \/ GoesSilent(s, TRUE) \/ ClaimGoesStale(s, TRUE)
        \/ ProviderCoolsDown(s) \/ GrowsOld(s)
  BY DEF TimeNext
<1>3. PICK q \in Aged(job[s]) : job' = [job EXCEPT ![s] = q]
  BY <1>2 DEF BackoffElapses, ProviderCoolsDown, GrowsOld, GoesSilent, ClaimGoesStale, Aged
<1>4. delivery' = delivery /\ canvas' = canvas /\ pass' = pass
  BY <1>2 DEF BackoffElapses, ProviderCoolsDown, GrowsOld, GoesSilent, ClaimGoesStale
<1>5. \A t \in Slots : Fades(job[t], job'[t]) /\ job'[t].status = job[t].status
  BY <1>1, <1>3, AgedFades, OutFades
<1>6. \A t \in Slots \ {s} : job'[t] = job[t]
  BY <1>1, <1>3
<1>7. Guarded(s) /\ Good(job[s]) => Good(job'[s])
  <2>1. CASE BackoffElapses(s) \/ ProviderCoolsDown(s)
    BY <2>1 DEF BackoffElapses, ProviderCoolsDown, Queued, Good, InFlight
  <2>2. CASE GrowsOld(s)
    BY <1>1, <2>2 DEF GrowsOld, Good, InFlight, Row
  <2>3. CASE GoesSilent(s, TRUE) \/ ClaimGoesStale(s, TRUE)
    BY <2>3 DEF GoesSilent, ClaimGoesStale, Good, Guarded
  <2>4. QED  BY <1>2, <2>1, <2>2, <2>3
<1>8. QED  BY <1>4, <1>5, <1>6, <1>7 DEF Background

LEMMA OperatorBackground == ASSUME InStep, OperatorNext PROVE Background
<1>1. \A s \in Slots : job[s] \in Row
  BY RowsAre
<1>2. delivery' = delivery /\ canvas' = canvas /\ (pass' = pass \/ pass'.pc \notin InHand)
  BY DEF OperatorNext, Kick, RequeueFactoryJobs, RequeueBilling, DrainRescheduled, Idle, InHand
<1> DEFINE out == {s \in Slots : ~Good(job[s])}
<1>3. CASE Kick
  <2>1. \A s \in Slots : Boost(job[s]) = job[s] \/ ~InFlight(Boost(job[s]))
    BY <1>1 DEF Boost, Queued, InFlight, Row
  <2>2. \A s \in Slots : Good(job[s]) => Boost(job[s]) = job[s]
    BY GoodIsSafe DEF Boost
  <2>3. TakesOut(out)
    BY <1>1, <1>3, <2>1, <2>2, TakenOut, GoodIsSafe DEF Kick, TakesOut
  <2>4. QED  BY <1>2, <2>3, TakingOut
<1>4. \A s \in Slots : /\ KickedRows[s] = job[s] \/ ~InFlight(KickedRows[s])
                       /\ KickedRows[s] \in Row
                       /\ Good(job[s]) => KickedRows[s] = job[s]
  <2>1. \A s \in Slots : ReclaimStale(job[s]) \in Row
    BY QuietSound DEF InStep, RowsSound, Sound
  <2>2. QED  BY <1>1, <2>1, TakenOut, GoodIsSafe DEF KickedRows, Update
<1>5. CASE RequeueFactoryJobs
  <2>1. PICK g, b \in BOOLEAN : job' = [s \in Slots |->
          IF Requeueable(KickedRows[s], g, b) THEN ReopenExhausted(KickedRows[s], g, b)
          ELSE IF Retryable(KickedRows[s], b) THEN ReopenFailed(KickedRows[s], b)
          ELSE KickedRows[s]]
    BY <1>5 DEF RequeueFactoryJobs
  <2>2. \A s \in Slots : job'[s] = job[s] \/ ~InFlight(job'[s])
    BY <1>4, <2>1, ReopenedOut
  <2>3. \A s \in Slots : Good(job[s]) => job'[s] = job[s]
    BY <1>4, <2>1, GoodIsSafe DEF Requeueable, Retryable
  <2>4. TakesOut(out)
    BY <2>2, <2>3 DEF TakesOut
  <2>5. QED  BY <1>2, <2>4, TakingOut
<1>6. CASE RequeueBilling
  <2>1. \A s \in Slots : job'[s] = job[s] \/ ~InFlight(job'[s])
    BY <1>1, <1>4, <1>6, TakenOut DEF RequeueBilling
  <2>2. \A s \in Slots : Good(job[s]) => job'[s] = job[s]
    BY <1>4, <1>6, GoodIsSafe DEF RequeueBilling, BillingBlocked
  <2>3. TakesOut(out)
    BY <2>1, <2>2 DEF TakesOut
  <2>4. QED  BY <1>2, <2>3, TakingOut
<1>7. QED  BY <1>3, <1>5, <1>6 DEF OperatorNext

-----------------------------------------------------------------------------
(* The steps of the pass with a slot in its hands, and of the worker.      *)

\* The lanes are free where a claim is made, so one row of the lane is alive after it.
LEMMA ClaimKeeps ==
  ASSUME InStep, RowsSound', NEW s \in Slots, PassClaims(s)
  PROVE  InStep'
<1>1. job \in [Slots -> Row] /\ job[s] \in Row
  BY RowsAre
<1>2. PICK told \in BOOLEAN :
        /\ job' = [job EXCEPT ![s] = ClaimRow(job[s], told)]
        /\ delivery' = delivery /\ canvas' = canvas
  BY DEF PassClaims
<1>3. /\ job'[s] = ClaimRow(job[s], told) /\ Good(job'[s]) /\ job'[s].status = "claimed"
      /\ job'[s].err = job[s].err
  BY <1>1, <1>2, ClaimedIs
<1>4. \A t \in Slots \ {s} : job'[t] = job[t]
  BY <1>1, <1>2
<1>5. ~LaneBusy(s) /\ ~TerminalError(job[s]) /\ Runnable(job[s]) /\ ~(ReelsPaused /\ s \in Reels)
  BY DEF PassClaims, Claimable, ClaimReady
<1>6. delivery[s] = "none"
  BY <1>5, GoodIsSafe DEF InStep, WorkIsGood, Runnable
<1>7. WorkIsGood'
  BY <1>2, <1>4, <1>6 DEF InStep, WorkIsGood
<1>8. HandIsGood'
  <2>1. pass \in [pc : {"idle", "checked", "loop", "claimed", "enqueued", "dead"},
                  slot : Slots \cup {NoSlot}, lanes : SUBSET Lanes]
    BY DEF InStep, RowsSound, TypeOK
  <2>2. pass'.pc = "claimed" /\ pass'.slot = s
    BY <2>1 DEF PassClaims
  <2>3. QED  BY <1>2, <1>3, <1>6, <2>2 DEF HandIsGood
<1>9. ClaimsAreClean'
  BY <1>3, <1>4, <1>5 DEF InStep, ClaimsAreClean, TerminalError
<1>10. OneLivePerLane'
  <2>1. \A t \in Slots \ {s} : Alive(t)' => Alive(t)
    BY <1>4 DEF Alive
  <2>2. \A t \in Slots : Lane(t) = Lane(s) => ~Alive(t)
    BY <1>5 DEF LaneBusy
  <2>3. \A t \in Slots \ {s} : Lane(t) = Lane(s) => ~Alive(t)'
    BY <2>1, <2>2
  <2>4. \A t, u \in Slots \ {s} : t # u /\ Lane(t) = Lane(u) => ~(Alive(t)' /\ Alive(u)')
    BY <2>1 DEF InStep, OneLivePerLane
  <2>5. QED  BY <2>3, <2>4 DEF OneLivePerLane
<1>11. PausedReelsAreNotPainted'
  BY <1>2, <1>4, <1>5, QueueAssumption DEF InStep, PausedReelsAreNotPainted, QueueAssumption
<1>12. QED  BY <1>7, <1>8, <1>9, <1>10, <1>11 DEF InStep

\* The pass settles or puts back the slot it has claimed.
LEMMA HandOutKeeps ==
  ASSUME InStep, RowsSound', NEW s \in Slots,
         PassWithholds(s) \/ PassAdopts(s) \/ PassEnqueueRefused(s)
  PROVE  InStep'
<1>1. job \in [Slots -> Row] /\ job[s] \in Row
  BY RowsAre
<1>2. delivery[s] = "none"
  BY DEF InStep, HandIsGood, InHand, PassWithholds, PassAdopts, PassEnqueueRefused
<1>3. PICK q : job' = [job EXCEPT ![s] = q] /\ ~InFlight(q)
  <2>1. /\ ~InFlight(MarkReady(job[s], TRUE)) /\ ~InFlight(MarkFailed(job[s], "shortfall"))
        /\ \A c \in Refusals : ~InFlight(ApplyCompletion(job[s], c))
    BY <1>1, TakenOut, CompletedOut
  <2>2. \E q \in {MarkReady(job[s], TRUE), MarkFailed(job[s], "shortfall")}
                 \cup {ApplyCompletion(job[s], c) : c \in Refusals} :
          job' = [job EXCEPT ![s] = q]
    BY DEF PassWithholds, PassAdopts, PassEnqueueRefused
  <2>3. QED  BY <2>1, <2>2
<1>4. delivery' = delivery /\ canvas' = canvas /\ pass' = [pass EXCEPT !.pc = "loop", !.slot = NoSlot]
  BY DEF PassWithholds, PassAdopts, PassEnqueueRefused, BackToLoop
<1>5. pass'.pc = "loop"
  BY <1>4 DEF InStep, RowsSound, TypeOK
<1>6. AllFade
  BY <1>1, <1>3, OutFades DEF AllFade
<1>7. WorkIsGood'
  BY <1>1, <1>2, <1>3, <1>4 DEF InStep, WorkIsGood
<1>8. HandIsGood'
  BY <1>5 DEF HandIsGood, InHand
<1>9. QED  BY <1>4, <1>6, <1>7, <1>8, FadingKeeps DEF InStep

\* The slot in the hands of the pass goes on BullMQ with its good claim.
LEMMA EnqueueKeeps ==
  ASSUME InStep, RowsSound', NEW s \in Slots, PassEnqueues(s)
  PROVE  InStep'
<1>1. /\ pass \in [pc : {"idle", "checked", "loop", "claimed", "enqueued", "dead"},
                   slot : Slots \cup {NoSlot}, lanes : SUBSET Lanes]
      /\ delivery \in [Slots -> {"none", "waiting", "active", "saved"}]
  BY DEF InStep, RowsSound, TypeOK
<1>2. pass.pc = "claimed" /\ pass.slot = s /\ Good(job[s])
  BY DEF PassEnqueues, InStep, HandIsGood, InHand
<1>3. job' = job /\ canvas' = canvas /\ pass'.pc = "enqueued" /\ pass'.slot = s
  BY <1>1, <1>2 DEF PassEnqueues
<1>4. \A t \in Slots \ {s} : delivery'[t] = delivery[t]
  BY <1>1 DEF PassEnqueues
<1>5. WorkIsGood'
  BY <1>2, <1>3, <1>4 DEF InStep, WorkIsGood
<1>6. HandIsGood'
  BY <1>2, <1>3 DEF HandIsGood
<1>7. AllFade
  BY <1>3, OutFades DEF AllFade
<1>8. QED  BY <1>3, <1>5, <1>6, <1>7, FadingKeeps DEF InStep

\* The answer of the worker may have come first: then the row is not in flight, and stays.
LEMMA RunningKeeps ==
  ASSUME InStep, RowsSound', NEW s \in Slots, PassMarksRunning(s)
  PROVE  InStep'
<1>1. job \in [Slots -> Row] /\ job[s] \in Row
  BY RowsAre
<1>2. InFlight(job[s]) => Good(job[s])
  BY DEF PassMarksRunning, InStep, HandIsGood, InHand
<1>3. /\ job' = [job EXCEPT ![s] = MarkRunning(job[s])] /\ delivery' = delivery /\ canvas' = canvas
      /\ pass'.pc = "loop"
  BY DEF PassMarksRunning
<1>4. Fades(job[s], job'[s]) /\ (Good(job[s]) => Good(job'[s]))
  BY <1>1, <1>2, <1>3, MarksAre
<1>5. AllFade
  BY <1>1, <1>3, <1>4, OutFades DEF AllFade
<1>6. WorkIsGood'
  BY <1>1, <1>3, <1>4 DEF InStep, WorkIsGood
<1>7. HandIsGood'
  BY <1>3 DEF HandIsGood, InHand
<1>8. QED  BY <1>3, <1>5, <1>6, <1>7, FadingKeeps DEF InStep

\* The worker moves its own delivery; what it touches is good already.
LEMMA WorkingKeeps ==
  ASSUME InStep, RowsSound', NEW s \in Slots,
         WorkerStarts(s) \/ Heartbeat(s) \/ RoutePersists(s) \/ CallbackLost(s) \/ WorkerFails(s)
  PROVE  InStep'
<1>1. /\ job \in [Slots -> Row] /\ job[s] \in Row
      /\ delivery \in [Slots -> {"none", "waiting", "active", "saved"}]
      /\ canvas \in [Slots -> {"blank", "painted", "persisted"}]
  BY RowsAre DEF InStep, RowsSound, TypeOK
<1>2. delivery[s] # "none" /\ Good(job[s])
  BY DEF WorkerStarts, Heartbeat, RoutePersists, CallbackLost, WorkerFails, Working, InStep, WorkIsGood
<1>3. job' = job
  <2>1. TouchRunning(job[s]) = job[s]
    BY <1>1, <1>2, MarksAre
  <2>2. QED
    BY <1>1, <2>1 DEF WorkerStarts, Heartbeat, RoutePersists, CallbackLost, WorkerFails
<1>4. pass' = pass /\ \A t \in Slots \ {s} : delivery'[t] = delivery[t] /\ canvas'[t] = canvas[t]
  BY <1>1 DEF WorkerStarts, Heartbeat, RoutePersists, CallbackLost, WorkerFails
<1>5. ~(ReelsPaused /\ s \in Reels)
  BY <1>2, GoodIsSafe
<1>6. \A t \in Reels : ReelsPaused => canvas'[t] = canvas[t]
  BY <1>4, <1>5, QueueAssumption DEF QueueAssumption
<1>7. AllFade
  BY <1>3, OutFades DEF AllFade
<1>8. WorkIsGood'
  BY <1>2, <1>3, <1>4 DEF InStep, WorkIsGood
<1>9. HandIsGood'
  BY <1>2, <1>3, <1>4 DEF InStep, HandIsGood
<1>10. QED  BY <1>6, <1>7, <1>8, <1>9, FadingKeeps DEF InStep

\* A callback takes the row of its own delivery out of flight.
LEMMA CallbackKeeps ==
  ASSUME InStep, RowsSound', NEW s \in Slots, Callback(s)
  PROVE  InStep'
<1>1. /\ job \in [Slots -> Row] /\ job[s] \in Row
      /\ delivery \in [Slots -> {"none", "waiting", "active", "saved"}]
      /\ canvas \in [Slots -> {"blank", "painted", "persisted"}]
  BY RowsAre DEF InStep, RowsSound, TypeOK
<1>2. delivery[s] # "none" /\ Good(job[s])
  BY DEF Callback, CallbackTo, SkipsDuplicate, InStep, WorkIsGood
<1>3. PICK c \in Outcomes :
        job' = [job EXCEPT ![s] = IF job[s].status = "absent" THEN job[s] ELSE ApplyCompletion(job[s], c)]
  BY DEF Callback, CallbackTo, SkipsDuplicate, Answered, Outcomes
<1>4. ~InFlight(job'[s]) /\ \A t \in Slots \ {s} : job'[t] = job[t]
  BY <1>1, <1>3, CompletedOut DEF InFlight
<1>5. delivery' = [delivery EXCEPT ![s] = "none"] /\ pass' = pass
  BY DEF Callback, CallbackTo
<1>6. \A t \in Slots \ {s} : canvas'[t] = canvas[t]
  BY <1>1 DEF Callback, CallbackTo, SkipsDuplicate
<1>7. ~(ReelsPaused /\ s \in Reels)
  BY <1>2, GoodIsSafe
<1>8. \A t \in Reels : ReelsPaused => canvas'[t] = canvas[t]
  BY <1>6, <1>7, QueueAssumption DEF QueueAssumption
<1>9. AllFade
  BY <1>4, OutFades DEF AllFade
<1>10. WorkIsGood'
  BY <1>1, <1>4, <1>5 DEF InStep, WorkIsGood
<1>11. HandIsGood'
  BY <1>1, <1>2, <1>4, <1>5 DEF InStep, HandIsGood
<1>12. QED  BY <1>8, <1>9, <1>10, <1>11, FadingKeeps DEF InStep

LEMMA InStepStep == InStep /\ [TimelyNext \/ OperatorNext]_vars => InStep'
<1> SUFFICES ASSUME InStep, [TimelyNext \/ OperatorNext]_vars PROVE InStep'
  OBVIOUS
<1>1. RowsSound'
  BY RowsSoundStep DEF InStep, Next
<1>2. CASE Plan \/ WatchdogNext \/ TimeNext \/ OperatorNext
  BY <1>1, <1>2, PlanBackground, WatchdogBackground, TimeBackground, OperatorBackground, BackgroundKeeps
<1>3. CASE PassNext
  <2>1. CASE PassBegins \/ PassReclaims \/ PassEnds \/ PassStops \/ DrainLockExpires
    BY <1>1, <2>1, PassBackground, BackgroundKeeps
  <2>2. ASSUME NEW s \in Slots,
               \/ PassClaims(s) \/ PassWithholds(s) \/ PassAdopts(s)
               \/ PassEnqueues(s) \/ PassEnqueueRefused(s) \/ PassMarksRunning(s)
        PROVE  InStep'
    BY <1>1, <2>2, ClaimKeeps, HandOutKeeps, EnqueueKeeps, RunningKeeps
  <2>3. QED  BY <1>3, <2>1, <2>2 DEF PassNext
<1>4. CASE WorkerNext
  BY <1>1, <1>4, WorkingKeeps, CallbackKeeps DEF WorkerNext
<1>5. CASE UNCHANGED vars
  BY <1>1, <1>5, BackgroundKeeps, OutFades DEF vars, Background
<1>6. QED  BY <1>2, <1>3, <1>4, <1>5 DEF TimelyNext

LEMMA InStepInit == Init => InStep
<1> SUFFICES ASSUME Init PROVE InStep
  OBVIOUS
<1>1. \A s \in Slots : ~InFlight(job[s]) /\ delivery[s] = "none" /\ canvas[s] = "blank"
  BY DEF Init, NoRow, InFlight
<1>2. pass.pc = "idle"
  BY DEF Init, Idle
<1>3. \A s \in Reels : s \in Slots
  BY QueueAssumption DEF QueueAssumption
<1>4. QED
  BY <1>1, <1>2, <1>3, RowsSoundInit
  DEF InStep, WorkIsGood, HandIsGood, InHand, ClaimsAreClean, OneLivePerLane, Alive,
      PausedReelsAreNotPainted

LEMMA InStepAlways == OperatedSpec => []InStep
BY InStepInit, InStepStep, PTL DEF OperatedSpec

LEMMA TimelyIsOperated == TimelySpec => OperatedSpec
<1>1. [TimelyNext]_vars => [TimelyNext \/ OperatorNext]_vars
  OBVIOUS
<1>2. QED  BY <1>1, PTL DEF TimelySpec, OperatedSpec

-----------------------------------------------------------------------------
(* What the timely specifications promise of the slots.                    *)

\* What the pass writes after its awaits is about the row that it claimed, also while
\* watchdogs and requeues write the table (drain_production_jobs).
THEOREM HeldIsClaimed == OperatedSpec => []HeldSlotIsClaimed
<1>1. InStep => HeldSlotIsClaimed
  BY DEF InStep, HandIsGood, InHand, HeldSlotIsClaimed
<1>2. QED  BY <1>1, InStepAlways, PTL

\* Neither a reclaim nor a sweep nor a requeue takes the row of a job on BullMQ.
THEOREM WorkKeepsItsRow == OperatedSpec => []WorkHasItsRow
<1>1. InStep => WorkHasItsRow
  BY DEF InStep, WorkIsGood, Good, WorkHasItsRow
<1>2. QED  BY <1>1, InStepAlways, PTL

\* One live produce per lane, for any number of slots (the lane guard of claim_batch).
THEOREM LanesExclude == OperatedSpec => []OneLivePerLane
<1>1. InStep => OneLivePerLane
  BY DEF InStep
<1>2. QED  BY <1>1, InStepAlways, PTL

\* While reels are paused no reel is claimed or painted, also one that is planned or requeued
\* while a pass is under way.
THEOREM PausedReelsWait == OperatedSpec => []PausedReelsAreNotPainted
<1>1. InStep => PausedReelsAreNotPainted
  BY DEF InStep
<1>2. QED  BY <1>1, InStepAlways, PTL

-----------------------------------------------------------------------------
(* Without the operator.  How a row changes, with what is known of it.     *)

TimelyMoved(r, q) ==
  \/ q = r \/ (r.status = "absent" /\ q = NewRow)
  \/ Open(r) /\ UnderCap(r) /\ \E told \in BOOLEAN : q = ClaimRow(r, told)
  \/ InFlight(r) /\ q \in {MarkRunning(r), ReclaimStale(r), ReclaimSilent(r)}
  \/ Open(r) /\ q \in {OpsTerminate(r), MarkSkipped(r)}
  \/ InFlight(r) /\ \E c \in Outcomes : q = ApplyCompletion(r, c)
  \/ q \in Aged(r)
TimelyMoves == \A s \in Slots : TimelyMoved(job[s], job'[s])

LEMMA InFlightIsOpen == ASSUME NEW r, InFlight(r) \/ Queued(r) PROVE Open(r) /\ r.status # "absent"
BY DEF InFlight, Queued, Open, ActiveStatuses

\* One row is written and the others stay.
LEMMA OneRowTimely ==
  ASSUME job \in [Slots -> Row], NEW s \in Slots, NEW q, job' = [job EXCEPT ![s] = q],
         TimelyMoved(job[s], q)
  PROVE  TimelyMoves
BY DEF TimelyMoves, TimelyMoved

LEMMA SetsTimely ==
  ASSUME InStep, Plan \/ WatchdogNext \/ PassBegins \/ PassReclaims
  PROVE  TimelyMoves
<1>1. CASE Plan
  BY <1>1 DEF Plan, TimelyMoves, TimelyMoved
<1>2. CASE WatchdogSweeps
  BY <1>2 DEF WatchdogSweeps, Sweepable, Update, TimelyMoves, TimelyMoved
<1>3. CASE WatchdogReclaimsSilent
  BY <1>3 DEF WatchdogReclaimsSilent, SilentRows, SilentRowsAll, Update, TimelyMoves, TimelyMoved
<1>4. CASE WatchdogReclaimsStale \/ PassReclaims
  BY <1>4 DEF WatchdogReclaimsStale, PassReclaims, StaleRows, StaleClaim, Update, TimelyMoves, TimelyMoved
<1>5. CASE PassBegins
  BY <1>5 DEF PassBegins, PausedReels, Update, TimelyMoves, TimelyMoved
<1>6. QED  BY <1>1, <1>2, <1>3, <1>4, <1>5 DEF WatchdogNext

LEMMA PassTimely ==
  ASSUME InStep, NEW s \in Slots,
         \/ PassClaims(s) \/ PassWithholds(s) \/ PassAdopts(s)
         \/ PassEnqueues(s) \/ PassEnqueueRefused(s) \/ PassMarksRunning(s)
  PROVE  TimelyMoves
<1>1. job \in [Slots -> Row] /\ job[s] \in Row
  BY RowsAre
<1>2. CASE PassClaims(s)
  <2>1. Open(job[s]) /\ UnderCap(job[s])
    BY <1>2, InFlightIsOpen DEF PassClaims, Claimable, ClaimReady, Runnable, StaleClaim
  <2>2. PICK told \in BOOLEAN : job' = [job EXCEPT ![s] = ClaimRow(job[s], told)]
    BY <1>2 DEF PassClaims
  <2>3. TimelyMoved(job[s], ClaimRow(job[s], told))
    BY <2>1 DEF TimelyMoved
  <2>4. QED  BY <1>1, <2>2, <2>3, OneRowTimely
<1>3. CASE PassWithholds(s) \/ PassAdopts(s) \/ PassEnqueueRefused(s)
  <2>1. InFlight(job[s])
    BY <1>3 DEF PassWithholds, PassAdopts, PassEnqueueRefused, InStep, HandIsGood, InHand, InFlight
  <2>2. /\ MarkFailed(job[s], "shortfall") = ApplyCompletion(job[s], "shortfall")
        /\ MarkReady(job[s], TRUE) = ApplyCompletion(job[s], "ready")
    BY DEF ApplyCompletion, DeferReasons
  <2>3. \E c \in Outcomes : job' = [job EXCEPT ![s] = ApplyCompletion(job[s], c)]
    BY <1>3, <2>2 DEF PassWithholds, PassAdopts, PassEnqueueRefused, Refusals, Outcomes
  <2>4. \A c \in Outcomes : TimelyMoved(job[s], ApplyCompletion(job[s], c))
    BY <2>1 DEF TimelyMoved
  <2>5. QED  BY <1>1, <2>3, <2>4, OneRowTimely
<1>4. CASE PassEnqueues(s)
  BY <1>4 DEF PassEnqueues, TimelyMoves, TimelyMoved
<1>5. CASE PassMarksRunning(s)
  <2>1. MarkRunning(job[s]) = job[s] \/ InFlight(job[s])
    BY DEF MarkRunning
  <2>2. TimelyMoved(job[s], MarkRunning(job[s]))
    BY <2>1 DEF TimelyMoved
  <2>3. QED  BY <1>1, <1>5, <2>2, OneRowTimely DEF PassMarksRunning
<1>6. QED  BY <1>2, <1>3, <1>4, <1>5

LEMMA WorkerTimely ==
  ASSUME InStep, NEW s \in Slots,
         \/ WorkerStarts(s) \/ Heartbeat(s) \/ RoutePersists(s)
         \/ Callback(s) \/ CallbackLost(s) \/ WorkerFails(s)
  PROVE  TimelyMoves
<1>1. job \in [Slots -> Row] /\ job[s] \in Row
  BY RowsAre
<1>2. Good(job[s])
  BY DEF WorkerStarts, Heartbeat, RoutePersists, Callback, CallbackTo, SkipsDuplicate, CallbackLost,
         WorkerFails, Working, InStep, WorkIsGood
<1>3. CASE Callback(s)
  <2>1. PICK c \in Outcomes :
          job' = [job EXCEPT ![s] = IF job[s].status = "absent" THEN job[s] ELSE ApplyCompletion(job[s], c)]
    BY <1>3 DEF Callback, CallbackTo, SkipsDuplicate, Answered, Outcomes
  <2>2. InFlight(job[s]) /\ job[s].status # "absent"
    BY <1>2 DEF Good, InFlight
  <2>3. TimelyMoved(job[s], ApplyCompletion(job[s], c))
    BY <2>2 DEF TimelyMoved
  <2>4. QED  BY <1>1, <2>1, <2>2, <2>3, OneRowTimely
<1>4. CASE ~Callback(s)
  <2>1. TouchRunning(job[s]) = job[s]
    BY <1>1, <1>2, MarksAre
  <2>2. job' = job
    BY <1>1, <1>4, <2>1 DEF WorkerStarts, Heartbeat, RoutePersists, CallbackLost, WorkerFails
  <2>3. QED  BY <2>2 DEF TimelyMoves, TimelyMoved
<1>5. QED  BY <1>3, <1>4

LEMMA TimelyRowsMove == ASSUME InStep, [TimelyNext]_vars PROVE TimelyMoves
<1>1. CASE TimeNext
  <2>1. PICK s \in Slots :
          \/ BackoffElapses(s) \/ GoesSilent(s, TRUE) \/ ClaimGoesStale(s, TRUE)
          \/ ProviderCoolsDown(s) \/ GrowsOld(s)
    BY <1>1 DEF TimeNext
  <2>2. PICK q \in Aged(job[s]) : job' = [job EXCEPT ![s] = q]
    BY <2>1 DEF BackoffElapses, ProviderCoolsDown, GrowsOld, GoesSilent, ClaimGoesStale, Aged
  <2>3. TimelyMoved(job[s], q)
    BY DEF TimelyMoved
  <2>4. QED  BY <2>2, <2>3, RowsAre, OneRowTimely
<1>2. CASE PassEnds \/ PassStops \/ DrainLockExpires \/ UNCHANGED vars
  BY <1>2 DEF PassEnds, PassStops, DrainLockExpires, vars, TimelyMoves, TimelyMoved
<1>3. QED
  BY <1>1, <1>2, SetsTimely, PassTimely, WorkerTimely DEF TimelyNext, PassNext, WorkerNext

-----------------------------------------------------------------------------
(* The budget of an open row, and the ledger.                              *)

\* An open row has an attempt left.
HasLeft(r) == Open(r) => r.attempts < r.max

\* q is open with no more left than r, or settled.
Spent(r, q) == Open(q) /\ r.attempts <= q.attempts /\ q.attempts < q.max /\ q.max <= r.max
Ends(r, q) == Spent(r, q) \/ Settled(q)

LEMMA StatusesAre ==
  ASSUME NEW r
  PROVE  /\ r.status \in {"pending", "failed", "claimed", "running"} <=> Open(r)
         /\ r.status \in {"ready", "exhausted", "skipped"} <=> Settled(r)
         /\ ~(Open(r) /\ Settled(r)) /\ (r.status = "absent" => ~Open(r) /\ ~Settled(r))
         /\ (InFlight(r) => Open(r))
BY DEF Open, Settled, ActiveStatuses, TerminalStatuses, InFlight

\* Statements that count nothing.
LEMMA QuietEnds ==
  ASSUME NEW r \in Row, Open(r), r.attempts < r.max
  PROVE  /\ \A told \in BOOLEAN : Ends(r, ClaimRow(r, told))
         /\ \A named \in BOOLEAN : Ends(r, MarkReady(r, named))
         /\ Ends(r, MarkRunning(r)) /\ Ends(r, ReclaimStale(r))
         /\ Ends(r, OpsTerminate(r)) /\ Ends(r, MarkSkipped(r)) /\ Ends(r, r)
<1>1. r.attempts \in Nat /\ r.max \in Nat
  BY DEF Row, HardCap
<1>2. /\ \A told \in BOOLEAN : /\ ClaimRow(r, told).status = "claimed"
                               /\ ClaimRow(r, told).attempts = r.attempts
                               /\ ClaimRow(r, told).max = r.max
      /\ ReclaimStale(r).status = "pending" /\ ReclaimStale(r).attempts = r.attempts
      /\ ReclaimStale(r).max = r.max
  BY DEF ClaimRow, ReclaimStale, Released, Row
<1>3. /\ MarkRunning(r).status \in {"running", r.status} /\ MarkRunning(r).attempts = r.attempts
      /\ MarkRunning(r).max = r.max
  BY DEF MarkRunning, Row
<1>4. /\ OpsTerminate(r).status = "exhausted" /\ MarkSkipped(r).status = "skipped"
      /\ \A named \in BOOLEAN : MarkReady(r, named).status = "ready"
  BY DEF OpsTerminate, MarkSkipped, MarkReady, Released, Row
<1>5. Open(MarkRunning(r))
  BY <1>3, StatusesAre
<1>6. QED  BY <1>1, <1>2, <1>3, <1>4, <1>5, StatusesAre DEF Ends, Spent

\* Statements that may count an attempt.
LEMMA CountingEnds ==
  ASSUME NEW r \in Row, Open(r), r.attempts < r.max, NEW c
  PROVE  Ends(r, ReclaimSilent(r)) /\ Ends(r, MarkDeferred(r, c)) /\ Ends(r, MarkFailed(r, c))
<1>1. /\ r.attempts \in 0..(HardCap + 1) /\ r.max \in 1..HardCap /\ r.attempts < HardCap
      /\ r.attempts \in Nat /\ r.max \in Nat
  BY DEF Row, HardCap
<1>2. Bump(r.attempts) = r.attempts + 1
  BY <1>1, BumpExact
<1>3. Ends(r, ReclaimSilent(r))
  <2>1. /\ ReclaimSilent(r).attempts = r.attempts + 1 /\ ReclaimSilent(r).max = r.max
        /\ ReclaimSilent(r).status = IF r.attempts + 1 >= r.max THEN "exhausted" ELSE "pending"
    BY <1>2 DEF ReclaimSilent, Released, Row
  <2>2. QED  BY <1>1, <2>1, StatusesAre DEF Ends, Spent
<1>4. Ends(r, MarkDeferred(r, c))
  <2> DEFINE counts == c \notin NoPaint
             expired == r.old /\ c \notin Unbounded
             spent == counts /\ r.attempts + 1 >= r.max
  <2>1. /\ MarkDeferred(r, c).status = IF expired \/ spent THEN "exhausted" ELSE "pending"
        /\ MarkDeferred(r, c).attempts = IF expired \/ counts THEN r.attempts + 1 ELSE r.attempts
        /\ MarkDeferred(r, c).max = r.max
    BY <1>2 DEF MarkDeferred, Released, Row
  <2>2. CASE expired \/ spent
    BY <2>1, <2>2, StatusesAre DEF Ends
  <2>3. CASE ~(expired \/ spent)
    <3>1. MarkDeferred(r, c).attempts \in {r.attempts, r.attempts + 1}
      BY <2>1
    <3>2. counts => r.attempts + 1 < r.max
      BY <1>1, <2>3
    <3>3. MarkDeferred(r, c).attempts < r.max
      BY <1>1, <2>1, <2>3, <3>2
    <3>4. QED  BY <1>1, <2>1, <2>3, <3>1, <3>3, StatusesAre DEF Ends, Spent
  <2>4. QED  BY <2>2, <2>3
<1>5. Ends(r, MarkFailed(r, c))
  <2> DEFINE max == LeastCap(r.max, FailureCap(c))
             retryable == c \notin NonRetryable /\ ~RepeatedVerdict(r, c)
  <2>1. max \in Nat /\ max <= r.max
    BY <1>1 DEF LeastCap, FailureCap, HardCap, LookCap
  <2>2. /\ MarkFailed(r, c).attempts = r.attempts + 1 /\ MarkFailed(r, c).max = max
        /\ MarkFailed(r, c).status = IF ~retryable \/ r.attempts + 1 >= max THEN "exhausted" ELSE "failed"
    BY <1>2 DEF MarkFailed, Released, Row
  <2> HIDE DEF max, retryable
  <2>3. CASE ~retryable \/ r.attempts + 1 >= max
    BY <2>2, <2>3, StatusesAre DEF Ends
  <2>4. CASE ~(~retryable \/ r.attempts + 1 >= max)
    BY <1>1, <2>1, <2>2, <2>4, StatusesAre DEF Ends, Spent
  <2>5. QED  BY <2>3, <2>4
<1>6. QED  BY <1>3, <1>4, <1>5

\* An open row ends or goes on with what it has; every other row stays, or is inserted.
LEMMA TimelyRow ==
  ASSUME NEW r \in Row, HasLeft(r), NEW q, TimelyMoved(r, q)
  PROVE  /\ Open(r) => Ends(r, q)
         /\ ~Open(r) => q.status = r.status \/ (r.status = "absent" /\ q = NewRow)
<1>1. ASSUME q \in Aged(r)
      PROVE  q.status = r.status /\ q.attempts = r.attempts /\ q.max = r.max
  BY <1>1 DEF Aged, Row
<1>2. ASSUME Open(r) PROVE Ends(r, q)
  <2>1. r.attempts < r.max /\ r.attempts \in Nat /\ r.max \in Nat /\ r.status # "absent"
    BY <1>2, StatusesAre DEF HasLeft, Row, HardCap
  <2>2. CASE q \in Aged(r)
    <3>1. Open(q)
      BY <1>1, <1>2, <2>2, StatusesAre
    <3>2. QED  BY <1>1, <2>1, <2>2, <3>1 DEF Ends, Spent
  <2>3. ASSUME NEW c, q = ApplyCompletion(r, c) PROVE Ends(r, q)
    BY <1>2, <2>1, <2>3, QuietEnds, CountingEnds DEF ApplyCompletion
  <2>4. QED
    BY <1>2, <2>1, <2>2, <2>3, QuietEnds, CountingEnds DEF TimelyMoved
<1>3. ASSUME ~Open(r)
      PROVE  q.status = r.status \/ (r.status = "absent" /\ q = NewRow)
  BY <1>1, <1>3, StatusesAre DEF TimelyMoved
<1>4. QED  BY <1>2, <1>3

InLedger == InStep /\ \A s \in Slots : HasLeft(job[s])

LEMMA NewRowIs ==
  /\ NewRow.status = "pending" /\ NewRow.attempts = 0 /\ NewRow.max = 3 /\ HasLeft(NewRow)
  /\ NoRow.status = "absent" /\ HasLeft(NoRow)
<1>1. NewRow.status = "pending" /\ NewRow.attempts = 0 /\ NewRow.max = 3 /\ NoRow.status = "absent"
  BY DEF NewRow, NoRow, HardCap
<1>2. QED  BY <1>1, StatusesAre DEF HasLeft

LEMMA InLedgerStep == InLedger /\ [TimelyNext]_vars => InLedger'
<1> SUFFICES ASSUME InLedger, [TimelyNext]_vars PROVE InLedger'
  OBVIOUS
<1>1. InStep'
  BY InStepStep DEF InLedger
<1>2. \A s \in Slots : job[s] \in Row /\ HasLeft(job[s]) /\ TimelyMoved(job[s], job'[s])
  BY RowsAre, TimelyRowsMove DEF InLedger, TimelyMoves
<1>3. ASSUME NEW s \in Slots PROVE HasLeft(job'[s])
  <2>1. CASE Open(job[s])
    <3>1. Ends(job[s], job'[s])
      BY <1>2, <2>1, TimelyRow
    <3>2. QED  BY <3>1, StatusesAre DEF Ends, Spent, HasLeft
  <2>2. CASE ~Open(job[s])
    <3>1. job'[s].status = job[s].status \/ job'[s] = NewRow
      BY <1>2, <2>2, TimelyRow
    <3>2. job'[s].status = job[s].status => ~Open(job'[s])
      BY <2>2, StatusesAre
    <3>3. QED  BY <3>1, <3>2, NewRowIs DEF HasLeft
  <2>3. QED  BY <2>1, <2>2
<1>4. QED  BY <1>1, <1>3 DEF InLedger

LEMMA InLedgerInit == Init => InLedger
BY InStepInit, NewRowIs DEF Init, InLedger

LEMMA InLedgerAlways == TimelySpec => []InLedger
BY InLedgerInit, InLedgerStep, PTL DEF TimelySpec

\* A pending row can be claimed: no statement leaves one without an attempt.
THEOREM PendingStaysClaimable == TimelySpec => []PendingIsClaimable
<1>1. InLedger => PendingIsClaimable
  BY RowsAre, UnderCapIsLeft, StatusesAre DEF InLedger, HasLeft, PendingIsClaimable
<1>2. QED  BY <1>1, InLedgerAlways, PTL

\* A settled slot is settled for good (TERMINAL_STATUSES).
THEOREM SettledStays == TimelySpec => SettledIsFinal
<1>1. InLedger /\ [TimelyNext]_vars
      => [\A s \in Slots : Settled(job[s]) => job'[s].status = job[s].status]_vars
  <2> SUFFICES ASSUME InLedger, [TimelyNext]_vars, NEW s \in Slots, Settled(job[s])
               PROVE  job'[s].status = job[s].status
    OBVIOUS
  <2>1. job[s] \in Row /\ HasLeft(job[s]) /\ TimelyMoved(job[s], job'[s])
    BY RowsAre, TimelyRowsMove DEF InLedger, TimelyMoves
  <2>2. ~Open(job[s]) /\ job[s].status # "absent"
    BY StatusesAre
  <2>3. QED  BY <2>1, <2>2, TimelyRow
<1>2. QED  BY <1>1, InLedgerAlways, PTL DEF TimelySpec, SettledIsFinal

-----------------------------------------------------------------------------
(* The refinement of SlotLedger.                                           *)

\* What the ledger sees of a row.
Outcome(r) == CASE r.status = "absent" -> "unplanned"
                [] r.status = "ready" -> "done"
                [] r.status \in {"exhausted", "skipped"} -> "closed"
                [] OTHER -> "open"
Credit(r) == IF Open(r) THEN r.max - r.attempts ELSE 0

LEMMA OutcomesAre ==
  ASSUME NEW r
  PROVE  /\ Open(r) => Outcome(r) = "open"
         /\ Settled(r) => Outcome(r) \in {"done", "closed"}
         /\ r.status = "absent" => Outcome(r) = "unplanned"
BY DEF Outcome, Open, Settled, ActiveStatuses, TerminalStatuses

\* One row makes one step of the ledger.
LEMMA RowIsLedger ==
  ASSUME NEW r \in Row, HasLeft(r), NEW q \in Row, TimelyMoved(r, q)
  PROVE  \/ Outcome(r) = "unplanned" /\ Outcome(q) = "open" /\ Credit(q) = HardCap
         \/ Outcome(r) = "open" /\ Outcome(q) = "open" /\ Credit(q) \in 1..Credit(r)
         \/ Outcome(r) = "open" /\ Outcome(q) \in {"done", "closed"} /\ Credit(q) = 0
         \/ Outcome(q) = Outcome(r) /\ Credit(q) = Credit(r)
<1>1. /\ r.attempts \in Nat /\ r.max \in Nat /\ q.attempts \in Nat /\ q.max \in Nat
  BY DEF Row, HardCap
<1>2. CASE Open(r)
  <2>1. Ends(r, q)
    BY <1>2, TimelyRow
  <2>2. CASE Spent(r, q)
    <3>1. Open(q) /\ Credit(q) = q.max - q.attempts /\ Credit(r) = r.max - r.attempts
      BY <1>2, <2>2 DEF Spent, Credit
    <3>2. Credit(q) \in 1..Credit(r)
      BY <1>1, <2>2, <3>1 DEF Spent
    <3>3. QED  BY <1>2, <3>1, <3>2, OutcomesAre
  <2>3. CASE Settled(q)
    BY <1>2, <2>3, StatusesAre, OutcomesAre DEF Credit
  <2>4. QED  BY <2>1, <2>2, <2>3 DEF Ends
<1>3. CASE ~Open(r)
  <2>1. q.status = r.status \/ (r.status = "absent" /\ q = NewRow)
    BY <1>3, TimelyRow
  <2>2. CASE q.status = r.status
    <3>1. ~Open(q)
      BY <1>3, <2>2, StatusesAre
    <3>2. Outcome(q) = Outcome(r)
      BY <2>2 DEF Outcome
    <3>3. QED  BY <1>3, <3>1, <3>2 DEF Credit
  <2>3. CASE r.status = "absent" /\ q = NewRow
    <3>1. Open(q) /\ Credit(q) = 3
      BY <2>3, NewRowIs, StatusesAre DEF Credit
    <3>2. QED  BY <2>3, <3>1, OutcomesAre DEF HardCap
  <2>4. QED  BY <2>1, <2>2, <2>3
<1>4. QED  BY <1>2, <1>3

\* The queue implements the ledger: a slot is opened with HARD_SLOT_ATTEMPT_CAP attempts, gets
\* none back, and settles once, whatever crashes, is lost or is reclaimed.
THEOREM QueueImplementsLedger == TimelySpec => ImplementsLedger
<1> DEFINE states == [s \in Slots |->
              CASE job[s].status = "absent" -> "unplanned"
                [] job[s].status = "ready" -> "done"
                [] job[s].status \in {"exhausted", "skipped"} -> "closed"
                [] OTHER -> "open"]
           credits == [s \in Slots |-> IF Open(job[s]) THEN job[s].max - job[s].attempts ELSE 0]
<1>1. Init => Ledger!LedgerInit
  <2> SUFFICES ASSUME Init PROVE Ledger!LedgerInit
    OBVIOUS
  <2>1. \A s \in Slots : job[s].status = "absent" /\ ~Open(job[s])
    BY NewRowIs, StatusesAre DEF Init
  <2>2. QED  BY <2>1 DEF Ledger!LedgerInit
<1>2. InLedger /\ InLedger' /\ [TimelyNext]_vars => [Ledger!LedgerNext]_<<states, credits>>
  <2> SUFFICES ASSUME InLedger, InLedger', [TimelyNext]_vars
               PROVE  Ledger!LedgerNext
    OBVIOUS
  <2>1. ASSUME NEW s \in Slots
        PROVE  /\ states[s] = Outcome(job[s]) /\ credits[s] = Credit(job[s])
               /\ states'[s] = Outcome(job'[s]) /\ credits'[s] = Credit(job'[s])
    BY DEF Outcome, Credit
  <2>2. ASSUME NEW s \in Slots
        PROVE  \/ Outcome(job[s]) = "unplanned" /\ Outcome(job'[s]) = "open" /\ Credit(job'[s]) = HardCap
               \/ /\ Outcome(job[s]) = "open" /\ Outcome(job'[s]) = "open"
                  /\ Credit(job'[s]) \in 1..Credit(job[s])
               \/ Outcome(job[s]) = "open" /\ Outcome(job'[s]) \in {"done", "closed"} /\ Credit(job'[s]) = 0
               \/ Outcome(job'[s]) = Outcome(job[s]) /\ Credit(job'[s]) = Credit(job[s])
    <3>1. job[s] \in Row /\ HasLeft(job[s]) /\ TimelyMoved(job[s], job'[s])
      BY RowsAre, TimelyRowsMove DEF InLedger, TimelyMoves
    <3>2. job'[s] \in Row
      BY DEF InLedger, InStep, RowsSound, TypeOK
    <3>3. QED  BY <3>1, <3>2, RowIsLedger
  <2> HIDE DEF states, credits
  <2>3. \A s \in Slots :
          \/ states[s] = "unplanned" /\ states'[s] = "open" /\ credits'[s] = HardCap
          \/ states[s] = "open" /\ states'[s] = "open" /\ credits'[s] \in 1..credits[s]
          \/ states[s] = "open" /\ states'[s] \in {"done", "closed"} /\ credits'[s] = 0
          \/ states'[s] = states[s] /\ credits'[s] = credits[s]
    BY <2>1, <2>2
  <2>4. QED
    BY <2>3 DEF Ledger!LedgerNext, Ledger!Opens, Ledger!Spends, Ledger!Settles, Ledger!Stays, states, credits
<1>3. QED
  BY <1>1, <1>2, InLedgerAlways, PTL DEF TimelySpec, ImplementsLedger, Ledger!LedgerSpec

-----------------------------------------------------------------------------
(* What the operator reopens.                                              *)

\* The failures that a requeue does not undo: a look flake has lowered max_attempts, and
\* requeue_exhausted keeps the gallery clash and the spent budget in last_error.
Spoiling == {"look", "gallery", "budget"}
Spoiled(r) == r.max < HardCap \/ r.err \in {"gallery", "budget"}
Fillable(r) == UnderCap(r) /\ ~TerminalError(r)

LEMMA ReopenedExhausted ==
  ASSUME NEW r \in Row, NEW g \in BOOLEAN, NEW b \in BOOLEAN, Requeueable(r, g, b)
  PROVE  Fillable(ReopenExhausted(r, g, b)) \/ Spoiled(ReopenExhausted(r, g, b))
<1> DEFINE q == ReopenExhausted(r, g, b)
<1>1. /\ q.attempts = (IF g \/ b THEN 0 ELSE r.attempts) /\ q.max = r.max
      /\ q.err = (IF b THEN "none" ELSE r.err)
  BY DEF ReopenExhausted, Released, Row
<1>2. r.attempts \in 0..(HardCap + 1) /\ r.max \in 1..HardCap /\ r.err \in Errors
  BY DEF Row
<1>3. b \/ r.err \notin {"pack", "wallet"}
  BY DEF Requeueable, VideoProvider
<1>4. q.err \in {"gallery", "budget"} \/ ~TerminalError(q)
  BY <1>1, <1>3 DEF TerminalError, TerminalErrors
<1>5. g \/ b \/ r.attempts < HardCap
  BY DEF Requeueable
<1>6. q.max < HardCap \/ UnderCap(q)
  BY <1>1, <1>2, <1>5 DEF UnderCap, LeastCap, HardCap
<1>7. QED  BY <1>4, <1>6 DEF Fillable, Spoiled

LEMMA ReopenedBilling == ASSUME NEW r \in Row PROVE Fillable(ReopenBilling(r))
<1>1. /\ ReopenBilling(r).attempts = 0 /\ ReopenBilling(r).max = r.max
      /\ ReopenBilling(r).err = "none" /\ r.max \in 1..HardCap
  BY DEF ReopenBilling, Released, Row
<1>2. QED  BY <1>1 DEF Fillable, UnderCap, LeastCap, HardCap, TerminalError, TerminalErrors

\* Only the two requeues reopen an exhausted row.
LEMMA Reopens ==
  ASSUME InStep, [TimelyNext \/ OperatorNext]_vars, NEW s \in Slots,
         job[s].status = "exhausted", job'[s].status = "pending"
  PROVE  Fillable(job'[s]) \/ Spoiled(job'[s])
<1>1. job[s] \in Row /\ ~Open(job[s]) /\ ~InFlight(job[s]) /\ ~Queued(job[s])
  BY RowsAre, StatusesAre DEF InFlight, Queued
<1>2. KickedRows[s] = job[s]
  BY <1>1 DEF KickedRows, Update, StaleRows, StaleClaim
<1>3. CASE [TimelyNext]_vars
  <2>1. TimelyMoved(job[s], job'[s]) /\ HasLeft(job[s])
    BY <1>1, <1>3, TimelyRowsMove DEF TimelyMoves, HasLeft
  <2>2. QED  BY <1>1, <2>1, TimelyRow
<1>4. CASE Kick
  BY <1>1, <1>4 DEF Kick, StaleRows, StaleClaim, Boost
<1>5. CASE RequeueFactoryJobs
  <2>1. PICK g, b \in BOOLEAN : job' = [t \in Slots |->
          IF Requeueable(KickedRows[t], g, b) THEN ReopenExhausted(KickedRows[t], g, b)
          ELSE IF Retryable(KickedRows[t], b) THEN ReopenFailed(KickedRows[t], b)
          ELSE KickedRows[t]]
    BY <1>5 DEF RequeueFactoryJobs
  <2>2. ~Retryable(job[s], b)
    BY DEF Retryable
  <2>3. Requeueable(job[s], g, b) /\ job'[s] = ReopenExhausted(job[s], g, b)
    BY <1>2, <2>1, <2>2
  <2>4. QED  BY <1>1, <2>3, ReopenedExhausted
<1>6. CASE RequeueBilling
  <2>1. job'[s] = ReopenBilling(job[s])
    BY <1>2, <1>6 DEF RequeueBilling
  <2>2. QED  BY <1>1, <2>1, ReopenedBilling
<1>7. QED  BY <1>3, <1>4, <1>5, <1>6 DEF OperatorNext

\* What a requeue reopens can be filled unless it is spoiled: whatever failed before, only a
\* lowered max_attempts, a gallery clash or a spent budget leaves it waiting for the sweep.
ReopenedIsFilledOrSpoiled ==
  [][\A s \in Slots : job[s].status = "exhausted" /\ job'[s].status = "pending"
       => Fillable(job'[s]) \/ Spoiled(job'[s])]_vars
THEOREM ReopenedUnlessSpoiled == OperatedSpec => ReopenedIsFilledOrSpoiled
<1>1. InStep /\ [TimelyNext \/ OperatorNext]_vars
        => [\A s \in Slots : job[s].status = "exhausted" /\ job'[s].status = "pending"
              => Fillable(job'[s]) \/ Spoiled(job'[s])]_vars
  BY Reopens
<1>2. QED  BY <1>1, InStepAlways, PTL DEF OperatedSpec, ReopenedIsFilledOrSpoiled

\* No row is spoiled by any other failure.
LEMMA MovedUnspoiled ==
  ASSUME Reasons \cap Spoiling = {}, NEW r, Sound(r), ~Spoiled(r), NEW q, Moved(r, q)
  PROVE  ~Spoiled(q)
<1>1. r \in Row /\ r.max = 3 /\ r.err \notin {"gallery", "budget"}
  BY DEF Sound, Row, Spoiled, HardCap
<1>2. /\ "fetch" \notin {"gallery", "budget"} /\ "none" \notin {"gallery", "budget"}
      /\ "paused" \notin {"gallery", "budget"}
  OBVIOUS
<1>3. CASE UnderCap(r) /\ \E told \in BOOLEAN : q = ClaimRow(r, told)
  BY <1>1, <1>3 DEF ClaimRow, Row, Spoiled, HardCap
<1>4. CASE q \in Written(r)
  <2>1. q.max = 3 /\ q.err \in {r.err, "fetch", "none", "paused"}
    <3>1. CASE q \in {MarkRunning(r), TouchRunning(r), Boost(r)}
      BY <1>1, <3>1 DEF MarkRunning, TouchRunning, Boost, Row
    <3>2. CASE q \in {ReclaimStale(r), OpsTerminate(r), MarkSkipped(r)}
      BY <1>1, <3>2 DEF ReclaimStale, OpsTerminate, MarkSkipped, Released, Row
    <3>3. CASE q \in {ReclaimSilent(r), ReopenBilling(r)}
      BY <1>1, <3>3 DEF ReclaimSilent, ReopenBilling, Released, Row
    <3>4. QED  BY <1>4, <3>1, <3>2, <3>3 DEF Written
  <2>2. QED  BY <1>1, <1>2, <2>1 DEF Spoiled, HardCap
<1>5. CASE q \in Aged(r)
  BY <1>1, <1>5 DEF Aged, Row, Spoiled, HardCap
<1>6. ASSUME NEW c \in Outcomes, q = ApplyCompletion(r, c)
      PROVE  ~Spoiled(q)
  <2>1. c \notin Spoiling
    BY DEF Spoiling, Outcomes
  <2>2. \A named \in BOOLEAN : MarkReady(r, named).max = 3 /\ MarkReady(r, named).err = "none"
    BY <1>1 DEF MarkReady, Released, Row
  <2>3. MarkDeferred(r, c).max = 3 /\ MarkDeferred(r, c).err = c
    BY <1>1 DEF MarkDeferred, Released, Row
  <2>4. MarkFailed(r, c).max = LeastCap(3, FailureCap(c)) /\ MarkFailed(r, c).err = c
    BY <1>1 DEF MarkFailed, Released, Row
  <2>5. LeastCap(3, FailureCap(c)) = 3
    BY <2>1 DEF LeastCap, FailureCap, HardCap, Spoiling
  <2>6. q.max = 3 /\ q.err \in {"none", c}
    BY <1>6, <2>2, <2>3, <2>4, <2>5 DEF ApplyCompletion
  <2>7. QED  BY <2>1, <2>6 DEF Spoiled, Spoiling, HardCap
<1>7. ASSUME NEW p \in {r, ReclaimStale(r)}, NEW g \in BOOLEAN, NEW b \in BOOLEAN,
             q \in {ReopenExhausted(p, g, b), ReopenFailed(p, b)}
      PROVE  ~Spoiled(q)
  <2>1. p \in Row
    BY QuietSound DEF Sound
  <2>2. p.max = 3 /\ p.err = r.err
    BY <1>1 DEF ReclaimStale, Released, Row
  <2>3. /\ ReopenExhausted(p, g, b).max = p.max /\ ReopenFailed(p, b).max = p.max
        /\ ReopenExhausted(p, g, b).err \in {p.err, "none"}
        /\ ReopenFailed(p, b).err \in {p.err, "none"}
    BY <2>1 DEF ReopenExhausted, ReopenFailed, Released, Row
  <2>4. q.max = 3 /\ q.err \in {r.err, "none"}
    BY <1>7, <2>2, <2>3
  <2>5. QED  BY <1>1, <2>4 DEF Spoiled, HardCap
<1>8. CASE r.status = "absent" /\ q = NewRow
  BY <1>8 DEF NewRow, NoRow, Spoiled, HardCap
<1>9. QED  BY <1>3, <1>4, <1>5, <1>6, <1>7, <1>8 DEF Moved

\* Where no look flakes, no gallery clashes and no budget is spent, what a requeue reopens
\* can be filled ("give exhausted slots more retries (bounded) so the drainer can fill them").
THEOREM ReopenedIsFilled ==
  ASSUME Reasons \cap Spoiling = {}
  PROVE  OperatedSpec => ReopenedCanBeFilled
<1> DEFINE Inv == InStep /\ \A s \in Slots : ~Spoiled(job[s])
<1>1. Init => Inv
  <2>1. ~Spoiled(NoRow)
    BY DEF Spoiled, NoRow, HardCap
  <2>2. QED  BY <2>1, InStepInit DEF Init
<1>2. Inv /\ [TimelyNext \/ OperatorNext]_vars => Inv'
  <2> SUFFICES ASSUME Inv, [TimelyNext \/ OperatorNext]_vars PROVE Inv'
    OBVIOUS
  <2>1. InStep'
    BY InStepStep
  <2>2. Table(job) /\ \A s \in Slots : Sound(job[s]) /\ ~Spoiled(job[s])
    BY DEF InStep, RowsSound, TypeOK, Table
  <2>3. \A s \in Slots : Moved(job[s], job'[s])
    BY <2>2, RowsMove DEF RowsMoved, Next
  <2>4. QED  BY <2>1, <2>2, <2>3, MovedUnspoiled
<1>3. Inv /\ Inv' /\ [TimelyNext \/ OperatorNext]_vars
        => [\A s \in Slots : job[s].status = "exhausted" /\ job'[s].status = "pending"
              => UnderCap(job'[s]) /\ ~TerminalError(job'[s])]_vars
  BY Reopens DEF Fillable
<1> HIDE DEF Inv
<1>4. QED  BY <1>1, <1>2, <1>3, PTL DEF OperatedSpec, ReopenedCanBeFilled
=============================================================================
