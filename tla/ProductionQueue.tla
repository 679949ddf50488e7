--------------------------- MODULE ProductionQueue ---------------------------
(***************************************************************************)
(* The durable production queue of one mission under the BullMQ executor:  *)
(* the rows of production_jobs, the drain pass that claims them and puts   *)
(* them on BullMQ (production_factory_service.drain_production_jobs), the  *)
(* Next.js worker that paints and calls back (production-worker.ts,        *)
(* apply_bullmq_completion), the watchdog that recovers rows of dead       *)
(* workers, and the operator's kick and requeues.                          *)
(*                                                                         *)
(* Each action is one database transaction or one HTTP exchange; between   *)
(* them every other actor may move.  The distributed lock drain:{mission}  *)
(* allows one pass at a time.  Which claimable row a pass takes (priority, *)
(* run_after) is left open, and so is the 30-slot limit of a pass.         *)
(***************************************************************************)
EXTENDS JobRow, FiniteSets

CONSTANTS
  Slots,              \* the (idea_index, slot_role) slots of the mission's plan
  Reels,              \* the slots on the video lane
  Unkeyed,            \* slots whose slot_key is NULL (no catalog binding)
  ReelsPaused,        \* REEL_PRODUCTION_PAUSED
  Reasons,            \* the failures and defers the executor may report
  WorkerConcurrency,  \* CONCURRENCY of the production worker
  MaxFaults,          \* bound: crashes, lost and duplicated messages of a behaviour
  NoSlot              \* no slot in the hands of the pass

ASSUME QueueAssumption ==
  /\ Reels \subseteq Slots /\ Unkeyed \subseteq Slots
  /\ ReelsPaused \in BOOLEAN
  /\ Reasons \subseteq Errors \ {"none", "paused"}
  /\ WorkerConcurrency \in Nat \ {0}
  /\ MaxFaults \in Nat
  /\ NoSlot \notin Slots

VARIABLES
  job,       \* [Slots -> Row]: production_jobs
  pass,      \* the drain pass that holds drain:{mission}
  delivery,  \* the slot's BullMQ job (stable id: at most one)
  canvas,    \* what the Next.js route has made of the slot so far
  faults     \* crashes and message losses so far

vars == <<job, pass, delivery, canvas, faults>>

Lanes == {"still", "reel"}
Lane(s) == IF s \in Reels THEN "reel" ELSE "still"

\* pc: "dead" is a pass whose process died holding the lock.
Idle == [pc |-> "idle", slot |-> NoSlot, lanes |-> {}]

TypeOK ==
  /\ job \in [Slots -> Row]
  /\ pass \in [pc : {"idle", "checked", "loop", "claimed", "enqueued", "dead"},
               slot : Slots \cup {NoSlot}, lanes : SUBSET Lanes]
  /\ delivery \in [Slots -> {"none", "waiting", "active", "saved"}]
  /\ canvas \in [Slots -> {"blank", "painted", "persisted"}]
  /\ faults \in 0..MaxFaults

Init ==
  /\ job = [s \in Slots |-> NoRow]
  /\ pass = Idle
  /\ delivery = [s \in Slots |-> "none"]
  /\ canvas = [s \in Slots |-> "blank"]
  /\ faults = 0

-----------------------------------------------------------------------------
(* Conditions shared by the claim, the checks before it and the kicks.     *)

\* _still_heartbeat_alive_sql, _reel_claim_alive_sql.
Alive(s) ==
  /\ InFlight(job[s])
  /\ IF s \in Reels THEN job[s].claimed = "fresh" ELSE job[s].touched = "now"

\* _live_inflight_exists_sql: the row's own lane is busy (it may be the row itself).
LaneNeverBusy(s) == FALSE
AnyLaneBusy(s) == \E t \in Slots : Alive(t)
LaneBusy(s) == \E t \in Slots : Lane(t) = Lane(s) /\ Alive(t)
BothLanesLive == \A l \in Lanes : \E t \in Slots : Lane(t) = l /\ Alive(t)

\* _video_lane_cooldown_sql: a provider error less than ten minutes old parks the reels.
VideoCooling == \E t \in Slots : job[t].err \in VideoProvider /\ job[t].touched # "cold"

HasRunnable(rows) ==
  \E s \in Slots : /\ Runnable(rows[s]) /\ ~LaneBusy(s) /\ UnderCap(rows[s])
                   /\ ~(ReelsPaused /\ s \in Reels)

\* What both lanes of claim_batch ask of a row.
ClaimReadyDespiteError(s) == Runnable(job[s]) /\ ~LaneBusy(s) /\ UnderCap(job[s])
ClaimReady(s) ==
  Runnable(job[s]) /\ ~TerminalError(job[s]) /\ ~LaneBusy(s) /\ UnderCap(job[s])

ClaimableDespitePause(s) == ClaimReady(s)
Claimable(s) ==
  /\ ClaimReady(s)
  /\ s \in Reels => /\ ~ReelsPaused /\ ~VideoCooling
                    /\ \A t \in Slots \ Reels : ~ClaimReady(t)

\* Rows of a selected set go through a statement, the others stay.
Update(S, Op(_)) == [s \in Slots |-> IF s \in S THEN Op(job[s]) ELSE job[s]]

-----------------------------------------------------------------------------
(* enqueue_mission_jobs / upsert_jobs: one pending row per planned slot,   *)
(* ON CONFLICT DO NOTHING.                                                 *)
Plan ==
  \E new \in SUBSET {s \in Slots : job[s].status = "absent"} :
    /\ new # {}
    /\ job' = [s \in Slots |-> IF s \in new THEN NewRow ELSE job[s]]
    /\ UNCHANGED <<pass, delivery, canvas, faults>>

-----------------------------------------------------------------------------
(* The drain pass.                                                         *)

PausedReels == IF ReelsPaused THEN {s \in Reels : Open(job[s])} ELSE {}

\* Skip the open reels while the reel lane is paused; go on if a row is runnable.
PassBegins ==
  /\ pass.pc = "idle"
  /\ LET rows == Update(PausedReels, MarkSkipped)
     IN  /\ job' = rows
         /\ \/ HasRunnable(rows) /\ pass' = [pass EXCEPT !.pc = "checked"]
            \/ ~HasRunnable(rows) /\ PausedReels # {} /\ pass' = pass
  /\ UNCHANGED <<delivery, canvas, faults>>

PassReclaims ==
  /\ pass.pc = "checked"
  /\ job' = Update({s \in Slots : StaleClaim(job[s])}, ReclaimStale)
  /\ pass' = [pass EXCEPT !.pc = "loop"]
  /\ UNCHANGED <<delivery, canvas, faults>>

\* has_live_in_flight("both") and claim_batch with a batch of one.
PassClaims(s) ==
  /\ pass.pc = "loop" /\ pass.lanes # Lanes /\ ~BothLanesLive
  /\ Claimable(s)
  /\ \E told \in BOOLEAN : /\ told => Queued(job[s])
                           /\ job' = [job EXCEPT ![s] = ClaimRow(@, told)]
  /\ pass' = [pass EXCEPT !.pc = "claimed", !.slot = s]
  /\ UNCHANGED <<delivery, canvas, faults>>

BackToLoop == pass' = [pass EXCEPT !.pc = "loop", !.slot = NoSlot]

\* The planner marked the slot galleryVolumeWithheld: no distinct photo is left.
PassWithholds(s) ==
  /\ pass.pc = "claimed" /\ pass.slot = s /\ "shortfall" \in Reasons
  /\ job' = [job EXCEPT ![s] = MarkFailed(@, "shortfall")]
  /\ BackToLoop
  /\ UNCHANGED <<delivery, canvas, faults>>

\* find_persisted_artifact_for_job matches on the catalog slot key.
Adoptable(s) == canvas[s] = "persisted" /\ s \notin Unkeyed

PassAdoptsAnything(s) ==
  /\ pass.pc = "claimed" /\ pass.slot = s
  /\ job' = [job EXCEPT ![s] = MarkReady(@, TRUE)]
  /\ BackToLoop
  /\ UNCHANGED <<delivery, canvas, faults>>
PassAdopts(s) ==
  /\ pass.pc = "claimed" /\ pass.slot = s /\ Adoptable(s)
  /\ job' = [job EXCEPT ![s] = MarkReady(@, TRUE)]
  /\ BackToLoop
  /\ UNCHANGED <<delivery, canvas, faults>>

\* /api/queue/enqueue: an unfinished job of the same id is kept, not doubled.
PassEnqueues(s) ==
  /\ pass.pc = "claimed" /\ pass.slot = s /\ ~Adoptable(s)
  /\ delivery' = [delivery EXCEPT ![s] = IF @ = "none" THEN "waiting" ELSE @]
  /\ pass' = [pass EXCEPT !.pc = "enqueued"]
  /\ UNCHANGED <<job, canvas, faults>>

\* What a drainer or a callback makes of the answer of the executor about one slot:
\* "duplicate" is a result without an artifact id (duplicate_skipped).
ApplyCompletion(r, outcome) ==
  CASE outcome = "ready" -> MarkReady(r, TRUE)
    [] outcome = "duplicate" -> MarkReady(r, FALSE)
    [] outcome \in DeferReasons -> MarkDeferred(r, outcome)
    [] OTHER -> MarkFailed(r, outcome)

\* The enqueue was refused: worker offline and the other known reasons are defers
\* (a lock wait painted nothing, the rest are counted), an unknown one is a failure.
Refusals == Reasons \cap (DeferReasons \cup {"paint"})
PassEnqueueRefused(s) ==
  /\ pass.pc = "claimed" /\ pass.slot = s /\ ~Adoptable(s)
  /\ \E c \in Refusals : job' = [job EXCEPT ![s] = ApplyCompletion(@, c)]
  /\ BackToLoop
  /\ UNCHANGED <<delivery, canvas, faults>>

\* The answer was lost: the job is on BullMQ, the row is deferred all the same.
PassEnqueueUnanswered(s) ==
  /\ pass.pc = "claimed" /\ pass.slot = s /\ ~Adoptable(s)
  /\ faults < MaxFaults /\ faults' = faults + 1
  /\ delivery' = [delivery EXCEPT ![s] = IF @ = "none" THEN "waiting" ELSE @]
  /\ job' = [job EXCEPT ![s] = MarkDeferred(@, "lockwait")]
  /\ BackToLoop
  /\ UNCHANGED canvas

PassMarksRunning(s) ==
  /\ pass.pc = "enqueued" /\ pass.slot = s
  /\ job' = [job EXCEPT ![s] = MarkRunning(@)]
  /\ pass' = [pc |-> "loop", slot |-> NoSlot, lanes |-> pass.lanes \cup {Lane(s)}]
  /\ UNCHANGED <<delivery, canvas, faults>>

PassEnds ==
  /\ pass.pc = "loop"
  /\ \/ pass.lanes = Lanes
     \/ BothLanesLive
     \/ \A s \in Slots : ~Claimable(s)
  /\ pass' = Idle
  /\ UNCHANGED <<job, delivery, canvas, faults>>

\* The process dies with the lock (dead), or a kick cancels the task (idle).
PassStops ==
  /\ pass.pc \notin {"idle", "dead"}
  /\ faults < MaxFaults /\ faults' = faults + 1
  /\ \E pc \in {"idle", "dead"} : pass' = [Idle EXCEPT !.pc = pc]
  /\ UNCHANGED <<job, delivery, canvas>>

DrainLockExpires ==
  /\ pass.pc = "dead"
  /\ pass' = Idle
  /\ UNCHANGED <<job, delivery, canvas, faults>>

-----------------------------------------------------------------------------
(* The production worker and its callback.                                 *)

Working(s) == delivery[s] \in {"active", "saved"}

\* runSlotBatch: a heartbeat at once, then one every 45 s.
WorkerStarts(s) ==
  /\ delivery[s] = "waiting"
  /\ Cardinality({t \in Slots : Working(t)}) < WorkerConcurrency
  /\ delivery' = [delivery EXCEPT ![s] = "active"]
  /\ job' = [job EXCEPT ![s] = TouchRunning(@)]
  /\ UNCHANGED <<pass, canvas, faults>>

Heartbeat(s) ==
  /\ Working(s) /\ InFlight(job[s]) /\ job[s].touched # "now"
  /\ job' = [job EXCEPT ![s] = TouchRunning(@)]
  /\ UNCHANGED <<pass, delivery, canvas, faults>>

\* The route persists the artifact before it answers the worker.
RoutePersists(s) ==
  /\ delivery[s] = "active"
  /\ delivery' = [delivery EXCEPT ![s] = "saved"]
  /\ canvas' = [canvas EXCEPT ![s] = "persisted"]
  /\ UNCHANGED <<job, pass, faults>>

Painted(c, reason) == IF c = "blank" /\ reason \notin NoPaint THEN "painted" ELSE c

Answered(s, outcome) ==
  job' = [job EXCEPT ![s] = IF @.status = "absent" THEN @ ELSE ApplyCompletion(@, outcome)]

\* apply_bullmq_completion for one slot: its artifact is named, the route found that
\* it had been persisted before (duplicate_skipped), or the slot is deferred or failed.
SkipsAnything(s) == delivery[s] = "active" /\ Answered(s, "duplicate") /\ UNCHANGED canvas
SkipsDuplicate(s) ==
  /\ delivery[s] = "active" /\ canvas[s] = "persisted"
  /\ Answered(s, "duplicate")
  /\ UNCHANGED canvas

CallbackTo(s, next) ==
  /\ \/ delivery[s] = "saved" /\ Answered(s, "ready") /\ UNCHANGED canvas
     \/ SkipsDuplicate(s)
     \/ /\ delivery[s] = "active"
        /\ \E c \in Reasons : /\ Answered(s, c)
                              /\ canvas' = [canvas EXCEPT ![s] = Painted(@, c)]
  /\ delivery' = [delivery EXCEPT ![s] = next]
  /\ UNCHANGED pass

Callback(s) == CallbackTo(s, "none") /\ UNCHANGED faults

\* The callback was applied, its response was lost: BullMQ runs the job again.
CallbackRetried(s) ==
  /\ faults < MaxFaults /\ faults' = faults + 1
  /\ CallbackTo(s, "waiting")

\* The callback was answered with an error status (not checked) or said "still running".
CallbackLost(s) ==
  /\ Working(s)
  /\ faults < MaxFaults /\ faults' = faults + 1
  /\ delivery' = [delivery EXCEPT ![s] = "none"]
  /\ UNCHANGED <<job, pass, canvas>>

\* The worker's fetch was aborted and reported; the route goes on and persists.
RoutePersistsLate(s) ==
  /\ delivery[s] = "none" /\ canvas[s] = "painted" /\ job[s].err = "fetch"
  /\ canvas' = [canvas EXCEPT ![s] = "persisted"]
  /\ UNCHANGED <<job, pass, delivery, faults>>

\* The worker dies, or the inflight cap makes it throw: BullMQ retries or gives up.
WorkerFails(s) ==
  /\ delivery[s] # "none"
  /\ faults < MaxFaults /\ faults' = faults + 1
  /\ \E next \in {"none", "waiting"} : delivery' = [delivery EXCEPT ![s] = next]
  /\ UNCHANGED <<job, pass, canvas>>

-----------------------------------------------------------------------------
(* The watchdog (every API process runs one, without a lock, so the        *)
(* statements of their ticks interleave): sweep, reclaim silent, reclaim   *)
(* stale.                                                                  *)

SweepableFailed == {s \in Slots : job[s].status = "failed" /\ TerminalError(job[s])}
Sweepable == {s \in Slots : Open(job[s]) /\ TerminalError(job[s])}
WatchdogSweeps ==
  /\ Sweepable # {}
  /\ job' = Update(Sweepable, OpsTerminate)
  /\ UNCHANGED <<pass, delivery, canvas, faults>>

\* slot_key NOT ILIKE '%reel%' is not true of a NULL slot_key.
SilentRowsAll == {s \in Slots : InFlight(job[s]) /\ s \notin Reels \cup Unkeyed}
SilentRows == {s \in SilentRowsAll : job[s].touched # "now" /\ ~job[s].told}
WatchdogReclaimsSilent ==
  /\ SilentRows # {}
  /\ job' = Update(SilentRows, ReclaimSilent)
  /\ UNCHANGED <<pass, delivery, canvas, faults>>

EveryInFlightRow == {s \in Slots : InFlight(job[s])}
StaleRows == {s \in Slots : StaleClaim(job[s])}
WatchdogReclaimsStale ==
  /\ StaleRows # {}
  /\ job' = Update(StaleRows, ReclaimStale)
  /\ UNCHANGED <<pass, delivery, canvas, faults>>

-----------------------------------------------------------------------------
(* Time.  A pass holds a claimed row for at most the enqueue timeouts      *)
(* (75 s), less than the silent window (180 s) and the stale one (900 s).  *)

BackoffElapses(s) ==
  /\ Queued(job[s]) /\ ~job[s].due
  /\ job' = [job EXCEPT ![s].due = TRUE]
  /\ UNCHANGED <<pass, delivery, canvas, faults>>

\* Nobody heartbeats the row; orphaned: no job of it is left on BullMQ either.
GoesSilent(s, orphaned) ==
  /\ InFlight(job[s]) /\ job[s].touched = "now" /\ pass.slot # s
  /\ ~Working(s) /\ (orphaned => delivery[s] = "none")
  /\ job' = [job EXCEPT ![s].touched = "silent"]
  /\ UNCHANGED <<pass, delivery, canvas, faults>>

\* A worker at work whose heartbeats (best effort, errors swallowed) do not arrive.
HeartbeatsLost(s) ==
  /\ Working(s) /\ InFlight(job[s]) /\ job[s].touched = "now" /\ pass.slot # s
  /\ faults < MaxFaults /\ faults' = faults + 1
  /\ job' = [job EXCEPT ![s].touched = "silent"]
  /\ UNCHANGED <<pass, delivery, canvas>>

\* Fifteen minutes after the claim: a dead row, or a paint (three fetches of
\* up to 620 s) that outlives the window.
ClaimGoesStale(s, dead) ==
  /\ InFlight(job[s]) /\ job[s].claimed = "fresh" /\ pass.slot # s
  /\ IF dead THEN job[s].touched # "now" ELSE Working(s)
  /\ job' = [job EXCEPT ![s].claimed = "stale"]
  /\ UNCHANGED <<pass, delivery, canvas, faults>>

ProviderCoolsDown(s) ==
  /\ job[s].err \in VideoProvider /\ job[s].touched = "now" /\ ~InFlight(job[s])
  /\ job' = [job EXCEPT ![s].touched = "cold"]
  /\ UNCHANGED <<pass, delivery, canvas, faults>>

\* Only a lock wait keeps a row open for hours: every other defer is counted.
GrowsOld(s) ==
  /\ Open(job[s]) /\ ~job[s].old /\ "lockwait" \in Reasons
  /\ job' = [job EXCEPT ![s].old = TRUE]
  /\ UNCHANGED <<pass, delivery, canvas, faults>>

-----------------------------------------------------------------------------
(* The operator.                                                           *)

KickedRows == Update(StaleRows, ReclaimStale)

\* schedule_drain(bypass_throttle): a drain task of this API process is cancelled,
\* and its lock released, before the next one is scheduled.
DrainRescheduled ==
  \/ pass' = pass
  \/ pass.pc \notin {"idle", "dead"} /\ pass' = Idle

\* kick_feed_production on an incomplete factory: boost, then reclaim_inflight.
Kick ==
  /\ \E s \in Slots : Open(job[s])
  /\ job' = [s \in Slots |-> IF s \in StaleRows THEN ReclaimStale(job[s]) ELSE Boost(job[s])]
  /\ DrainRescheduled
  /\ UNCHANGED <<delivery, canvas, faults>>

\* POST requeue-factory-jobs: reclaim_inflight, requeue_exhausted, requeue_failed.
RequeueFactoryJobs ==
  \E gallery, billing \in BOOLEAN :
    /\ job' = [s \in Slots |->
         LET r == KickedRows[s]
         IN  IF Requeueable(r, gallery, billing) THEN ReopenExhausted(r, gallery, billing)
             ELSE IF Retryable(r, billing) THEN ReopenFailed(r, billing) ELSE r]
    /\ DrainRescheduled
    /\ UNCHANGED <<delivery, canvas, faults>>

\* POST requeue-billing, after the provider circuits are cleared; it ends with a
\* reclaim_inflight and a drain of every mission it reopened rows of.
RequeueBilling ==
  /\ \E s \in Slots : BillingBlocked(job[s])
  /\ job' = [s \in Slots |-> IF BillingBlocked(job[s]) THEN ReopenBilling(job[s])
                             ELSE KickedRows[s]]
  /\ DrainRescheduled
  /\ UNCHANGED <<delivery, canvas, faults>>

-----------------------------------------------------------------------------
(* Specifications.  Timely: no message is applied after the row it is      *)
(* about was taken from its worker.  Late adds the delays and losses that  *)
(* break this; the operator comes on top of either.                        *)

PassNext ==
  \/ PassBegins \/ PassReclaims \/ PassEnds \/ PassStops \/ DrainLockExpires
  \/ \E s \in Slots : \/ PassClaims(s) \/ PassWithholds(s) \/ PassAdopts(s)
                      \/ PassEnqueues(s) \/ PassEnqueueRefused(s) \/ PassMarksRunning(s)

WorkerNext ==
  \E s \in Slots : \/ WorkerStarts(s) \/ Heartbeat(s) \/ RoutePersists(s)
                   \/ Callback(s) \/ CallbackLost(s) \/ WorkerFails(s)

WatchdogNext == WatchdogSweeps \/ WatchdogReclaimsSilent \/ WatchdogReclaimsStale

TimeNext ==
  \E s \in Slots : \/ BackoffElapses(s) \/ GoesSilent(s, TRUE) \/ ClaimGoesStale(s, TRUE)
                   \/ ProviderCoolsDown(s) \/ GrowsOld(s)

TimelyNext == Plan \/ PassNext \/ WorkerNext \/ WatchdogNext \/ TimeNext

LateNext ==
  \E s \in Slots : \/ PassEnqueueUnanswered(s) \/ CallbackRetried(s) \/ HeartbeatsLost(s)
                   \/ GoesSilent(s, FALSE) \/ ClaimGoesStale(s, FALSE)
                   \/ RoutePersistsLate(s)

OperatorNext == Kick \/ RequeueFactoryJobs \/ RequeueBilling

Next == TimelyNext \/ LateNext \/ OperatorNext

Spec == Init /\ [][Next]_vars
TimelySpec == Init /\ [][TimelyNext]_vars
LateSpec == Init /\ [][TimelyNext \/ LateNext]_vars
OperatedSpec == Init /\ [][TimelyNext \/ OperatorNext]_vars
\* The watchdog ticks, drains are scheduled and time passes; nothing is assumed of
\* faults, of the planner or of an operator, and of the worker only what Served says.
Served(s) == WF_vars(WorkerStarts(s)) /\ WF_vars(Callback(s))

SlotFairness(s) ==
  /\ WF_vars(PassAdopts(s) \/ PassEnqueues(s)) /\ WF_vars(PassMarksRunning(s))
  /\ WF_vars(BackoffElapses(s)) /\ WF_vars(GoesSilent(s, TRUE))
  /\ WF_vars(ClaimGoesStale(s, TRUE)) /\ WF_vars(ProviderCoolsDown(s))
  /\ WF_vars(GrowsOld(s))

\* The worker serves the stills; a reel may stay for ever on its worker.
FairTimelySpec ==
  /\ TimelySpec
  /\ WF_vars(PassBegins) /\ WF_vars(PassReclaims) /\ WF_vars(PassEnds)
  /\ WF_vars(\E s \in Slots : PassClaims(s)) /\ WF_vars(DrainLockExpires)
  /\ WF_vars(WatchdogSweeps) /\ WF_vars(WatchdogReclaimsSilent)
  /\ WF_vars(WatchdogReclaimsStale)
  /\ \A s \in Slots : SlotFairness(s)
  /\ \A s \in Slots \ Reels : Served(s)

-----------------------------------------------------------------------------
(* Properties.                                                             *)

\* A row that is to be painted again without an operator (failed, claimed or
\* running) has an attempt left under its own cap, and the cap is never above
\* the product cap, whatever the order of late callbacks, reclaims and
\* requeues (HARD_SLOT_ATTEMPT_CAP, _attempts_under_cap_sql).
AttemptBudget ==
  \A s \in Slots :
    job[s].status \in {"failed", "claimed", "running"} =>
      job[s].attempts < job[s].max /\ job[s].max <= HardCap

\* No statement raises the max_attempts of a row: "Requeue / kick used to raise
\* max_attempts to 12 so the same slot painted 7-8 times".
CapNeverRaised ==
  [][\A s \in Slots : job[s].status # "absent" => job'[s].max <= job[s].max]_vars

\* A row is ready only when the route has persisted an artifact for its slot ("a slot
\* is ready iff its slotKey produced a persisted artifact"), in this delivery or in an
\* earlier one: a ready row without an artifact_id is a slot that was skipped as a
\* duplicate, never one "where the job completed but the artifact was never persisted".
ReadyHasArtifact ==
  \A s \in Slots : job[s].status = "ready" => canvas[s] = "persisted"

\* While the pass holds a slot across its awaits (adoption lookup, enqueue), the
\* row it read is still the row it claimed: what it then writes is not stale.
HeldSlotIsClaimed ==
  pass.pc = "claimed" => job[pass.slot].status = "claimed"

\* A pending row can be claimed once its backoff is over: it has attempts left,
\* or it carries a terminal error and the next sweep settles it.
PendingIsClaimable ==
  \A s \in Slots : job[s].status = "pending" => UnderCap(job[s])

\* "Terminal states - a job in one of these is never re-claimed by the drainer":
\* a settled slot stays as it settled.
SettledIsFinal ==
  [][\A s \in Slots : Settled(job[s]) => job'[s].status = job[s].status]_vars

\* "One live produce per lane": at most one row of a lane is alive.
OneLivePerLane ==
  \A s, t \in Slots : s # t /\ Lane(s) = Lane(t) => ~(Alive(s) /\ Alive(t))

\* A worker at work has its row in flight: its callback will land on the row
\* that was claimed for it, not on one that was settled or put back.
WorkHasItsRow == \A s \in Slots : delivery[s] # "none" => InFlight(job[s])

\* What a requeue reopens can be filled: the row has attempts left and no error
\* that keeps the drainer from claiming it ("give exhausted slots more retries
\* (bounded) so the drainer can fill them").
ReopenedCanBeFilled ==
  [][\A s \in Slots :
       job[s].status = "exhausted" /\ job'[s].status = "pending" =>
         UnderCap(job'[s]) /\ ~TerminalError(job'[s])]_vars

\* "When reel production is paused (no fal wallet), reels are never claimed", not
\* even one planned while a pass is under way.
PausedReelsAreNotPainted ==
  ReelsPaused => \A s \in Reels : ~InFlight(job[s]) /\ canvas[s] = "blank"

\* The slots of a mission implement the ledger: a budget that only shrinks, and
\* outcomes that last.
Ledger == INSTANCE SlotLedger WITH
  Budget <- HardCap,
  state <- [s \in Slots |->
              CASE job[s].status = "absent" -> "unplanned"
                [] job[s].status = "ready" -> "done"
                [] job[s].status \in {"exhausted", "skipped"} -> "closed"
                [] OTHER -> "open"],
  credit <- [s \in Slots |-> IF Open(job[s]) THEN job[s].max - job[s].attempts ELSE 0]
ImplementsLedger == Ledger!LedgerSpec

\* "Stills ignore a running reel so the weekly swipe does not wait on fal.ai": they settle
\* even when no reel ever comes back from its worker, provided that the reels cannot hold
\* every place of the worker (its default concurrency of one does not provide that).
StillsSettle ==
  Cardinality(Reels) < WorkerConcurrency =>
    \A s \in Slots \ Reels : Open(job[s]) ~> Settled(job[s])

\* Once the worker serves the reels too, every planned slot settles: no row waits
\* for ever behind a dead worker, a cooled lane, a spent budget or another slot.
EverySlotSettles ==
  (\A s \in Reels : Served(s)) => \A s \in Slots : Open(job[s]) ~> Settled(job[s])
=============================================================================
