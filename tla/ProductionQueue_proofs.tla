----------------------- MODULE ProductionQueue_proofs -----------------------
(***************************************************************************)
(* Proofs about ProductionQueue.  Every write to a row is one of the       *)
(* statements of JobRow, so what the statements do to a single row is      *)
(* proved first, then that every action of every specification keeps the   *)
(* inductive invariant, and the theorems follow.                           *)
(***************************************************************************)
EXTENDS ProductionQueue, TLAPS

-----------------------------------------------------------------------------
(* Statements on one row.                                                  *)

\* A row that is to be painted again has an attempt left.
Within(r) == r.status \in {"failed", "claimed", "running"} => r.attempts < r.max

\* A row of the table that is within its budget.
Sound(r) == r \in Row /\ Within(r)

\* Counting an attempt keeps the counter in its range.
LEMMA BumpRange == \A n \in 0..(HardCap + 1) : Bump(n) \in 0..(HardCap + 1)
  BY DEF Bump, LeastCap, HardCap

\* An attempt counted below the cap is counted exactly.
LEMMA BumpExact == \A n \in 0..(HardCap + 1) : n < HardCap => Bump(n) = n + 1
  BY DEF Bump, LeastCap, HardCap

\* A row under its cap has an attempt left (_attempts_under_cap_sql).
LEMMA UnderCapIsLeft == ASSUME NEW r \in Row PROVE UnderCap(r) <=> r.attempts < r.max
<1>1. r.max \in 1..HardCap /\ r.attempts \in 0..(HardCap + 1)
  BY DEF Row
<1>2. QED  BY <1>1 DEF UnderCap, LeastCap, HardCap

\* Claiming a row under its cap keeps it within its budget (claim_batch).
LEMMA ClaimSound ==
  ASSUME NEW r \in Row, UnderCap(r), NEW told \in BOOLEAN PROVE Sound(ClaimRow(r, told))
<1>1. ClaimRow(r, told) \in Row
  BY DEF ClaimRow, Row, Statuses
<1>2. ClaimRow(r, told).attempts = r.attempts /\ ClaimRow(r, told).max = r.max
  BY DEF ClaimRow, Row
<1>3. QED  BY <1>1, <1>2, UnderCapIsLeft DEF Within, Sound

\* The statements that count nothing keep a row within its budget.
LEMMA QuietSound ==
  ASSUME NEW r, Sound(r)
  PROVE  /\ Sound(MarkRunning(r)) /\ Sound(TouchRunning(r)) /\ Sound(Boost(r))
         /\ Sound(ReclaimStale(r)) /\ Sound(OpsTerminate(r)) /\ Sound(MarkSkipped(r))
<1>1. /\ "paused" \in Errors
      /\ {"pending", "exhausted", "skipped", "running"} \subseteq Statuses
  BY DEF Errors, Statuses
<1>2. r \in Row /\ Within(r)
  BY DEF Sound
<1>3. /\ MarkRunning(r) \in Row /\ TouchRunning(r) \in Row /\ Boost(r) \in Row
      /\ ReclaimStale(r) \in Row /\ OpsTerminate(r) \in Row /\ MarkSkipped(r) \in Row
  BY <1>1, <1>2 DEF MarkRunning, TouchRunning, Boost, ReclaimStale, OpsTerminate,
                    MarkSkipped, Released, Row
<1>4. Within(MarkRunning(r)) /\ Within(TouchRunning(r)) /\ Within(Boost(r))
  BY <1>2 DEF MarkRunning, TouchRunning, Boost, Row, Within, InFlight
<1>5. Within(ReclaimStale(r)) /\ Within(OpsTerminate(r)) /\ Within(MarkSkipped(r))
  BY <1>2 DEF ReclaimStale, OpsTerminate, MarkSkipped, Released, Row, Within
<1>6. QED  BY <1>3, <1>4, <1>5 DEF Sound

\* A success, a silent reclaim and the requeues keep a row within its budget.
LEMMA OutcomeSound ==
  ASSUME NEW r, Sound(r)
  PROVE  /\ \A named \in BOOLEAN : Sound(MarkReady(r, named))
         /\ Sound(ReclaimSilent(r)) /\ Sound(ReopenBilling(r))
         /\ \A g, b \in BOOLEAN : Sound(ReopenExhausted(r, g, b))
         /\ \A b \in BOOLEAN : Sound(ReopenFailed(r, b))
<1>1. /\ "none" \in Errors /\ "fetch" \in Errors
      /\ {"pending", "exhausted", "ready"} \subseteq Statuses
      /\ 0 \in 0..(HardCap + 1)
  BY DEF Errors, Statuses, HardCap
<1>2. r \in Row /\ Bump(r.attempts) \in 0..(HardCap + 1)
  BY BumpRange DEF Sound, Row
<1>3. Sound(ReclaimSilent(r)) /\ Sound(ReopenBilling(r))
  BY <1>1, <1>2 DEF ReclaimSilent, ReopenBilling, Released, Row, Sound, Within
<1>4. ASSUME NEW g \in BOOLEAN, NEW b \in BOOLEAN PROVE Sound(ReopenExhausted(r, g, b))
  BY <1>1, <1>2 DEF ReopenExhausted, Released, Row, Sound, Within
<1>5. ASSUME NEW b \in BOOLEAN PROVE Sound(ReopenFailed(r, b))
  BY <1>1, <1>2 DEF ReopenFailed, Released, Row, Sound, Within
<1>6. ASSUME NEW named \in BOOLEAN PROVE Sound(MarkReady(r, named))
  BY <1>1, <1>2 DEF MarkReady, Released, Row, Sound, Within
<1>7. QED  BY <1>3, <1>4, <1>5, <1>6

\* A defer never leaves a row failed or in flight.
LEMMA DeferredSound ==
  ASSUME NEW r, Sound(r), NEW c \in Errors PROVE Sound(MarkDeferred(r, c))
<1>1. {"pending", "exhausted"} \subseteq Statuses
  BY DEF Statuses
<1>2. r \in Row /\ Bump(r.attempts) \in 0..(HardCap + 1)
  BY BumpRange DEF Sound, Row
<1>3. QED  BY <1>1, <1>2 DEF MarkDeferred, Released, Row, Sound, Within

\* mark_failed compares the new attempts with the new max_attempts.
LEMMA FailedSound ==
  ASSUME NEW r, Sound(r), NEW c \in Errors PROVE Sound(MarkFailed(r, c))
<1> DEFINE max == LeastCap(r.max, FailureCap(c))
           retryable == c \notin NonRetryable /\ ~RepeatedVerdict(r, c)
           status == IF ~retryable \/ r.attempts + 1 >= max THEN "exhausted" ELSE "failed"
           n == Bump(r.attempts)
<1>1. r \in Row /\ r.attempts \in 0..(HardCap + 1) /\ r.max \in 1..HardCap
  BY DEF Sound, Row
<1>2. n \in 0..(HardCap + 1)
  BY <1>1, BumpRange
<1>3. max \in 1..HardCap
  BY <1>1 DEF LeastCap, FailureCap, HardCap, LookCap
<1>4. status = "failed" => n < max
  BY <1>1, <1>3, BumpExact DEF HardCap
<1>5. status \in {"exhausted", "failed"}
  OBVIOUS
<1>6. MarkFailed(r, c) = [Released(r) EXCEPT !.status = status, !.attempts = n,
                            !.max = max, !.err = c, !.swept = FALSE, !.due = FALSE]
  BY <1>1 DEF MarkFailed, Released, Row
<1>7. status \in Statuses
  BY DEF Statuses
<1> HIDE DEF max, status, n
<1>8. MarkFailed(r, c) \in Row
<2>1. Released(r) \in Row
  BY <1>1 DEF Released, Row
<2>2. QED  BY <2>1, <1>2, <1>3, <1>6, <1>7 DEF Row
<1>9. /\ MarkFailed(r, c).status = status /\ MarkFailed(r, c).attempts = n
      /\ MarkFailed(r, c).max = max
  BY <1>1, <1>6 DEF Released, Row
<1>10. QED
  BY <1>4, <1>5, <1>8, <1>9 DEF Sound, Within

\* Whatever the executor reports, the row it reports on stays within its budget.
LEMMA CompletionSound ==
  ASSUME NEW r, Sound(r), NEW c \in Errors \cup {"ready", "duplicate"}
  PROVE  Sound(ApplyCompletion(r, c))
<1>1. "ready" \notin DeferReasons /\ "duplicate" \notin DeferReasons
  BY DEF DeferReasons
<1>2. CASE c \in {"ready", "duplicate"}
  BY <1>1, <1>2, OutcomeSound DEF ApplyCompletion
<1>3. CASE c \notin {"ready", "duplicate"} /\ c \in DeferReasons
  BY <1>3, DeferredSound DEF ApplyCompletion
<1>4. CASE c \notin {"ready", "duplicate"} /\ c \notin DeferReasons
  BY <1>4, FailedSound DEF ApplyCompletion
<1>5. QED  BY <1>2, <1>3, <1>4

\* Every way a row changes: a statement, or the passing of time.
Aged(r) == {[r EXCEPT !.due = TRUE], [r EXCEPT !.old = TRUE], [r EXCEPT !.claimed = "stale"],
            [r EXCEPT !.touched = "silent"], [r EXCEPT !.touched = "cold"]}
Written(r) == {MarkRunning(r), TouchRunning(r), Boost(r), ReclaimStale(r), OpsTerminate(r),
               MarkSkipped(r), ReclaimSilent(r), ReopenBilling(r)}
Outcomes == Reasons \cup {"ready", "duplicate", "shortfall", "lockwait"}
Moved(r, q) ==
  \/ q = r
  \/ r.status = "absent" /\ q = NewRow
  \/ UnderCap(r) /\ \E told \in BOOLEAN : q = ClaimRow(r, told)
  \/ q \in Written(r) \cup Aged(r)
  \/ \E c \in Outcomes : q = ApplyCompletion(r, c)
  \/ \E p \in {r, ReclaimStale(r)} : \E g, b \in BOOLEAN :
       q \in {ReopenExhausted(p, g, b), ReopenFailed(p, b)}

\* Time changes no counter.
LEMMA AgedSound == ASSUME NEW r, Sound(r), NEW q \in Aged(r) PROVE Sound(q)
<1>1. r \in Row /\ Within(r)
  BY DEF Sound
<1>2. CASE q = [r EXCEPT !.due = TRUE]
  BY <1>1, <1>2 DEF Sound, Row, Within
<1>3. CASE q = [r EXCEPT !.old = TRUE]
  BY <1>1, <1>3 DEF Sound, Row, Within
<1>4. CASE q = [r EXCEPT !.claimed = "stale"]
  BY <1>1, <1>4 DEF Sound, Row, Within
<1>5. CASE q = [r EXCEPT !.touched = "silent"]
  BY <1>1, <1>5 DEF Sound, Row, Within
<1>6. CASE q = [r EXCEPT !.touched = "cold"]
  BY <1>1, <1>6 DEF Sound, Row, Within
<1>7. QED  BY <1>2, <1>3, <1>4, <1>5, <1>6 DEF Aged

\* A new row has its whole budget.
LEMMA NewRowSound == Sound(NoRow) /\ Sound(NewRow)
<1>1. /\ "none" \in Errors /\ {"absent", "pending"} \subseteq Statuses
      /\ 0 \in 0..(HardCap + 1) /\ HardCap \in 1..HardCap
  BY DEF Errors, Statuses, HardCap
<1>2. NoRow \in Row
  BY <1>1 DEF NoRow, Row
<1>3. NewRow \in Row /\ NewRow.status = "pending"
  BY <1>1 DEF NoRow, NewRow, Row
<1>4. QED  BY <1>2, <1>3 DEF NoRow, Sound, Within

\* However a row changes, it stays within its budget.
LEMMA MovedSound == ASSUME NEW r, Sound(r), NEW q, Moved(r, q) PROVE Sound(q)
<1>1. CASE UnderCap(r) /\ \E told \in BOOLEAN : q = ClaimRow(r, told)
  BY <1>1, ClaimSound DEF Sound
<1>2. CASE q \in Written(r)
  BY <1>2, QuietSound, OutcomeSound DEF Written
<1>3. CASE q \in Aged(r)
  BY <1>3, AgedSound
<1>4. ASSUME NEW c \in Outcomes, q = ApplyCompletion(r, c)
      PROVE  Sound(q)
  <2>1. c \in Errors \cup {"ready", "duplicate"}
    BY QueueAssumption DEF QueueAssumption, Outcomes, Errors
  <2>2. QED  BY <1>4, <2>1, CompletionSound
<1>5. ASSUME NEW p \in {r, ReclaimStale(r)}, NEW g \in BOOLEAN, NEW b \in BOOLEAN,
             q \in {ReopenExhausted(p, g, b), ReopenFailed(p, b)}
      PROVE  Sound(q)
  <2>1. Sound(p)
    BY QuietSound
  <2>2. QED  BY <1>5, <2>1, OutcomeSound
<1>6. QED  BY <1>1, <1>2, <1>3, <1>4, <1>5, NewRowSound DEF Moved

-----------------------------------------------------------------------------
(* Every step of every actor only applies these statements.                *)

Table(f) == f = [s \in Slots |-> f[s]]
RowsMoved == Table(job') /\ \A t \in Slots : Moved(job[t], job'[t])

\* A statement on one row moves that row and leaves the others.
LEMMA OneRowMoves ==
  ASSUME NEW s \in Slots, NEW q, Table(job), job' = [job EXCEPT ![s] = q],
         Moved(job[s], q)
  PROVE  RowsMoved
  BY DEF Moved, RowsMoved, Table

\* The drain pass.
LEMMA PassMoves ==
  ASSUME Table(job), PassNext \/ \E s \in Slots : PassEnqueueUnanswered(s)
  PROVE  RowsMoved
<1>1. CASE PassBegins
  BY <1>1 DEF PassBegins, Update, RowsMoved, Table, Moved, Written
<1>2. CASE PassReclaims
  BY <1>2 DEF PassReclaims, Update, RowsMoved, Table, Moved, Written
<1>3. CASE PassEnds \/ PassStops \/ DrainLockExpires
  BY <1>3 DEF PassEnds, PassStops, DrainLockExpires, RowsMoved, Table, Moved
<1>4. ASSUME NEW s \in Slots, PassClaims(s)
      PROVE  RowsMoved
  <2>1. PICK told \in BOOLEAN : job' = [job EXCEPT ![s] = ClaimRow(job[s], told)]
    BY <1>4 DEF PassClaims
  <2>2. Moved(job[s], ClaimRow(job[s], told))
    BY <1>4 DEF PassClaims, Claimable, ClaimReady, Moved
  <2>3. QED  BY <2>1, <2>2, OneRowMoves
<1>5. ASSUME NEW s \in Slots, PassWithholds(s)
      PROVE  RowsMoved
  <2>1. MarkFailed(job[s], "shortfall") = ApplyCompletion(job[s], "shortfall")
    BY DEF ApplyCompletion, DeferReasons
  <2>2. Moved(job[s], MarkFailed(job[s], "shortfall"))
    BY <2>1 DEF Moved, Outcomes
  <2>3. QED  BY <1>5, <2>2, OneRowMoves DEF PassWithholds
<1>6. ASSUME NEW s \in Slots, PassAdopts(s)
      PROVE  RowsMoved
  <2>1. MarkReady(job[s], TRUE) = ApplyCompletion(job[s], "ready")
    BY DEF ApplyCompletion, DeferReasons
  <2>2. Moved(job[s], MarkReady(job[s], TRUE))
    BY <2>1 DEF Moved, Outcomes
  <2>3. QED  BY <1>6, <2>2, OneRowMoves DEF PassAdopts
<1>7. ASSUME NEW s \in Slots, PassEnqueueUnanswered(s)
      PROVE  RowsMoved
  <2>1. MarkDeferred(job[s], "lockwait") = ApplyCompletion(job[s], "lockwait")
    BY DEF ApplyCompletion, DeferReasons
  <2>2. Moved(job[s], MarkDeferred(job[s], "lockwait"))
    BY <2>1 DEF Moved, Outcomes
  <2>3. QED  BY <1>7, <2>2, OneRowMoves DEF PassEnqueueUnanswered
<1>8. ASSUME NEW s \in Slots, PassEnqueues(s)
      PROVE  RowsMoved
  BY <1>8 DEF PassEnqueues, RowsMoved, Table, Moved
<1>9. ASSUME NEW s \in Slots, PassMarksRunning(s)
      PROVE  RowsMoved
  <2>1. Moved(job[s], MarkRunning(job[s]))
    BY DEF Moved, Written
  <2>2. QED  BY <1>9, <2>1, OneRowMoves DEF PassMarksRunning
<1>10. ASSUME NEW s \in Slots, PassEnqueueRefused(s)
       PROVE  RowsMoved
  <2>1. PICK c \in Refusals : job' = [job EXCEPT ![s] = ApplyCompletion(job[s], c)]
    BY <1>10 DEF PassEnqueueRefused
  <2>2. Moved(job[s], ApplyCompletion(job[s], c))
    BY DEF Moved, Outcomes, Refusals
  <2>3. QED  BY <2>1, <2>2, OneRowMoves
<1>11. QED
  BY <1>1, <1>2, <1>3, <1>4, <1>5, <1>6, <1>7, <1>8, <1>9, <1>10 DEF PassNext

\* The worker, its callbacks and what becomes of them.
LEMMA WorkerMoves ==
  ASSUME Table(job),
         WorkerNext \/ \E s \in Slots : CallbackRetried(s) \/ RoutePersistsLate(s)
  PROVE  RowsMoved
<1>1. ASSUME NEW s \in Slots, WorkerStarts(s) \/ Heartbeat(s)
      PROVE  RowsMoved
  <2>1. Moved(job[s], TouchRunning(job[s]))
    BY DEF Moved, Written
  <2>2. QED  BY <1>1, <2>1, OneRowMoves DEF WorkerStarts, Heartbeat
<1>2. ASSUME NEW s \in Slots, NEW next, CallbackTo(s, next)
      PROVE  RowsMoved
  <2>1. PICK c \in Outcomes : job' = [job EXCEPT ![s] =
          IF job[s].status = "absent" THEN job[s] ELSE ApplyCompletion(job[s], c)]
    BY <1>2 DEF CallbackTo, SkipsDuplicate, Answered, Outcomes
  <2>2. Moved(job[s], IF job[s].status = "absent" THEN job[s] ELSE ApplyCompletion(job[s], c))
    BY DEF Moved
  <2>3. QED  BY <2>1, <2>2, OneRowMoves
<1>3. ASSUME NEW s \in Slots,
             RoutePersists(s) \/ CallbackLost(s) \/ WorkerFails(s) \/ RoutePersistsLate(s)
      PROVE  RowsMoved
  BY <1>3 DEF RoutePersists, CallbackLost, WorkerFails, RoutePersistsLate, RowsMoved, Table, Moved
<1>4. QED
  BY <1>1, <1>2, <1>3 DEF WorkerNext, Callback, CallbackRetried

\* The planner, the watchdog and the operator.
LEMMA TableMoves ==
  ASSUME Table(job), Plan \/ WatchdogNext \/ OperatorNext
  PROVE  RowsMoved
<1>1. CASE Plan
  BY <1>1 DEF Plan, RowsMoved, Table, Moved
<1>2. CASE WatchdogNext
  BY <1>2 DEF WatchdogNext, WatchdogSweeps, WatchdogReclaimsSilent, WatchdogReclaimsStale,
              Update, RowsMoved, Table, Moved, Written
<1>3. CASE Kick
  BY <1>3 DEF Kick, RowsMoved, Table, Moved, Written
<1>4. CASE RequeueFactoryJobs
  <2>1. PICK g, b \in BOOLEAN : job' = [s \in Slots |->
          IF Requeueable(KickedRows[s], g, b) THEN ReopenExhausted(KickedRows[s], g, b)
          ELSE IF Retryable(KickedRows[s], b) THEN ReopenFailed(KickedRows[s], b)
          ELSE KickedRows[s]]
    BY <1>4 DEF RequeueFactoryJobs
  <2>2. \A s \in Slots : KickedRows[s] \in {job[s], ReclaimStale(job[s])}
    BY DEF KickedRows, Update
  <2>3. QED
    BY <2>1, <2>2 DEF RowsMoved, Table, Moved, Written
<1>5. CASE RequeueBilling
  BY <1>5 DEF RequeueBilling, KickedRows, Update, RowsMoved, Table, Moved, Written
<1>6. QED  BY <1>1, <1>2, <1>3, <1>4, <1>5 DEF OperatorNext

\* Time, on schedule or late.
LEMMA TimeMoves ==
  ASSUME Table(job),
         TimeNext \/ \E s \in Slots : \/ HeartbeatsLost(s) \/ GoesSilent(s, FALSE)
                                      \/ ClaimGoesStale(s, FALSE)
  PROVE  RowsMoved
<1>1. PICK s \in Slots :
        \/ BackoffElapses(s) \/ ProviderCoolsDown(s) \/ GrowsOld(s) \/ HeartbeatsLost(s)
        \/ \E b \in BOOLEAN : GoesSilent(s, b) \/ ClaimGoesStale(s, b)
  BY DEF TimeNext
<1>2. \E q \in Aged(job[s]) : job' = [job EXCEPT ![s] = q]
  BY <1>1 DEF BackoffElapses, ProviderCoolsDown, GrowsOld, HeartbeatsLost, GoesSilent,
              ClaimGoesStale, Aged
<1>3. PICK q \in Aged(job[s]) : job' = [job EXCEPT ![s] = q]
  BY <1>2
<1>4. Moved(job[s], q)
  BY DEF Moved
<1>5. QED  BY <1>3, <1>4, OneRowMoves

\* No step writes a row in any other way.
LEMMA RowsMove ==
  ASSUME Table(job), [Next]_vars
  PROVE  RowsMoved
<1>1. CASE UNCHANGED vars
  BY <1>1 DEF vars, RowsMoved, Table, Moved
<1>2. CASE TimelyNext
  BY <1>2, PassMoves, WorkerMoves, TableMoves, TimeMoves DEF TimelyNext
<1>3. CASE LateNext
  BY <1>3, PassMoves, WorkerMoves, TimeMoves DEF LateNext
<1>4. CASE OperatorNext
  BY <1>4, TableMoves
<1>5. QED  BY <1>1, <1>2, <1>3, <1>4 DEF Next

-----------------------------------------------------------------------------
(* What holds in every order of steps: types, budgets, caps.               *)

\* The variables beside the rows keep their types.
LEMMA RestTyped ==
  ASSUME TypeOK, [Next]_vars
  PROVE  /\ pass' \in [pc : {"idle", "checked", "loop", "claimed", "enqueued", "dead"},
                        slot : Slots \cup {NoSlot}, lanes : SUBSET Lanes]
         /\ delivery' \in [Slots -> {"none", "waiting", "active", "saved"}]
         /\ canvas' \in [Slots -> {"blank", "painted", "persisted"}]
         /\ faults' \in 0..MaxFaults
<1> USE QueueAssumption DEF QueueAssumption, TypeOK
<1>1. CASE UNCHANGED vars
  BY <1>1 DEF vars
<1>2. CASE Plan \/ WatchdogNext \/ OperatorNext
  <2>1. UNCHANGED <<delivery, canvas, faults>> /\ (pass' = pass \/ pass' = Idle)
    BY <1>2 DEF Plan, WatchdogNext, WatchdogSweeps, WatchdogReclaimsSilent, Kick,
        WatchdogReclaimsStale, OperatorNext, RequeueFactoryJobs, RequeueBilling, DrainRescheduled
  <2>2. QED  BY <2>1 DEF Idle
<1>3. CASE TimeNext
  BY <1>3 DEF TimeNext, BackoffElapses, GoesSilent, ClaimGoesStale, ProviderCoolsDown, GrowsOld
<1>4. CASE PassNext
  <2>1. CASE PassBegins \/ PassReclaims \/ PassEnds \/ PassStops \/ DrainLockExpires
    BY <2>1 DEF PassBegins, PassReclaims, PassEnds, PassStops, DrainLockExpires, Idle
  <2>2. ASSUME NEW s \in Slots, PassClaims(s) \/ PassWithholds(s) \/ PassAdopts(s)
                                \/ PassEnqueueRefused(s)
        PROVE  /\ pass' \in [pc : {"idle", "checked", "loop", "claimed", "enqueued", "dead"},
                              slot : Slots \cup {NoSlot}, lanes : SUBSET Lanes]
               /\ UNCHANGED <<delivery, canvas, faults>>
    BY <2>2 DEF PassClaims, PassWithholds, PassAdopts, PassEnqueueRefused, BackToLoop
  <2>3. ASSUME NEW s \in Slots, PassEnqueues(s)
        PROVE  /\ pass' \in [pc : {"idle", "checked", "loop", "claimed", "enqueued", "dead"},
                              slot : Slots \cup {NoSlot}, lanes : SUBSET Lanes]
               /\ delivery' \in [Slots -> {"none", "waiting", "active", "saved"}]
               /\ UNCHANGED <<canvas, faults>>
    BY <2>3 DEF PassEnqueues
  <2>4. ASSUME NEW s \in Slots, PassMarksRunning(s)
        PROVE  /\ pass' \in [pc : {"idle", "checked", "loop", "claimed", "enqueued", "dead"},
                              slot : Slots \cup {NoSlot}, lanes : SUBSET Lanes]
               /\ UNCHANGED <<delivery, canvas, faults>>
    BY <2>4 DEF PassMarksRunning, Lane, Lanes
  <2>5. QED  BY <1>4, <2>1, <2>2, <2>3, <2>4 DEF PassNext
<1>5. CASE WorkerNext
  <2>1. PICK s \in Slots : \/ WorkerStarts(s) \/ Heartbeat(s) \/ RoutePersists(s)
                           \/ Callback(s) \/ CallbackLost(s) \/ WorkerFails(s)
    BY <1>5 DEF WorkerNext
  <2>2. CASE Callback(s)
    BY <2>2 DEF Callback, CallbackTo, SkipsDuplicate, Painted
  <2>3. CASE ~Callback(s)
    BY <2>1, <2>3 DEF WorkerStarts, Heartbeat, RoutePersists, CallbackLost, WorkerFails
  <2>4. QED  BY <2>2, <2>3
<1>6. CASE LateNext
  <2>1. PICK s \in Slots :
          \/ PassEnqueueUnanswered(s) \/ CallbackRetried(s) \/ HeartbeatsLost(s)
          \/ GoesSilent(s, FALSE) \/ ClaimGoesStale(s, FALSE) \/ RoutePersistsLate(s)
    BY <1>6 DEF LateNext
  <2>2. CASE CallbackRetried(s)
    BY <2>2 DEF CallbackRetried, CallbackTo, SkipsDuplicate, Painted
  <2>3. CASE PassEnqueueUnanswered(s)
    <3>1. pass' = [pass EXCEPT !.pc = "loop", !.slot = NoSlot]
      BY <2>3 DEF PassEnqueueUnanswered, BackToLoop
    <3>2. /\ delivery' = [delivery EXCEPT ![s] = IF @ = "none" THEN "waiting" ELSE @]
          /\ canvas' = canvas /\ faults < MaxFaults /\ faults' = faults + 1
      BY <2>3 DEF PassEnqueueUnanswered
    <3>3. faults' \in 0..MaxFaults
      BY <3>2
    <3>4. pass' \in [pc : {"idle", "checked", "loop", "claimed", "enqueued", "dead"},
                     slot : Slots \cup {NoSlot}, lanes : SUBSET Lanes]
      BY <3>1
    <3>5. QED  BY <3>2, <3>3, <3>4
  <2>4. CASE HeartbeatsLost(s)
    BY <2>4 DEF HeartbeatsLost
  <2>5. CASE GoesSilent(s, FALSE) \/ ClaimGoesStale(s, FALSE) \/ RoutePersistsLate(s)
    BY <2>5 DEF GoesSilent, ClaimGoesStale, RoutePersistsLate
  <2>6. QED  BY <2>1, <2>2, <2>3, <2>4, <2>5
<1>7. QED  BY <1>1, <1>2, <1>3, <1>4, <1>5, <1>6 DEF Next, TimelyNext

\* The inductive invariant of the rows: typed and within their budgets.
RowsSound == TypeOK /\ \A s \in Slots : Sound(job[s])

LEMMA RowsSoundInit == Init => RowsSound
<1> SUFFICES ASSUME Init PROVE RowsSound
  OBVIOUS
<1>1. \A s \in Slots : Sound(job[s])
  BY NewRowSound DEF Init
<1>2. job \in [Slots -> Row]
  BY NewRowSound DEF Init, Sound
<1>3. TypeOK
  BY <1>2, QueueAssumption DEF Init, TypeOK, Idle, QueueAssumption
<1>4. QED  BY <1>1, <1>3 DEF RowsSound

LEMMA RowsSoundStep == RowsSound /\ [Next]_vars => RowsSound'
<1> SUFFICES ASSUME RowsSound, [Next]_vars PROVE RowsSound'
  OBVIOUS
<1>1. TypeOK /\ Table(job) /\ \A s \in Slots : Sound(job[s])
  BY DEF RowsSound, TypeOK, Table
<1>2. Table(job') /\ \A t \in Slots : Moved(job[t], job'[t])
  BY <1>1, RowsMove DEF RowsMoved
<1>3. \A t \in Slots : Sound(job'[t])
  BY <1>1, <1>2, MovedSound
<1>4. job' \in [Slots -> Row]
  BY <1>2, <1>3 DEF Table, Sound
<1>5. TypeOK'
  BY <1>1, <1>4, RestTyped DEF TypeOK
<1>6. QED  BY <1>3, <1>5 DEF RowsSound

\* No cap of a row is raised by any statement, its insertion excepted.
LEMMA MovedCap ==
  ASSUME NEW r, Sound(r), r.status # "absent", NEW q, Moved(r, q) PROVE q.max <= r.max
<1>1. r \in Row /\ r.max \in 1..HardCap
  BY DEF Sound, Row
<1>2. ASSUME NEW p \in Row PROVE Released(p).max = p.max
  BY DEF Released, Row
<1>3. CASE UnderCap(r) /\ \E told \in BOOLEAN : q = ClaimRow(r, told)
  BY <1>1, <1>3 DEF ClaimRow, Row, HardCap
<1>4. CASE q \in Written(r)
  <2>1. MarkRunning(r).max = r.max /\ TouchRunning(r).max = r.max /\ Boost(r).max = r.max
    BY <1>1 DEF MarkRunning, TouchRunning, Boost, Row
  <2>2. ReclaimStale(r).max = r.max /\ OpsTerminate(r).max = r.max /\ MarkSkipped(r).max = r.max
    BY <1>1 DEF ReclaimStale, OpsTerminate, MarkSkipped, Released, Row
  <2>3. ReclaimSilent(r).max = r.max /\ ReopenBilling(r).max = r.max
    BY <1>1 DEF ReclaimSilent, ReopenBilling, Released, Row
  <2>4. QED  BY <1>1, <1>4, <2>1, <2>2, <2>3 DEF Written, HardCap
<1>5. CASE q \in Aged(r)
  BY <1>1, <1>5 DEF Aged, Row, HardCap
<1>6. ASSUME NEW c, q = ApplyCompletion(r, c)
      PROVE  q.max <= r.max
  <2>1. /\ MarkReady(r, TRUE).max = r.max /\ MarkReady(r, FALSE).max = r.max
        /\ MarkDeferred(r, c).max = r.max
    BY <1>1 DEF MarkReady, MarkDeferred, Released, Row
  <2>2. MarkFailed(r, c).max = LeastCap(r.max, FailureCap(c))
    BY <1>1 DEF MarkFailed, Released, Row
  <2>3. LeastCap(r.max, FailureCap(c)) <= r.max
    BY <1>1 DEF LeastCap, FailureCap, HardCap, LookCap
  <2>4. q \in {MarkReady(r, TRUE), MarkReady(r, FALSE), MarkDeferred(r, c), MarkFailed(r, c)}
    BY <1>6 DEF ApplyCompletion, DeferReasons
  <2>5. q.max \in {r.max, LeastCap(r.max, FailureCap(c))}
    BY <2>1, <2>2, <2>4, Zenon
  <2>6. QED  BY <1>1, <2>3, <2>5 DEF HardCap
<1>7. ASSUME NEW p \in {r, ReclaimStale(r)}, NEW g \in BOOLEAN, NEW b \in BOOLEAN,
             q \in {ReopenExhausted(p, g, b), ReopenFailed(p, b)}
      PROVE  q.max <= r.max
  <2>1. p \in Row
    BY QuietSound DEF Sound
  <2>2. p.max = r.max
    BY <1>1 DEF ReclaimStale, Released, Row
  <2>3. ReopenExhausted(p, g, b).max = p.max /\ ReopenFailed(p, b).max = p.max
    BY <2>1 DEF ReopenExhausted, ReopenFailed, Released, Row
  <2>4. QED  BY <1>1, <1>7, <2>2, <2>3 DEF HardCap
<1>8. CASE q = r
  BY <1>1, <1>8 DEF HardCap
<1>9. QED  BY <1>3, <1>4, <1>5, <1>6, <1>7, <1>8 DEF Moved

\* The rows, the pass, the deliveries and the artifacts keep their types.
THEOREM QueueTyped == Spec => []TypeOK
<1>1. RowsSound => TypeOK
  BY DEF RowsSound
<1>2. QED  BY <1>1, RowsSoundInit, RowsSoundStep, PTL DEF Spec

\* HARD_SLOT_ATTEMPT_CAP bounds every row that is painted again, in every order
\* of callbacks, reclaims, retries and requeues.
THEOREM BudgetKept == Spec => []AttemptBudget
<1>1. RowsSound => AttemptBudget
  <2>1. ASSUME NEW r \in Row PROVE r.max <= HardCap
    BY <2>1 DEF Row, HardCap
  <2>2. QED  BY <2>1 DEF RowsSound, AttemptBudget, Sound, Within
<1>2. QED  BY <1>1, RowsSoundInit, RowsSoundStep, PTL DEF Spec

\* No order of statements raises max_attempts.
THEOREM CapKept == Spec => CapNeverRaised
<1>1. RowsSound /\ [Next]_vars =>
        [\A s \in Slots : job[s].status # "absent" => job'[s].max <= job[s].max]_vars
  <2> SUFFICES ASSUME RowsSound, [Next]_vars, NEW s \in Slots, job[s].status # "absent"
               PROVE  job'[s].max <= job[s].max
    OBVIOUS
  <2>1. Table(job) /\ Sound(job[s])
    BY DEF RowsSound, TypeOK, Table
  <2>2. Moved(job[s], job'[s])
    BY <2>1, RowsMove DEF RowsMoved
  <2>3. QED  BY <2>1, <2>2, MovedCap
<1>2. QED  BY <1>1, RowsSoundInit, RowsSoundStep, PTL DEF Spec, CapNeverRaised

-----------------------------------------------------------------------------
(* A ready row has its artifact.                                           *)

\* q does not become ready where r was not.
NotReadied(r, q) == q.status = "ready" => r.status = "ready"

\* Only mark_ready makes a row ready.
LEMMA OnlyMarkReady ==
  ASSUME NEW r \in Row
  PROVE  /\ \A q \in Written(r) \cup Aged(r) \cup {NewRow, r} : NotReadied(r, q)
         /\ \A told \in BOOLEAN : NotReadied(r, ClaimRow(r, told))
         /\ \A c \in Errors : NotReadied(r, MarkDeferred(r, c)) /\ NotReadied(r, MarkFailed(r, c))
         /\ \A g, b \in BOOLEAN : /\ NotReadied(r, ReopenExhausted(r, g, b))
                                  /\ NotReadied(r, ReopenFailed(r, b))
<1>1. /\ \A q \in Aged(r) \cup {NewRow, r} : NotReadied(r, q)
      /\ \A told \in BOOLEAN : NotReadied(r, ClaimRow(r, told))
  BY DEF NotReadied, Aged, NewRow, NoRow, ClaimRow, Row
<1>2. NotReadied(r, MarkRunning(r)) /\ NotReadied(r, TouchRunning(r)) /\ NotReadied(r, Boost(r))
  BY DEF NotReadied, MarkRunning, TouchRunning, Boost, Row
<1>3. /\ NotReadied(r, ReclaimStale(r)) /\ NotReadied(r, OpsTerminate(r))
      /\ NotReadied(r, MarkSkipped(r))
  BY DEF NotReadied, ReclaimStale, OpsTerminate, MarkSkipped, Released, Row
<1>4. NotReadied(r, ReclaimSilent(r)) /\ NotReadied(r, ReopenBilling(r))
  BY DEF NotReadied, ReclaimSilent, ReopenBilling, Released, Row
<1>5. \A c \in Errors : NotReadied(r, MarkDeferred(r, c)) /\ NotReadied(r, MarkFailed(r, c))
  BY DEF NotReadied, MarkDeferred, MarkFailed, Released, Row
<1>6. \A g, b \in BOOLEAN : /\ NotReadied(r, ReopenExhausted(r, g, b))
                            /\ NotReadied(r, ReopenFailed(r, b))
  BY DEF NotReadied, ReopenExhausted, ReopenFailed, Released, Row
<1>7. QED  BY <1>1, <1>2, <1>3, <1>4, <1>5, <1>6 DEF Written

\* The route saves before it answers: the inductive invariant of the artifacts.
ArtifactsKept ==
  /\ RowsSound
  /\ ReadyHasArtifact
  /\ \A s \in Slots : delivery[s] = "saved" => canvas[s] = "persisted"

\* Steps that report no success make no row ready and keep every artifact.
Quiet ==
  /\ \A s \in Slots : NotReadied(job[s], job'[s])
  /\ \A s \in Slots : canvas[s] = "persisted" => canvas'[s] = "persisted"
  /\ \A s \in Slots : delivery'[s] = "saved" => delivery[s] = "saved" \/ canvas'[s] = "persisted"

LEMMA QuietKeeps == ASSUME ArtifactsKept, [Next]_vars, Quiet PROVE ArtifactsKept'
  BY RowsSoundStep DEF ArtifactsKept, Quiet, NotReadied, ReadyHasArtifact

LEMMA ArtifactsInit == Init => ArtifactsKept
  BY RowsSoundInit DEF Init, ArtifactsKept, ReadyHasArtifact, NoRow

\* Marking one row ready, once its artifact is persisted.
LEMMA ReadyKeeps ==
  ASSUME ArtifactsKept, [Next]_vars, NEW s \in Slots, canvas[s] = "persisted",
         \A t \in Slots \ {s} : job'[t] = job[t],
         canvas' = canvas,
         \A t \in Slots : delivery'[t] = "saved" => delivery[t] = "saved"
  PROVE  ArtifactsKept'
  BY RowsSoundStep DEF ArtifactsKept, ReadyHasArtifact

LEMMA ArtifactsStep == ArtifactsKept /\ [Next]_vars => ArtifactsKept'
<1> SUFFICES ASSUME ArtifactsKept, [Next]_vars PROVE ArtifactsKept'
  OBVIOUS
<1>1. /\ \A s \in Slots : job[s] \in Row
      /\ job \in [Slots -> Row]
      /\ canvas \in [Slots -> {"blank", "painted", "persisted"}]
      /\ delivery \in [Slots -> {"none", "waiting", "active", "saved"}]
  BY DEF ArtifactsKept, RowsSound, TypeOK
<1>2. \A s \in Slots : delivery[s] = "saved" => canvas[s] = "persisted"
  BY DEF ArtifactsKept
<1>3. CASE UNCHANGED vars
  BY <1>3, QuietKeeps DEF vars, Quiet, NotReadied
<1>4. CASE Plan \/ WatchdogNext
  BY <1>1, <1>4, OnlyMarkReady, QuietKeeps
  DEF Plan, WatchdogNext, WatchdogSweeps, WatchdogReclaimsSilent, WatchdogReclaimsStale,
      Update, Quiet, NotReadied, Written
<1>5. CASE OperatorNext
  <2>1. CASE Kick \/ RequeueBilling
    BY <1>1, <2>1, OnlyMarkReady, QuietKeeps
    DEF Kick, RequeueBilling, KickedRows, Update, Quiet, NotReadied, Written
  <2>2. CASE RequeueFactoryJobs
    <3>1. \A s \in Slots : KickedRows[s] \in Row /\ NotReadied(job[s], KickedRows[s])
      BY <1>1, OnlyMarkReady, QuietSound DEF KickedRows, Update, Written, NotReadied,
         ArtifactsKept, RowsSound, Sound
    <3>2. \A s \in Slots : NotReadied(KickedRows[s], job'[s])
      BY <2>2, <3>1, OnlyMarkReady DEF RequeueFactoryJobs, NotReadied
    <3>3. Quiet
      BY <2>2, <3>1, <3>2 DEF RequeueFactoryJobs, Quiet, NotReadied
    <3>4. QED  BY <3>3, QuietKeeps
  <2>3. QED  BY <1>5, <2>1, <2>2 DEF OperatorNext
<1>6. CASE TimeNext \/ \E s \in Slots : HeartbeatsLost(s) \/ GoesSilent(s, FALSE)
                                       \/ ClaimGoesStale(s, FALSE)
  <2>1. /\ UNCHANGED <<delivery, canvas>>
        /\ \E s \in Slots : \E q \in Aged(job[s]) : job' = [job EXCEPT ![s] = q]
    BY <1>6 DEF TimeNext, BackoffElapses, ProviderCoolsDown, GrowsOld, HeartbeatsLost,
                GoesSilent, ClaimGoesStale, Aged
  <2>2. PICK s \in Slots : \E q \in Aged(job[s]) : job' = [job EXCEPT ![s] = q]
    BY <2>1
  <2>3. QED  BY <1>1, <2>1, <2>2, OnlyMarkReady, QuietKeeps DEF Quiet, NotReadied
<1>7. CASE PassNext \/ \E s \in Slots : PassEnqueueUnanswered(s)
  <2>1. CASE PassBegins \/ PassReclaims \/ PassEnds \/ PassStops \/ DrainLockExpires
    BY <1>1, <2>1, OnlyMarkReady, QuietKeeps
    DEF PassBegins, PassReclaims, PassEnds, PassStops, DrainLockExpires, Update, Quiet,
        NotReadied, Written
  <2>2. ASSUME NEW s \in Slots, PassAdopts(s) PROVE ArtifactsKept'
    BY <1>1, <2>2, ReadyKeeps DEF PassAdopts, Adoptable
  <2>3. ASSUME NEW s \in Slots,
               \/ PassClaims(s) \/ PassWithholds(s) \/ PassEnqueueRefused(s)
               \/ PassMarksRunning(s)
        PROVE  ArtifactsKept'
    <3>1. "shortfall" \in Errors /\ Refusals \subseteq Errors \ {"ready", "duplicate"}
      BY QueueAssumption DEF QueueAssumption, Refusals, Errors
    <3>2. \/ \E told \in BOOLEAN : job' = [job EXCEPT ![s] = ClaimRow(job[s], told)]
          \/ job' = [job EXCEPT ![s] = MarkFailed(job[s], "shortfall")]
          \/ \E c \in Refusals : \/ job' = [job EXCEPT ![s] = MarkDeferred(job[s], c)]
                                 \/ job' = [job EXCEPT ![s] = MarkFailed(job[s], c)]
          \/ job' = [job EXCEPT ![s] = MarkRunning(job[s])]
      BY <2>3, <3>1 DEF PassClaims, PassWithholds, PassEnqueueRefused, PassMarksRunning,
                        ApplyCompletion
    <3>3. UNCHANGED <<delivery, canvas>>
      BY <2>3 DEF PassClaims, PassWithholds, PassEnqueueRefused, PassMarksRunning
    <3>4. QED  BY <1>1, <3>1, <3>2, <3>3, OnlyMarkReady, QuietKeeps
               DEF Quiet, NotReadied, Written
  <2>4. ASSUME NEW s \in Slots, PassEnqueues(s) \/ PassEnqueueUnanswered(s)
        PROVE  ArtifactsKept'
    <3>1. "lockwait" \in Errors
      BY DEF Errors
    <3>2. /\ job' = job \/ job' = [job EXCEPT ![s] = MarkDeferred(job[s], "lockwait")]
          /\ canvas' = canvas
          /\ delivery' = [delivery EXCEPT ![s] = IF @ = "none" THEN "waiting" ELSE @]
      BY <2>4 DEF PassEnqueues, PassEnqueueUnanswered
    <3>3. QED  BY <1>1, <3>1, <3>2, OnlyMarkReady, QuietKeeps DEF Quiet, NotReadied
  <2>5. QED  BY <1>7, <2>1, <2>2, <2>3, <2>4 DEF PassNext
<1>8. ASSUME NEW s \in Slots, NEW next \in {"none", "waiting"}, CallbackTo(s, next)
      PROVE  ArtifactsKept'
  <2>1. delivery' = [delivery EXCEPT ![s] = next]
    BY <1>8 DEF CallbackTo
  <2>2. CASE Answered(s, "ready") /\ delivery[s] = "saved" /\ canvas' = canvas
    BY <1>1, <1>2, <2>1, <2>2, ReadyKeeps DEF Answered
  <2>3. CASE SkipsDuplicate(s)
    BY <1>1, <2>1, <2>3, ReadyKeeps DEF SkipsDuplicate, Answered
  <2>4. ASSUME NEW c \in Reasons, Answered(s, c),
               canvas' = [canvas EXCEPT ![s] = Painted(canvas[s], c)]
        PROVE  ArtifactsKept'
    <3>1. job' = [job EXCEPT ![s] = IF job[s].status = "absent" THEN job[s]
                                    ELSE ApplyCompletion(job[s], c)]
      BY <2>4 DEF Answered
    <3>2. c \in Errors /\ c \notin {"ready", "duplicate"}
      BY QueueAssumption DEF QueueAssumption, Errors
    <3>3. NotReadied(job[s], ApplyCompletion(job[s], c))
      BY <1>1, <3>2, OnlyMarkReady DEF ApplyCompletion
    <3>4. Painted(canvas[s], c) = "persisted" \/ canvas[s] # "persisted"
      BY DEF Painted
    <3>5. QED  BY <1>1, <2>1, <2>4, <3>1, <3>3, <3>4, QuietKeeps DEF Quiet, NotReadied
  <2>5. QED  BY <1>8, <2>2, <2>3, <2>4 DEF CallbackTo
<1>9. CASE WorkerNext \/ \E s \in Slots : CallbackRetried(s) \/ RoutePersistsLate(s)
  <2>1. PICK s \in Slots :
          \/ WorkerStarts(s) \/ Heartbeat(s) \/ RoutePersists(s) \/ Callback(s)
          \/ CallbackLost(s) \/ WorkerFails(s) \/ CallbackRetried(s) \/ RoutePersistsLate(s)
    BY <1>9 DEF WorkerNext
  <2>2. CASE Callback(s) \/ CallbackRetried(s)
    BY <1>8, <2>2 DEF Callback, CallbackRetried
  <2>3. CASE WorkerStarts(s) \/ Heartbeat(s)
    BY <1>1, <2>3, OnlyMarkReady, QuietKeeps
    DEF WorkerStarts, Heartbeat, Quiet, NotReadied, Written
  <2>4. CASE RoutePersists(s) \/ CallbackLost(s) \/ WorkerFails(s) \/ RoutePersistsLate(s)
    BY <1>1, <2>4, QuietKeeps
    DEF RoutePersists, CallbackLost, WorkerFails, RoutePersistsLate, Quiet, NotReadied
  <2>5. QED  BY <2>1, <2>2, <2>3, <2>4
<1>10. QED
  BY <1>3, <1>4, <1>5, <1>6, <1>7, <1>9 DEF Next, TimelyNext, LateNext

\* "A slot is ready iff its slotKey produced a persisted artifact", whatever is lost,
\* late, duplicated or requeued, the answers without an artifact id included.
THEOREM ReadyIsReal == Spec => []ReadyHasArtifact
<1>1. ArtifactsKept => ReadyHasArtifact
  BY DEF ArtifactsKept
<1>2. QED  BY <1>1, ArtifactsInit, ArtifactsStep, PTL DEF Spec
=============================================================================
