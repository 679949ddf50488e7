------------------------------- MODULE JobRow -------------------------------
(***************************************************************************)
(* One row of the production_jobs table and the SQL statements that write  *)
(* it (backend/app/services/production_job_service.py).  Every statement   *)
(* is an operator from a row to a row; ProductionQueue applies them to the *)
(* rows they select.                                                       *)
(*                                                                         *)
(* Data abstraction.  Timestamps are kept as what the statements compare   *)
(* them with: run_after <= now() is "due"; claimed_at is "null", "fresh"   *)
(* or older than the stale window; updated_at is "now", older than the     *)
(* silent window, or older than the provider cooldown; created_at is "old" *)
(* once it is past the wall-clock bound of a defer (3 h for a lock wait,   *)
(* 24 h for the others: only a lock wait is ever open that long, so one    *)
(* flag stands for the bounds).  last_error is the class of its text, one  *)
(* class per set of marker lists it belongs to.                            *)
(***************************************************************************)
EXTENDS Naturals

HardCap == 3            \* HARD_SLOT_ATTEMPT_CAP
LookCap == 2            \* LOOK_OPS_ATTEMPT_CAP

Statuses == {"absent", "pending", "failed", "claimed", "running",
             "ready", "exhausted", "skipped"}
TerminalStatuses == {"ready", "exhausted", "skipped"}
ActiveStatuses == {"pending", "failed", "claimed", "running"}

-----------------------------------------------------------------------------
(* The classes of last_error.                                              *)

Errors == {"none",       \* NULL or ''
           "paint",      \* any other produce failure (no_artifact, bundle_failed, ...)
           "quality",    \* a verdict on a painted frame (quality_hard_block)
           "look",       \* the look call flaked ("bakış yapılamadı", look_call_failed)
           "gallery",    \* caption and photo clash ("tema çatışması")
           "shortfall",  \* not enough distinct photos ("yeni çekim yükleyin")
           "pack",       \* no template pack ("paket yok", incomplete_pack)
           "wallet",     \* provider wallet empty ("balance exhausted")
           "circuit",    \* provider_billing_circuit_open
           "budget",     \* budget_exhausted
           "lockwait",   \* production_in_flight, worker offline, enqueue failed
           "fetch",      \* fetch failed, aborted, [silent-inflight]
           "paused"}     \* skip-no-fal-quota: reel paused

\* TERMINAL_PRODUCE_ERROR_MARKERS minus the retryable ones.
TerminalErrors == {"gallery", "pack", "wallet", "budget"}
\* _is_non_retryable_slot_failure: terminal, or a terminal publish code.
NonRetryable == TerminalErrors \cup {"shortfall"}
\* Outcomes the callback and the drainer hand to mark_deferred.
DeferReasons == {"circuit", "budget", "lockwait", "fetch"}
\* _NO_PAINT_DEFER_MARKERS: the route refused before it painted.
NoPaint == {"lockwait"}
\* Defers without a wall-clock bound (_defer_max_age_sec returns None).
Unbounded == {"budget"}
\* LANE_VIDEO_PROVIDER_MARKERS; the billing filters of the requeues match the same rows.
VideoProvider == {"wallet", "circuit", "paused"}
GalleryErrors == {"gallery", "shortfall"}

Row == [status : Statuses, attempts : 0..(HardCap + 1), max : 1..HardCap,
        err : Errors, swept : BOOLEAN, due : BOOLEAN, old : BOOLEAN,
        claimed : {"null", "fresh", "stale"}, touched : {"now", "silent", "cold"},
        told : BOOLEAN,   \* an event beside claimed and running is on record since the claim
        named : BOOLEAN]  \* artifact_id IS NOT NULL

NoRow == [status |-> "absent", attempts |-> 0, max |-> HardCap, err |-> "none",
          swept |-> FALSE, due |-> FALSE, old |-> FALSE,
          claimed |-> "null", touched |-> "now", told |-> FALSE, named |-> FALSE]

\* INSERT ... VALUES ('pending', ...), run_after defaulting to now().
NewRow == [NoRow EXCEPT !.status = "pending", !.due = TRUE]

-----------------------------------------------------------------------------
(* Predicates of the WHERE clauses.                                        *)

LeastCap(a, b) == IF a < b THEN a ELSE b

\* attempts is compared with caps of at most HardCap, so it saturates above it.
Bump(n) == LeastCap(n + 1, HardCap + 1)

InFlight(r) == r.status \in {"claimed", "running"}
Queued(r) == r.status \in {"pending", "failed"}
Open(r) == r.status \in ActiveStatuses
Settled(r) == r.status \in TerminalStatuses

UnderCap(r) == r.attempts < LeastCap(r.max, HardCap)

TerminalError(r) == r.err \in TerminalErrors
StaleClaim(r) == InFlight(r) /\ r.claimed = "stale"
Runnable(r) == (Queued(r) /\ r.due) \/ StaleClaim(r)

-----------------------------------------------------------------------------
(* The statements.  Each ends every claim it does not make: claimed_at and *)
(* claimed_by go back to NULL, updated_at to now().                        *)

Released(r) == [r EXCEPT !.claimed = "null", !.touched = "now", !.told = FALSE]

\* The events of the statement before a claim are written after its commit: they are
\* on record since the claim if written later than two seconds before it.
ClaimRow(r, told) ==
  [r EXCEPT !.status = "claimed", !.claimed = "fresh", !.touched = "now", !.told = told]

MarkRunningBlind(r) == [r EXCEPT !.status = "running", !.touched = "now"]
MarkRunning(r) ==
  IF InFlight(r) THEN [r EXCEPT !.status = "running", !.touched = "now"] ELSE r

TouchRunning(r) == IF InFlight(r) THEN [r EXCEPT !.touched = "now"] ELSE r

\* artifact_id is kept where the result names none.
MarkReady(r, named) ==
  [Released(r) EXCEPT !.status = "ready", !.attempts = Bump(r.attempts),
                      !.err = "none", !.swept = FALSE, !.named = @ \/ named]

MarkSkipped(r) ==
  [Released(r) EXCEPT !.status = "skipped", !.err = "paused", !.swept = FALSE]

\* Requeue without burning an attempt, unless the reason may have painted.
MarkDeferred(r, c) ==
  LET counts == c \notin NoPaint
      expired == r.old /\ c \notin Unbounded
      spent == counts /\ r.attempts + 1 >= r.max
  IN  [Released(r) EXCEPT
         !.status = IF expired \/ spent THEN "exhausted" ELSE "pending",
         !.attempts = IF expired \/ counts THEN Bump(@) ELSE @,
         !.err = c, !.swept = FALSE, !.due = FALSE]

\* The same quality verdict twice in a row is not repainted; a look flake has
\* its own cap; the new max_attempts decides whether the row is spent.
FailureCap(c) == IF c = "look" THEN LookCap ELSE HardCap
RepeatedVerdict(r, c) == c = "quality" /\ r.err = "quality"
MarkFailedOldCap(r, c) ==
  LET max == LeastCap(r.max, FailureCap(c))
  IN  [Released(r) EXCEPT
         !.status = IF c \in NonRetryable \/ r.attempts + 1 >= r.max
                    THEN "exhausted" ELSE "failed",
         !.attempts = Bump(@), !.max = max,
         !.err = c, !.swept = FALSE, !.due = FALSE]
MarkFailed(r, c) ==
  LET max == LeastCap(r.max, FailureCap(c))
      retryable == c \notin NonRetryable /\ ~RepeatedVerdict(r, c)
  IN  [Released(r) EXCEPT
         !.status = IF ~retryable \/ r.attempts + 1 >= max THEN "exhausted" ELSE "failed",
         !.attempts = Bump(@), !.max = max,
         !.err = c, !.swept = FALSE, !.due = FALSE]

\* reclaim_stale_jobs: no attempt is counted.
ReclaimStaleRefund(r) == [Released(r) EXCEPT !.status = "pending", !.attempts = @ - 1]
ReclaimStale(r) == [Released(r) EXCEPT !.status = "pending"]

\* reclaim_silent_inflight: an attempt is counted, the last one exhausts the row.
ReclaimSilentNoExhaust(r) ==
  [Released(r) EXCEPT !.status = "pending",
     !.attempts = Bump(@), !.err = "fetch", !.swept = FALSE, !.due = FALSE]
ReclaimSilent(r) ==
  [Released(r) EXCEPT
     !.status = IF r.attempts + 1 >= r.max THEN "exhausted" ELSE "pending",
     !.attempts = Bump(@), !.err = "fetch", !.swept = FALSE, !.due = FALSE]

\* exhaust_open_terminal_error_jobs appends "[ops-terminated]" to last_error.
OpsTerminate(r) == [Released(r) EXCEPT !.status = "exhausted", !.swept = TRUE]

\* boost_mission_job_priority: the priority is abstracted, updated_at is not.
Boost(r) == IF Queued(r) THEN [r EXCEPT !.touched = "now"] ELSE r

-----------------------------------------------------------------------------
(* The operator's requeues: which rows they reopen, and as what.           *)

RequeueableAtTheCap(r, gallery, billing) ==
  /\ r.status = "exhausted"
  /\ r.err \notin {"pack", "look"} /\ ~r.swept
  /\ billing \/ r.err \notin VideoProvider
  /\ gallery \/ r.err \notin GalleryErrors

\* The filters of requeue_exhausted (gallery, billing: the request's flags).
Requeueable(r, gallery, billing) ==
  /\ r.status = "exhausted"
  /\ r.err \notin {"pack", "look"} /\ ~r.swept
  /\ billing \/ r.err \notin VideoProvider
  /\ gallery \/ r.err \notin GalleryErrors
  /\ gallery \/ billing \/ r.attempts < HardCap

ReopenExhaustedRaisesMax(r, gallery, billing) ==
  [Released(r) EXCEPT !.status = "pending", !.due = TRUE, !.max = HardCap,
     !.attempts = IF gallery \/ billing THEN 0 ELSE @]
ReopenExhausted(r, gallery, billing) ==
  [Released(r) EXCEPT
     !.status = "pending", !.due = TRUE,
     !.attempts = IF gallery \/ billing THEN 0 ELSE @,
     !.err = IF billing THEN "none" ELSE @]

\* The filters of requeue_failed.
Retryable(r, billing) ==
  /\ r.status = "failed"
  /\ UnderCap(r) \/ billing
  /\ r.err \notin {"gallery", "pack", "look"}
  /\ billing \/ r.err \notin VideoProvider

ReopenFailed(r, billing) ==
  [Released(r) EXCEPT
     !.status = "pending", !.due = TRUE,
     !.attempts = IF billing THEN 0 ELSE @,
     !.err = IF billing THEN "none" ELSE @,
     !.swept = IF billing THEN FALSE ELSE @]

\* requeue_billing_exhausted_recent, after the provider's circuit is cleared.
BillingBlocked(r) == r.status \in {"exhausted", "failed"} /\ r.err \in VideoProvider

ReopenBilling(r) ==
  [Released(r) EXCEPT !.status = "pending", !.due = TRUE,
     !.attempts = 0, !.err = "none", !.swept = FALSE]
=============================================================================
