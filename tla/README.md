# Formal model of the content production factory

This directory holds TLA+ modules, TLC configurations and TLAPS proofs for the
part of this repository that turns a planned content mission into published
artifacts without painting (and paying for) the same slot twice and without
leaving a slot behind. Every definition is translated from the source; the file
and lines of each are in `PROJECT.json` under "map".

## 1. Inventory of the system

A *mission* of a workspace is a graph of agent tasks (ideation, calendar,
design). Its output is a plan of *slots*, one per post, story or reel. Each slot
is a row of the Postgres table `production_jobs`; a *drain pass* of the Python
backend claims rows and puts them on BullMQ; a Next.js *production worker* calls
the auto-produce route, which paints the slot, persists an artifact, and answers;
the worker reports the outcome to the backend, which settles the row.

| component | state | operations | talks to |
|---|---|---|---|
| production job rows (`production_job_service.py`) | `production_jobs`: status, attempts, max_attempts, last_error, run_after, claimed_at, updated_at | upsert, claim_batch, mark_running/ready/failed/deferred/skipped, touch_running, reclaim_stale, reclaim_silent, exhaust_open_terminal_error_jobs, boost, three requeues | written by everyone below, one statement per transaction |
| drain, callback, watchdog (`production_factory_service.py`) | the pass in progress, Redis lock `drain:{mission}`, task dictionary | drain_production_jobs, apply_bullmq_completion, run_factory_watchdog_tick, schedule_drain | rows, BullMQ (HTTP enqueue), artifacts (adoption lookup) |
| production worker (`production-worker.ts`) | BullMQ jobs with a stable id per slot | runSlotBatch: heartbeat, produce (up to three fetches), callback | auto-produce route, backend |
| auto-produce route (`production-loop.ts`, `execute-auto-produce.ts`) | production locks, artifacts | paint, saveArtifact, release | Redis, .NET API |
| operator endpoints (`missions.py`, `production_jobs.py`) | none | kick, requeue-factory-jobs, requeue-billing | rows, schedule_drain |
| production locks (`production-in-process-lock.ts`) | Redis keys with tokens, token map per process | acquire, recover, touch, release, force release | Redis |
| global inflight cap (`production-global-inflight.ts`) | one Redis counter | acquire, release | Redis |
| mission task graph (`task_graph_executor.py`) | nodes (status, depends_on, retries), mission status | advance, execute, fail/retry, skip, sweep, requeue at startup, complete, restart | crews, feed pipeline |
| feed pipeline (`mission_feed_production_service.py`, `task_graph_executor.py`) | debounce dictionary per process; lock and reconcile counter inside `missions.performance_summary` | schedule, gates, acquire, review, plan, release, reconcile | graph rows, job rows |
| distributed lock, content agent lock | Redis keys | acquire, acquire_blocking, release | Redis |
| scheduled posts, reviews, billing, cadence, reset | one table each | see PROJECT.json | |
| .NET API, web studio, mobile, agent crews | outside the factory | | |

What is hard here:

* **Interleaving.** The pass holds a claimed job in memory across two awaits
  (adoption lookup, enqueue) while callbacks, watchdogs (one per API process,
  without a lock), kicks and requeues write the same row by id.
* **Delivery.** A callback may be lost, answered too late, or applied and then
  delivered again by BullMQ; a fetch may be aborted while the route goes on.
* **Timeouts.** Liveness of a row is inferred from clocks: 180 s without a
  heartbeat, 900 s since the claim, 600 s of provider cooldown.
* **Crashes.** A dead pass keeps the drain lock until its TTL; a dead worker
  leaves a running row; both must be recovered, and only once.
* **Budgets.** `attempts`, `max_attempts`, a hard cap of three and a cap of two
  for look failures are compared in six statements.
* **Liveness.** A row that no claim may take and no sweep settles is stuck with
  the mission behind it.

What makes each component correct:

* rows: a row that is painted again has an attempt left; caps never rise; ready
  means an artifact exists; settled means settled;
* drain: what the pass writes is about the row it claimed; one live paint per lane;
* worker and watchdog: no row is taken from a worker at work; every planned slot settles;
* operator: what is reopened can be filled;
* locks: at most one run in the critical section; no release frees another run's
  lock; every lock whose token is known is released by a run (the TTL of the others:
  not checked, see section 6);
* graph: a node runs only after its dependencies, once at a time; the mission
  completes when and only when its nodes and its factory are done;
* feed pipeline: one run at a time; jobs are planned from complete ideas, and for every
  completed mission.

How the parts fit together: the graph completes ideation nodes, which schedules a run of the feed
pipeline; the run plans the job rows; the queue paints them under the locks; the last settled row asks
the graph to close the mission. The models meet at those points: `TaskGraph` sees the factory
as none, open or done; `FeedPipeline` sees the graph as `MissionPlan`, which `TaskGraph` implements;
`ProductionQueue` starts from planned rows; a refused lock of `ProductionLock` is a deferral of a
paint there.

## 2. Modules

| module | models | status |
|---|---|---|
| `JobRow` | one row and every SQL statement that writes it, as operators from row to row | done |
| `ProductionQueue` | the rows of a mission, the drain pass, BullMQ and the worker, the callback, the watchdogs, time, the operator | done |
| `SlotLedger` | the abstract promise: a slot is opened with a budget, spends it, settles once | done; `ProductionQueue` implements it (`ImplementsLedger`) |
| `MCProductionQueue` | instances for TLC | done |
| `ProductionQueue_proofs` | theorems about `ProductionQueue!Spec` | done |
| `QueueTimely_proofs` | theorems about its `TimelySpec` and `OperatedSpec`, the refinement of `SlotLedger` | done |
| `ProductionLock` | the Redis locks of the auto-produce runs of one workspace and mission | done (ioredis backend) |
| `MCProductionLock` | instances for TLC: which process serves which requests | done |
| `ProductionLock_proofs` | theorems about `ProductionLock` | done |
| `TaskGraph` | the node rows and the status of one mission, in any number of processes | done (asyncio mode) |
| `MissionPlan` | the abstract promise: a node is finished, lost or dropped once, after its dependencies | done; `TaskGraph` implements it (`ImplementsPlan`) |
| `MCTaskGraph` | instances for TLC: dependency graphs | done |
| `TaskGraph_proofs`, `MissionPlan_proofs` | theorems about `TaskGraph`; that it implements `MissionPlan` until it is disturbed | done |
| `TaskLoad_proofs` | what disturbances cost: executions and retries of a node | done |
| `FeedPipeline` | the feed production of one mission over `MissionPlan` | done (automatic runs) |
| `MCFeedPipeline` | instances for TLC | done |
| `FeedPipeline_proofs` | theorems about `FeedPipeline` | done |

How the model corresponds to the code:

* `job[s]` is the row of slot `s`. Clocks are kept as what statements compare them
  with: `due` is `run_after <= now()`; `claimed` is `claimed_at` NULL, fresh or
  past the stale window; `touched` is `updated_at` now, past the silent window, or
  past the provider cooldown; `old` is `created_at` past the bound of a defer.
  `err` is the class of `last_error`, one class per set of marker lists its text
  can belong to.
* `pass` is the drain pass holding `drain:{mission}`, with a program counter at
  each await: PassBegins (pause sweep, has_runnable_jobs), PassReclaims,
  PassClaims (claim_batch), PassWithholds, PassAdopts, PassEnqueues /
  PassEnqueueRefused / PassEnqueueUnanswered, PassMarksRunning, PassEnds. PassStops
  is the death or cancellation of the process, DrainLockExpires the TTL.
* `delivery[s]` is the BullMQ job of the slot: at most one, because the job id is
  a function of the slot. `canvas[s]` is what the route made: nothing, a frame, an
  artifact. `faults` counts crashes and lost or repeated messages, bounded by
  `MaxFaults`.
* `told` of a row says that an event beside "claimed" and "running" is on record since two seconds before its
  claim (production_slot_events): the silent reclaim leaves such a row to the stale window. Events are
  written after the commit of their statement (record_slot_event), so a claim soon after another statement may
  find the event of that one; the model allows it for any queued row, which is an over-approximation.
* A result counts as success when it is ok with an artifact, or is `duplicate_skipped`, with or
  without an id (`Answered`). The route says duplicate_skipped for a key it has loaded,
  `format::mission::idx-N::role` of a persisted artifact (production-mission-guard.ts 130-165); a story
  is looked up by the same key, so there is an artifact of the same slot (`SkipsDuplicate`). A
  post or reel with a headline is looked up by its headline and never found, and the loading is
  best effort: a persisted slot may therefore be painted a second time (RoutePersists again). The route
  of this commit answers `rendering: false` always, so that branch of `_succeeded_slot_map` has no input
  and is left out. Ready means persisted here, not that the row has an artifact_id: after duplicate_skipped it
  has none, against the docstring of detect_split_brain_mismatches
  (production_job_service.py:1881, a function nobody calls).
* A refused enqueue defers the batch or marks it failed, by its reason (`PassEnqueueRefused`). The trigger of this
  commit answers only reasons to wait, or none; the drainer handles any, and so does the model.
* A look failure is stored as "Bakış yapılamadı (…)" (feed-slot-look.ts:387), which
  both requeues leave out: such a row is reopened only after a later failure with another text.
* Each defer has its own wall-clock bound (`_defer_max_age_sec`); a row is past all of them or of none
  (`old`), as one slot is deferred for one reason at a time.
* Each action is one transaction or one HTTP exchange. RequeueFactoryJobs performs
  its three statements in one step; they touch disjoint rows apart from the
  reclaim that precedes them.

`ProductionLock` is separate from the queue: there the outcome of a refused lock is the
deferral "lockwait" of a paint, here it is what two runs do to the keys.

* `store[k]` is the Redis key of a lane (`prod_lock:ws`, `mission`, `ws-video`,
  `mission-video`): the process whose token it has, who knows that token (`_heldTokens`
  of the process, the unanswered touch of a run, or nobody), and whether its age is past
  PRODUCTION_LOCK_STALE_AFTER_MS. Tokens are unique and only compared with the present
  one, so their text is not kept. `touch[r]` is the touch of a run that Redis executed
  and has not answered yet. A process has one Redis connection (`redis-client.ts`), so its
  commands are executed and answered in the order sent: a command that is modelled with its
  answer needs the earlier touches answered (`Answered`), and no touch is answered after a
  later release or take. A release that was *sent* before the touch of its key was answered is
  an action of its own (`ReleaseOvertaken`).
* `run[r]` is a request inside executeAutoProduce or the completion pass, with a point
  between any two Redis commands: take, probe, steal, retake, paint, inner (the release
  of the still keys before runProduction returns), tail, final; clear, backoff and
  refused are the releases of a refused or retried acquire. A slot of `Runs` is reused
  once the touch of its last request is answered.
* Faults: a take executed but unanswered, a failed GET, a failed release, a touch that was executed
  and failed (`TouchFails`), a stalled
  process (its lock ages in use or between two commands), the crash of a process, the drop
  of all keys by release_auto_produce_locks. `lapsed` is a history variable: the lanes in which
  a run past its workspace key has lost it, i.e. the key has expired, was dropped, or (still lane only)
  was deleted by a run that recovers it.

`TaskGraph` is the graph of one mission. `node[n]` is a row of `mission_task_nodes`
(status and retry_count), `mission` the status of the mission.

* A step is one transaction, with the reads just before it if only that transaction uses
  what they return. What a coroutine carries over an await to a later write is in its record:
  `exec[n][c]` is an execution of node n (several may overlap: `Copies`) with the retry count it has
  read and the nodes it is about to skip; `caller[p]` has read that all nodes are terminal;
  `sweep[p]` is the stale row the tick has selected.
* The row of a started node and the status of its mission are two transactions (MarksRunning,
  MarksInFlight). `filled` has the ideation nodes (`Ideation`) whose output yields an idea: the feed
  review (`Derived`) fails early, like any node without a brand context, when no completed ideation
  has one (`Prepared`).
* Advance, MarksRunning, MarksInFlight, FailsEarly, Succeeds, Fails, FailsAgain, FailsForGood, SkipsBlocked,
  GoesOn, Closes, AdvancesLast are the points of `_execute_node`, `_fail_node`,
  `_skip_blocked_nodes`, `_advance_after_node` and `_check_and_complete_mission`; SweepReads and
  SweepWrites are `_recover_stale_running_nodes`; Recovers is the requeue of a starting process.
  The fixpoint of the skip is stated as a least set.
* The code launches, sweeps and requeues over executions that are alive (the sweep
  takes a row of another process for an orphan after 45 s, a starting process requeues every running
  row, two advances read the same pending rows). `disturbed` counts such steps. Some properties hold
  whatever happens (DependencyOrder, SkippedHasCause); two say what each such step costs at most
  (BoundedExecutions, RetryBudget); the others hold as long as none has happened: that such steps are
  the only way to break them is what is shown.
* Left out: the writes of the review row by the feed pipeline (they are in
  `FeedPipeline`), the Celery advance lock, the creation of the review node on demand. The commit of a
  failure is merged with the read of the rows to skip, and approve, reject, cancel and restart
  are one step each. An exception that ends an execution with its row left running is, for
  that row, the crash of its process; a process sweeps one row at a time.

`FeedPipeline` composes with the graph: its graph actions are those of `INSTANCE MissionPlan`
(only the review row is also written by runs), so one run stands for every dependency graph
step and no execution has to be interleaved again.

* `run[p]["task"]` is the run in the debounce dictionary of a process, `run[p]["tick"]` the one
  its reconcile pass awaits; the points are Begins (the gates), Defers, ReadsLock and Takes (the lock is
  read and written in two transactions), FindsReview / StartsReview / EndsReview, Plans,
  Releases. `writer[p]` is any other actor that has read `performance_summary` and writes it back
  whole, with the lock and the attempts it has read.
* `pool` is what the ideation nodes have put out together: nothing of more than 20 characters, text without a
  parsable idea, or ideas (a calendar only adds to ideas); `blank` has the calendar and design nodes that completed with an
  empty output_summary. Both are chosen when a node finishes. The gates ask for finished ideations but one and for
  finished package nodes that are not blank, a run goes on only with ideas, and the reconcile pass
  asks for text. A completed review is used only if its report has assignments of the same package: a
  run may review again over it. A run of a mission that has jobs ends, resumes their drain, or goes on when
  the package asks for more of them: which, is a choice.
* `lock` keeps its age against 15 minutes; "aged" is a lock that was live at the last attempt
  of the reconcile pass, whose back-off is as long. `rested` says that the back-off has
  elapsed. `broken` is a history variable: two runs read a free lock, or a run inside lost its lock.
* Left out: forced and operator-initiated runs, the Celery mode, and stale reads of the attempts by
  acquire and complete themselves (only other writers of the summary lose updates here), and the shortcuts for a
  mission whose summary already counts produced slots (only the legacy inline production in place of the factory
  writes those first). The graph may drop
  nodes later than `TaskGraph` does: an over-approximation.

Three specifications of the queue share the actions. `TimelySpec`: no message is applied after
the row it is about was taken from its worker, i.e. an orphaned row is noticed only
when its worker is gone, and a paint ends before the stale window. `LateSpec` adds
what the code allows beyond that: unanswered enqueues, repeated callbacks, lost
heartbeats, jobs that wait on BullMQ longer than the silent window, paints longer
than the stale window, a route that persists after its caller gave up.
`OperatedSpec` adds the operator to `TimelySpec`; `Spec` has everything.

## 3. Runs

| run | instance | shows |
|---|---|---|
| `queue_timely` | 2 stills, worker concurrency 1, 1 fault, 5 failure classes | held row is the claimed row, pending is claimable, one live row per lane, a delivery has its row in flight, settled is final, the ledger is implemented |
| `queue_any_order` | 1 slot, all 11 failure classes, everything late, operator, 2 faults | types, attempt budget, ready (as painted, adopted or a duplicate) has an artifact of its slot, caps never rise |
| `queue_settles` | still and reel without slot_key, worker concurrency 2, 1 fault, paint, wallet and budget failures | the still settles even if the reel never returns; both settle if the reel is served |
| `queue_operated` | 2 stills, a reel while reels are paused, operator, 1 fault | requeues take nothing from workers; reopened rows can be claimed; paused reels are never painted |
| `late_two_live` (violation) | 2 stills, no fault | see findings |
| `late_wedge` (violation) | 1 slot, lock waits | see findings |
| `requeue_look` (violation) | 1 slot, a look failure and a quality verdict | see findings |
| `lock_two_processes` | 2 processes, one run each, both lanes; two recovering stills, a forced reel, a completion pass, a public request, with and without a mission; 1 fault | at most three attempts of a video run; nobody but a recoverer, the backend or time takes a live lock from another process; runs of a lane paint apart unless one of them has lost its workspace key; every lock whose token is known is going to be released by a run of its process |
| `lock_live_steal` (violation) | 1 process, 2 calls for one reel, no fault | see findings |
| `graph_any_order` | 2 nodes in a line, 2 processes, 2 overlapping executions, 1 retry, 1 crash, 1 disturbance | dependency order and cause of a skip in any order; a disturbance costs at most one overlapping execution and one retry; until the first one, completed means done, nobody is left behind and every step is one of `MissionPlan` |
| `graph_settles` | 3 nodes in a line (the second ideates, the third reviews), 1 process, 1 crash, 1 restart, a factory, no disturbance | the mission ends, unless its review is barren; the rows implement `MissionPlan`; completed means done and nobody left behind over a longer line |
| `feed_pipeline` | 2 ideations, calendar, review; 1 process with both kinds of run; 1 crash, 1 failed plan, 1 foreign write of the summary, 1 restart; any output of the nodes | one run inside; jobs only from ideas and outputs; every completed mission with its outputs is planned |

Deadlock is not checked in the queue, the graph and the feed pipeline: once every slot is settled,
the mission is over or its jobs are planned, nothing has to happen any more.

**Bounds.** Two slots of a lane are what a lane guard, a shared worker and an
interleaved sweep need; a third adds only more of the same. One fault separates
every pair of steps of one delivery; the any-order run allows two, so that a
recovery can be disturbed too. The hard cap is the code's own 3, and attempts saturate at
4, above every cap they are compared with. The 30-slot limit of a pass and the order
by priority are left out (any claimable row may be taken), exceptions of the adoption
lookup too (they are swallowed and mean "no artifact"). The check that both lanes are
live is merged with the claim that follows it. In `queue_timely` the failure classes
are one per branch of mark_failed and mark_deferred.

`queue_settles` has two places on the worker, the value of the deployment (render.yaml:306,
docs/deploy-render.md:98; docker-compose has 3). The default in the code is 1
(production-worker.ts:31), and there a reel that never returns keeps the only place: the
still waits on BullMQ behind it, and production_job_service.py:530 ("Stills ignore a running reel") is true of the rows only. `StillsSettle` therefore has
the premise that the reels cannot hold every place of the worker; without it, TLC finds the still waiting for ever
in the same instance with concurrency 1.

In the lock runs, two runs contend for every key; a third would only repeat what a second
does, except for two runs of one process against a third of another, where the release
described under findings lets the third in: `PaintsExclude` therefore has one run per
process as its premise. `EveryLockIsDue` has no such premise; the instance serves one run per process,
and the theorem any number of them. A lane that has lapsed is out of its reach until the end of the behaviour; the
other lane is not, and no recovery by another process can make the video lane lapse. `LocksAreOwn` does not forbid the steal by a run that found the key
free or stale: between its GET and its DEL another run may have taken the key, and the DEL
is unconditional. The property says that this is the only way.

In the graph, two executions of one node and two processes are what a double launch, a sweep of a
foreign row and a late verdict need; two nodes are a failure and its skip. With one disturbance
and two copies `BoundedExecutions` can only fail before the disturbance; three copies and two
disturbances do not finish in useful time, and it is the theorem that speaks of any number. The skip of a skip
and the restart of a half-finished line need the three nodes of `graph_settles`.
The proofs cover the rest (any graph, any number of processes and faults). In `feed_pipeline` six attempts
are the code's FEED_RECONCILE_MAX_ATTEMPTS; the faults of the instance consume at most five, so that the
liveness property is about recovery and not about the end of the budget: with more faults than
attempts the code gives up, and says so. A run is not longer than a back-off (`MaxLong` = 0).
The property has as its premises that other missions are active, that the ideation has yielded ideas and that no
calendar or design node is blank, see the findings. The outcomes that fail these are in the instance, and the other
properties speak of them.

**Time.** In the lock, commands take milliseconds and windows minutes: a key ages only while
every run is at rest (idle or painting), and one that is pulsed never; anything else is
a stall, i.e. a fault. In the queue, a claimed row held by a pass does not go silent or stale: an enqueue takes at
most 75 s (15 + 60), the silent window is 180 s and the stale one 900 s.

**Fairness.** Weak fairness of the steps of the pass (the scheduler and the watchdog
schedule drains every minute), of the watchdog statements, of the passage of time and
of the worker's start and callback: BullMQ delivers, and every produce call has a
timeout. No fairness for faults, planning or the operator. `FairTimelySpec` assumes
nothing of the worker on reels; `EverySlotSettles` states what it needs of it as its
premise. Faults are bounded, i.e. they end eventually. In the graph: the steps of an execution (a task of
the event loop, whose crew call has a timeout), the advances and sweeps of the five-minute tick, the
start of a process after its end, the configuration of the brand (without it the nodes
fail early for ever) and the settling of the factory, which `queue_settles` shows. In the feed
pipeline: the steps of a run, the reconcile pass of the tick and the back-off. No fairness for
operators, restarts, foreign writers to begin, or the graph to complete anything.

## 4. Findings

* `requeue_look`: after a look failure `max_attempts` is 2 and stays 2. When the next attempt fails with a quality
  verdict, the row is exhausted at 2 of 2; `requeue_exhausted` selects it as a row with
  fewer than three attempts and leaves both counters: the row is open, never claimable,
  and keeps its mission from completing. (A row whose last error is the look failure itself is left out.)
* `late_wedge`: `mark_deferred` without counting an attempt does not look at the status or
  the attempts of the row; a late lock refusal reopens an exhausted row that no claim may
  take and no sweep settles.
* `lock_live_steal`: in the video lane a refused acquire with recoverStale releases with the
  token of the process and takes again, without looking at the age of the lock; a repeated
  call to the same process frees the lock of the paint it should wait for, and both paint. The
  comment over PRODUCTION_LOCK_STALE_AFTER_MS and a test title exclude exactly this; the test
  covers the still lane only.
* `late_two_live`: a still marked running while its job waits on BullMQ has no heartbeat;
  after 180 s its lane counts as free, a second still is claimed, and the first worker's
  heartbeat revives the first row.

The same late steps break `SettledIsFinal` and `WorkHasItsRow` (a repeated callback is written over a
settled row; the silent reclaim takes a row that waits on BullMQ; reclaim_stale_jobs compares claimed_at only, so a
paint of more than 900 s loses its row): these hold of `TimelySpec` and are not claimed of `LateSpec`. Of the late
steps the runs claim what they may cost: `AttemptBudget`, `ReadyHasArtifact` and `CapNeverRaised`.

Four properties do not exclude a hazard but say how far it goes: `BoundedExecutions` (a double launch
costs one execution), `FeedExcludes` (two runs inside only after a lost or doubled lock), `PaintsExclude` and
`LocksAreOwn` (the steal of a recoverer is the only way to lose a live lock). Their exceptions are the behaviours of the
next list.

Behaviours met while modelling the locks, the graph and the feed pipeline. They are in the models as the code has
them (as premises, history variables or bounds of the properties), and no run is devoted to them:

* A release that is sent while the pulse touches its key compares with the older token and then forgets
  the newer one: the lock stays until its window or its TTL, although nothing has failed.
* The tick returns when no mission is active (task_graph_executor.py:1424), before the reconcile
  pass and the factory queues, although comments call the one a safety net for completed
  missions and want the other always. `FeedIsPlanned` therefore has `others` as its premise.
* The gate on ideations leaves out the one the run is named after, which is the last one
  listed, finished or not, and the list has no order (1768). A plan may lack one
  ideation: `FactoryHasIdeas` says one and not more.
* A crash between the commit of a failure and the skip of its dependents leaves them pending for ever
  (`skipLost`); the mission is then never completed.
* The orphan sweep of another process and the requeue at startup put rows back that are being
  executed (`disturbed`). `_check_and_complete_mission` does not look at the status of the
  mission, so that a cancelled one may become completed.
* A failure before the crew starts passes a retry count of 0, so such retries are not bounded, although the head of
  task_graph_executor.py (lines 14-17) ends every failure in a permanent one. `MissionSettles` needs the
  brand context to be configured, and has an exception for the feed review: when all ideation has completed without
  a parsable idea it fails early at each tick, for ever, and the mission neither completes nor
  fails (`Barren`; without the exception TLC finds that behaviour in `graph_settles`).
* A calendar or design node that completed with an empty output counts as pending in the gates
  (task_graph_executor.py:1852, 1869, against their docstrings), and nothing runs it again; a mission whose ideation yields text
  without an idea passes the test of the reconcile pass and not that of the run. Both spend their attempts and
  are never planned: `FeedIsPlanned` excludes them by its premises.
* The lock of the feed pipeline is read and written without a row lock, released by whoever
  ends, and dropped or revived by any writer of the summary (`broken`). A deferred run that
  schedules itself again is absorbed by its own entry in the dictionary; the reconcile pass makes up for it.

## 5. Proofs

`ProductionQueue_proofs` proves of `Spec`, i.e. with every late message and every operator
step, for any finite or infinite set of slots and any values of the constants that satisfy
`QueueAssumption`:

* `QueueTyped`: `[]TypeOK`;
* `BudgetKept`: `[]AttemptBudget`. Not inductive alone: a pending row may have its budget spent
  (that is the finding above), so the claim's `UnderCap` guard is what re-establishes it; the
  invariant speaks of `failed`, `claimed` and `running` rows, and needs the types;
* `CapKept`: `CapNeverRaised`, statement by statement from lemmas about JobRow's operators;
* `ReadyIsReal`: `[]ReadyHasArtifact`, a ready row has a persisted artifact of its slot, also when it was marked ready
  without an artifact id (duplicate_skipped). The strengthening says that a delivery that answers success has a
  persisted artifact behind it and that no statement but mark_ready makes a row ready.

`ProductionLock_proofs` proves of `ProductionLock!Spec`, for any processes, runs, requests and
number of faults that satisfy `LockAssumption`:

* `LockTyped`: `[]LockTypeOK` (with it, that the retries of a video run end at three);
* `ReleasesAreOwn`: `LocksAreOwn`, from the types alone: every write to a key is a take of a free
  key, a compare-and-delete by the process that holds its token, a steal, a write that keeps
  the taker, an expiry, or the drop by the backend;
* `LanesExcludePaints`: `[]PaintsExclude`, for both lanes. It needs that a run past its workspace
  key still has that key while it takes the mission key and while it paints, in every lane that has not
  lapsed (`LaneHeld`), and that only still keys are probed and stolen (`Steady`). From the second it
  follows that a reel's lane lapses by time and by the backend only. Said of
  painting runs alone `LaneHeld` is not inductive: a run begins to paint by taking its mission key, and
  must still have the workspace key it took before.
* `LocksAreDue`: `[]EveryLockIsDue`. Every lock whose token is known is owed by a run (`Due`): the run
  has taken it and has not come to its release. The proof shows once for each point what a run
  passes on to its next one (`RefusalPasses`, `TakePasses`, `ProbePasses`, `RecoveryPasses`,
  `FinishPasses`, `ReleasePasses`), and then that a step adds no lock that its run does not
  owe. The strengthening `DueInv` says that no run acquires past its depth (`Sound`), and that a lock whose
  token only an unanswered touch knows is in the hands of the run of that touch (`TouchesKnown`): without
  the second a release could pass by a lock whose token it has not been told.

`QueueTimely_proofs` proves of `OperatedSpec`, hence of `TimelySpec` too, for any slots, lanes and
number of faults:

* `HeldIsClaimed`, `WorkKeepsItsRow`, `LanesExclude`, `PausedReelsWait`: the invariants HeldSlotIsClaimed,
  WorkHasItsRow, OneLivePerLane, PausedReelsAreNotPainted. The inductive invariant `InStep` says that a delivery
  at work has a claimed row with a fresh heartbeat, what a pass holds at each of its awaits, and that no
  row in flight has a terminal error; none of the four is inductive without the others, since
  a lane is only exclusive if no sweep frees a row that is being painted.

and, of what the operator reopens:

* `ReopenedUnlessSpoiled`: whatever has failed before, a row that leaves "exhausted" can be claimed and has no
  terminal error, or it is spoiled: its `max_attempts` was lowered by a look failure, or its
  `last_error` still says gallery clash or spent budget, which requeue_exhausted keeps;
* `ReopenedIsFilled`: `ReopenedCanBeFilled` without an exception where those three failures do not
  happen (`Reasons` without "look", "gallery" and "budget", which the classes "paint" and "wallet" of
  `queue_operated` satisfy). The invariant is that no row is spoiled, and it needs each statement of `JobRow`
  again: none but mark_failed after those failures spoils one. The hypothesis is needed: `requeue_look`
  reopens a spoiled row;

and of `TimelySpec` alone (the operator breaks them on purpose):

* `PendingStaysClaimable`, `SettledStays`, `QueueImplementsLedger`: PendingIsClaimable, SettledIsFinal and the refinement of `SlotLedger`. `InLedger` adds that an open
  row has an attempt left; each step then moves each row along one relation (`TimelyMoved`), and
  that relation is a step of the ledger or a stutter.

`TaskGraph_proofs` proves of `TaskGraph!Spec`, for any finite or infinite graph, any processes, overlaps, crashes,
restarts and disturbances that satisfy `GraphAssumption`:

* `GraphTyped`: `[]GraphTypeOK`;
* `DependenciesFirst`, `SkipsHaveCause`: DependencyOrder and SkippedHasCause, whatever is disturbed.
  `Sound` adds what executions and sweeps carry: the nodes to skip depend on lost ones, a swept row
  has had its dependencies;
* `CompletedMeansDone`: by `Calm`, which says that until a disturbance executions and rows are in step: a live
  execution has the only claim to its row, and a verdict that all nodes are terminal stays true until
  it is written.

`TaskLoad_proofs`, of the same specification and for any number of disturbances:

* `ExecutionsAreBounded`: `[]BoundedExecutions`, n disturbances leave at most n + 1 live executions of a node;
* `RetriesWithinBudget`: `[]RetryBudget`, and they buy at most n retries. Neither is inductive: a sweep
  over a live execution carries a retry count to a row which a second execution is about to raise. The
  invariant `LoadBounded` adds up whoever may still raise the count of a node (its live executions, the
  sweeps that have read its row over one, the row itself when it owes a launch or a sweep) and says
  that this load and the retries beyond the budget, as counted by the row or by anyone who carries an earlier
  count of it, are together at most one more than the disturbances. Every step keeps the sum: a retry moves
  one from the load to the count, a launch from the row to an execution.

`MissionPlan_proofs`:

* `NobodyLeftBehind`: `[]NoNodeLeftBehind`. It needs that what an execution is to skip is closed under
  dependents (`DoomClosed`) and not stale (`Fresh`), and that every node blocked by a loss
  is covered by it (`Covered`);
* `PlanKeptUntilDisturbed`: `KeepsPlanUntilDisturbed`, every step up to the first disturbance is a step of
  `MissionPlan` or leaves the plan as it is, in every behaviour of `Spec`;
* `GraphImplementsPlan`: hence `Spec => ImplementsPlan` under the hypothesis `MaxDisturbed = 0`, i.e. for
  behaviours that are never disturbed.

`FeedPipeline_proofs` proves of `FeedPipeline!Spec`, for any graph, processes and bounds that satisfy `FeedAssumption`:

* `FeedTyped`: `[]FeedTypeOK`;
* `PlannedFromIdeas`: `[]FactoryHasIdeas`. The gates are read long before the plan: `IdeasHeld` says that
  a run past them, and the factory, keep the ideas and the outputs they have seen;
* `RunsExclude`: `[]FeedExcludes`, by `Exclusive`: until broken, one run takes, none is inside
  while one takes, one is inside, and while one is the lock counts.

Each statement of `JobRow` has lemmas (what it returns, what it keeps), and each action of a
component one step. The least fixpoint of the skip is proved about by its defining property.

Only model-checked: liveness, which is out of reach of TLAPS (StillsSettle, EverySlotSettles, MissionSettles,
FeedIsPlanned). Every other property of a passing run is stated by a theorem. Two theorems have a
hypothesis on a constant, named above: `ReopenedIsFilled` and `GraphImplementsPlan`.

## 6. Not modelled, and why

Every component has its status and reason in `PROJECT.json`. In the factory:

* the global inflight cap: one Redis counter; to the queue it is a paint that starts later or fails. Its
  hazard (an increment apart from its expiry, a decrement apart from a deletion) is listed;
* drain scheduling: the dictionary decides when a pass begins, and a pass may begin at any time here;
* the content agent lock: the crew runs whether or not the wait for the lock succeeds, so no row
  depends on it (acquire_blocking returns None after its timeout, execution_locks.py:76); an ideation may take longer than the lock lives;
* liveness of `ProductionLock` (that the releases which `EveryLockIsDue` promises are reached, and
  the TTL of a lock nobody knows): its instance has three million states, and a TTL per key; a
  fair specification of it cannot be checked in useful time;
* the HTTP executor mode (the same statements on the rows by another actor), the production reset
  (deletion), the Upstash and in-memory backends of the locks, forced runs of the feed
  pipeline and its Celery mode;
* scheduled posts, reviews, billing, cadence: one table each, apart from the factory;
* the painting loop, the agent crews and the user interfaces: generation of text and images, whose
  outcome is a choice in the models, and screens, which are most of the repository's lines and keep
  no shared state. This is why the share of the repository the models cover is small.
