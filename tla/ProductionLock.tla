--------------------------- MODULE ProductionLock ---------------------------
(***************************************************************************)
(* The Redis locks that keep two auto-produce runs of a workspace apart    *)
(* (web/src/lib/production-in-process-lock.ts, ioredis backend), taken and *)
(* released by executeAutoProduce and by the completion pass.              *)
(*                                                                         *)
(* A run takes the workspace key of its lane and then the mission key.     *)
(* Each action is one Redis command with its answer, except the touch of a *)
(* running lock, which nobody waits for.  A process has one connection, so *)
(* its commands are executed and answered in the order they are sent.  One *)
(* workspace and one mission.  Tokens are unique and only compared with    *)
(* the one in Redis, so the model keeps who knows the present token of a   *)
(* key: the map _heldTokens of its process, the unanswered touch of a run, *)
(* or nobody.                                                              *)
(***************************************************************************)
EXTENDS Naturals

CONSTANTS
  Processes,   \* the Next.js processes
  Runs,        \* requests under way, each served by one process
  Home,        \* [Runs -> Processes]
  Requests,    \* [Runs -> SUBSET AllRequests], what each run may be asked for
  NoProcess,   \* nobody: the key is free
  NoKey,       \* no touch of the run is unanswered
  MaxFaults    \* bound: crashes, Redis errors, stalls, drops of a behaviour

\* depth 2: with a missionId.  "internal" recovers locks, "redo" first releases what
\* its process holds; the completion pass is a still run of a mission.
AllRequests ==
  [lane : {"still", "video"}, kind : {"public", "internal", "redo"}, depth : 1..2]
    \cup [lane : {"still"}, kind : {"completion"}, depth : {2}]

ASSUME LockAssumption ==
  /\ Home \in [Runs -> Processes]
  /\ Requests \in [Runs -> SUBSET AllRequests]
  /\ Runs \cap {"held", "lost"} = {}
  /\ NoProcess \notin Processes /\ NoKey \notin {"still", "video"} \X (1..2)
  /\ MaxFaults \in Nat

VARIABLES
  store,   \* Redis: who took each key, who knows its token, is it stale
  touch,   \* the key of a touch that Redis has executed, not yet answered
  run,     \* where each run is
  faults,
  lapsed   \* history: the lanes in which a run past its workspace key has lost it

vars == <<store, touch, run, faults, lapsed>>

Lanes == {"still", "video"}
Keys == Lanes \X (1..2)    \* level 1 is the workspace, 2 the mission

Free == [by |-> NoProcess, known |-> "lost", stale |-> FALSE]
Taken(p) == [by |-> p, known |-> "held", stale |-> FALSE]

Releasing == {"clear", "backoff", "refused", "inner", "final"}
Idle == [pc |-> "idle", lane |-> "still", kind |-> "public",
         depth |-> 1, level |-> 1, try |-> 1]

Points == {"idle", "take", "probe", "steal", "retake", "paint", "tail"} \cup Releasing
RunStates ==
  [pc : Points,
   lane : {"still", "video"}, kind : {"public", "internal", "redo", "completion"},
   depth : 1..2, level : 1..2, try : 1..3]

LockStates ==
  [by : Processes \cup {NoProcess}, known : Runs \cup {"held", "lost"}, stale : BOOLEAN]

\* The locks, the unanswered touches and the runs keep their types; a video run makes
\* at most three attempts.
LockTypeOK ==
  /\ store \in [Keys -> LockStates]
  /\ touch \in [Runs -> Keys \cup {NoKey}]
  /\ run \in [Runs -> RunStates]
  /\ faults \in 0..MaxFaults /\ lapsed \subseteq Lanes

Init ==
  /\ store = [k \in Keys |-> Free]
  /\ touch = [r \in Runs |-> NoKey]
  /\ run = [r \in Runs |-> Idle]
  /\ faults = 0 /\ lapsed = {}

-----------------------------------------------------------------------------
Key(r) == <<run[r].lane, run[r].level>>
Mine(r, k) == store[k].by = Home[r]
Holds(r, k) == Mine(r, k) /\ store[k].known = "held"

\* A command of a process is answered after the touches it has sent before.
Answered(r) == \A q \in Runs : Home[q] = Home[r] => touch[q] = NoKey
Recovers(x) == x.kind # "public"
Painting(r) == run[r].pc = "paint"

\* Past its workspace key, and not yet releasing.
Acquiring == {"take", "probe", "steal", "retake"}
InLane(r) == Painting(r) \/ (run[r].pc \in Acquiring /\ run[r].level = 2)

\* The key is the workspace key of a run in its lane, which has taken it.
Needed(k, r) == InLane(r) /\ k = <<run[r].lane, 1>> /\ Mine(r, k)

\* setInterval(touchProductionLocks); the completion pass has none.
Pulsing(r) == run[r].pc \in {"paint", "inner", "tail"} /\ run[r].kind # "completion"
InUse(k) ==
  \E r \in Runs : Pulsing(r) /\ k[1] = run[r].lane /\ Mine(r, k) /\ store[k].known # "lost"

At(x, pc, level) == [x EXCEPT !.pc = pc, !.level = level]
Becomes(r, x) == run' = [run EXCEPT ![r] = x]
Fault == faults < MaxFaults /\ faults' = faults + 1

\* Two attempts of a video run, and a third if it has a mission.
AlwaysTriesAgain(x) == TRUE
MayTryAgain(x) == x.try <= x.depth

\* A run at its key was refused: try again (video), probe (still), or give up.
AfterRefusal(x) ==
  CASE x.level = 2 /\ (x.lane = "video" \/ x.pc = "retake" \/ ~Recovers(x)) ->
         At(x, "backoff", 1)
    [] x.lane = "still" /\ x.pc = "take" /\ Recovers(x) -> At(x, "probe", x.level)
    [] x.lane = "video" /\ x.level = 1 /\ Recovers(x) /\ MayTryAgain(x) ->
         [At(x, "clear", 1) EXCEPT !.try = @ + 1]
    [] OTHER -> Idle

AfterReleases(x) ==
  CASE x.pc = "clear" -> At(x, "take", 1)
    [] x.pc = "backoff" ->
         IF x.lane = "video" /\ Recovers(x) /\ x.try < 3
         THEN [At(x, "clear", 1) EXCEPT !.try = 3] ELSE At(x, "refused", 1)
    [] x.pc = "inner" -> At(x, "tail", 1)
    [] OTHER -> Idle

-----------------------------------------------------------------------------
(* A request.                                                              *)

Start(r) ==
  /\ run[r].pc = "idle" /\ touch[r] = NoKey
  /\ \E q \in Requests[r] :
       Becomes(r, [pc |-> IF q.kind = "redo" THEN "clear" ELSE "take", level |-> 1,
                   try |-> 1, lane |-> q.lane, kind |-> q.kind, depth |-> q.depth])
  /\ UNCHANGED <<store, touch, faults, lapsed>>

\* acquire: SET key token EX ttl NX.
Takes(r) ==
  LET k == Key(r)
  IN  /\ run[r].pc \in {"take", "retake"} /\ store[k] = Free /\ Answered(r)
      /\ store' = [store EXCEPT ![k] = Taken(Home[r])]
      /\ Becomes(r, IF run[r].level < run[r].depth THEN At(run[r], "take", 2)
                    ELSE At(run[r], "paint", 1))
      /\ UNCHANGED <<touch, faults, lapsed>>

Refused(r) ==
  /\ run[r].pc \in {"take", "retake"} /\ store[Key(r)] # Free /\ Answered(r)
  /\ Becomes(r, AfterRefusal(run[r]))
  /\ UNCHANGED <<store, touch, faults, lapsed>>

\* The command was executed, its answer lost: the lock is nobody's.
TakeUnanswered(r) ==
  LET k == Key(r)
  IN  /\ run[r].pc \in {"take", "retake"} /\ store[k] = Free /\ Answered(r) /\ Fault
      /\ store' = [store EXCEPT ![k] = [Taken(Home[r]) EXCEPT !.known = "lost"]]
      /\ Becomes(r, AfterRefusal(run[r]))
      /\ UNCHANGED <<touch, lapsed>>

\* productionLockAgeMs: a free key has no age and counts as stale.
IsStale(k) == store[k] = Free \/ store[k].stale
Probes(r) ==
  /\ run[r].pc = "probe" /\ Answered(r)
  /\ Becomes(r, IF IsStale(Key(r)) THEN At(run[r], "steal", run[r].level)
                ELSE IF run[r].level = 2 THEN At(run[r], "backoff", 1) ELSE Idle)
  /\ UNCHANGED <<store, touch, faults, lapsed>>

\* Redis fails to answer the GET: "cannot prove it is live", so it is recovered.
ProbeUnreadable(r) ==
  /\ run[r].pc = "probe" /\ ~IsStale(Key(r)) /\ Answered(r) /\ Fault
  /\ Becomes(r, At(run[r], "steal", run[r].level))
  /\ UNCHANGED <<store, touch, lapsed>>

\* forceReleaseProductionLock: an unconditional DEL.
Steals(r) ==
  /\ run[r].pc = "steal" /\ Answered(r)
  /\ store' = [store EXCEPT ![Key(r)] = Free]
  /\ lapsed' = IF \E q \in Runs : Needed(Key(r), q) THEN lapsed \cup {"still"} ELSE lapsed
  /\ Becomes(r, At(run[r], "retake", run[r].level))
  /\ UNCHANGED <<touch, faults>>

\* runProduction returns after an inner release of the still keys, or throws.
Finishes(r) ==
  /\ run[r].pc \in {"paint", "tail"}
  /\ \/ Painting(r) /\ Becomes(r, At(run[r], "inner", 1))
     \/ Becomes(r, At(run[r], "final", 1))
  /\ UNCHANGED <<store, touch, faults, lapsed>>

\* release: delete the key if it has the token this process holds.
ReleasedKey(r) ==
  <<IF run[r].pc = "inner" THEN "still" ELSE run[r].lane, run[r].level>>
WorkspaceOnly(x) == 1
LastLevel(x) == IF x.pc = "backoff" THEN 1 ELSE x.depth

DeleteAlways(r, k) == [store EXCEPT ![k] = Free]
CompareAndDelete(r, k) == IF Holds(r, k) THEN [store EXCEPT ![k] = Free] ELSE store

AfterRelease(x) ==
  IF x.level < LastLevel(x) THEN [x EXCEPT !.level = 2] ELSE AfterReleases(x)

Releases(r) ==
  /\ run[r].pc \in Releasing /\ Answered(r)
  /\ store' = CompareAndDelete(r, ReleasedKey(r))
  /\ Becomes(r, AfterRelease(run[r]))
  /\ UNCHANGED <<touch, faults, lapsed>>

\* A touch of the key is unanswered when the release reads the map: it compares with the
\* older token, in vain, and forgets the newer one, which the touch has brought by then.
ReleaseOvertaken(r) ==
  LET k == ReleasedKey(r)
  IN  \E q \in Runs :
        /\ run[r].pc \in Releasing /\ Mine(r, k) /\ store[k].known = q
        /\ \A p \in Runs \ {q} : Home[p] = Home[r] => touch[p] = NoKey
        /\ store' = [store EXCEPT ![k].known = "lost"]
        /\ touch' = [touch EXCEPT ![q] = NoKey]
        /\ Becomes(r, AfterRelease(run[r]))
        /\ UNCHANGED <<faults, lapsed>>

\* A Redis error is swallowed, the token forgotten all the same.
ReleaseLost(r) ==
  /\ run[r].pc \in Releasing /\ Holds(r, ReleasedKey(r)) /\ Answered(r) /\ Fault
  /\ store' = [store EXCEPT ![ReleasedKey(r)].known = "lost"]
  /\ Becomes(r, AfterRelease(run[r]))
  /\ UNCHANGED <<touch, lapsed>>

\* touch: a compare-and-set of a newer token, and a new TTL.  The pulse of a run that ends
\* goes on to the mission key.
LastTouch(r, k) ==
  run[r].pc = "final" /\ run[r].kind # "completion" /\ run[r].level = 2 /\ k[2] = 2
TouchSent(r, k) ==
  /\ Pulsing(r) \/ LastTouch(r, k)
  /\ touch[r] = NoKey /\ k[1] = run[r].lane /\ k[2] <= run[r].depth /\ Holds(r, k)
  /\ store' = [store EXCEPT ![k].known = r, ![k].stale = FALSE]
  /\ touch' = [touch EXCEPT ![r] = k]
  /\ UNCHANGED <<run, faults, lapsed>>

TouchAnswered(r) ==
  LET k == touch[r]
  IN  /\ k # NoKey
      /\ store' = IF store[k].known = r THEN [store EXCEPT ![k].known = "held"] ELSE store
      /\ touch' = [touch EXCEPT ![r] = NoKey]
      /\ UNCHANGED <<run, faults, lapsed>>

\* The touch was executed, then failed or was sent again: the map keeps the older token.
TouchFails(r) ==
  LET k == touch[r]
  IN  /\ k # NoKey /\ Fault
      /\ store' = IF store[k].known = r THEN [store EXCEPT ![k].known = "lost"] ELSE store
      /\ touch' = [touch EXCEPT ![r] = NoKey]
      /\ UNCHANGED <<run, lapsed>>

-----------------------------------------------------------------------------
(* Time, crashes and the backend.  A pulse every 60 s against a window of  *)
(* four minutes and a TTL of twelve: a lock in use, or a run between two   *)
(* Redis commands, only sees a lock age when its process stalls.           *)

Resting(r) == run[r].pc \in {"idle", "paint", "tail"} /\ touch[r] = NoKey
TimePasses == (\A r \in Runs : Resting(r)) /\ UNCHANGED faults

GoesStale(k) ==
  /\ store[k] # Free /\ ~store[k].stale
  /\ store' = [store EXCEPT ![k].stale = TRUE]
  /\ (TimePasses /\ ~InUse(k)) \/ Fault
  /\ UNCHANGED <<touch, run, lapsed>>

Expires(k) ==
  /\ store[k].stale /\ (TimePasses \/ Fault)
  /\ store' = [store EXCEPT ![k] = Free]
  /\ lapsed' = IF \E r \in Runs : Needed(k, r) THEN lapsed \cup {k[1]} ELSE lapsed
  /\ UNCHANGED <<touch, run>>

Crashes(p) ==
  /\ Fault
  /\ store' = [k \in Keys |-> IF store[k].by = p THEN [store[k] EXCEPT !.known = "lost"]
                              ELSE store[k]]
  /\ touch' = [r \in Runs |-> IF Home[r] = p THEN NoKey ELSE touch[r]]
  /\ run' = [r \in Runs |-> IF Home[r] = p THEN Idle ELSE run[r]]
  /\ UNCHANGED lapsed

\* release_auto_produce_locks, after the backend reclaimed a stale row.
BackendDrops ==
  /\ Fault
  /\ store' = [k \in Keys |-> Free]
  /\ lapsed' = Lanes
  /\ UNCHANGED <<touch, run>>

-----------------------------------------------------------------------------
RunNext(r) ==
  \/ Start(r) \/ Takes(r) \/ Refused(r) \/ TakeUnanswered(r) \/ Probes(r) \/ ProbeUnreadable(r)
  \/ Steals(r) \/ Finishes(r) \/ Releases(r) \/ ReleaseOvertaken(r) \/ ReleaseLost(r)
  \/ TouchAnswered(r) \/ TouchFails(r)
  \/ \E k \in Keys : TouchSent(r, k)

Next ==
  \/ \E r \in Runs : RunNext(r)
  \/ \E k \in Keys : GoesStale(k) \/ Expires(k)
  \/ \E p \in Processes : Crashes(p)
  \/ BackendDrops

Spec == Init /\ [][Next]_vars

-----------------------------------------------------------------------------
(* Properties.                                                             *)

\* "release only clears a lock we still hold": a lock that is not stale leaves Redis
\* by a step of a run of the process that took it, unless a run that found the key
\* free or stale steals it, or no run moves at all (the backend drops the locks).
LocksAreOwn ==
  [][\A k \in Keys :
       store[k] # Free /\ ~store[k].stale /\ store'[k].by # store[k].by =>
         \/ \E r \in Runs : run[r].pc = "steal" /\ Key(r) = k /\ run'[r].pc = "retake"
         \/ \E r \in Runs : run'[r] # run[r] /\ Mine(r, k)
         \/ UNCHANGED run]_vars

\* Two runs never paint in a lane of a workspace at the same time, if every process
\* serves one run (see OnePaintPerLane) and no run past its workspace key has lost it
\* to time, to the backend or, in the still lane only, to a run that recovers it:
\* crashes, lost and late answers, retries, partial acquires and their undoing, and
\* the inner release of the still keys do not break a lane.
OneRunEach == \A r, q \in Runs : Home[r] = Home[q] => r = q
PaintsExclude ==
  OneRunEach =>
    \A r, q \in Runs :
      Painting(r) /\ Painting(q) /\ run[r].lane = run[q].lane /\ run[r].lane \notin lapsed
      => r = q

\* A run at x has taken the key, or is done with its acquire, and has not come to release it.
Due(x, k) ==
  /\ k[1] = x.lane /\ k[2] <= x.depth
  /\ \/ x.pc \in Acquiring /\ k[2] < x.level
     \/ x.pc = "backoff" /\ k[2] = 1
     \/ x.pc = "paint" \/ (x.pc \in {"inner", "tail"} /\ x.lane = "video")
     \/ (x.pc = "final" \/ (x.pc = "inner" /\ x.lane = "still")) /\ k[2] >= x.level

\* "TTL auto-expires stale locks if a worker dies": no lock is left to it otherwise.  A lock
\* whose token its process knows is going to be released by one of its runs, however
\* acquires are refused, undone, tried again or recovered and whoever releases what.
EveryLockIsDue ==
  \A k \in Keys : store[k].known # "lost" => \E r \in Runs : Mine(r, k) /\ Due(run[r], k)

\* "recovers a stale lock but never steals a live paint": one run of a lane paints.
OnePaintPerLane ==
  \A r, q \in Runs : Painting(r) /\ Painting(q) /\ run[r].lane = run[q].lane => r = q
=============================================================================
