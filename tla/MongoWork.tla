------------------------------ MODULE MongoWork ------------------------------
(***************************************************************************)
(* The database when it fails: how the engine notices, whom it keeps away  *)
(* from it, and what becomes of the candles that wait.                     *)
(*                                                                         *)
(*   runtime/mongoRuntimeState.js  the state and the permits               *)
(*   runtime/mongoWorkGate.js      the gate every background job passes    *)
(*   pipeline.js, tokenWatcher.js, socket/socketServer.js,                 *)
(*   alerts/notificationDispatcher.js                 jobs behind the gate *)
(*   market/candleBuilder.js       candles from ticks, late ones included  *)
(*   market/candleWriteBuffer.js   candles on their way to the database    *)
(*                                                                         *)
(* A step ends at an await on the database.  Candles are those of one      *)
(* instrument and interval.  Time is kept as what has passed: a back-off,  *)
(* the quiet time after a failure, the age of the cached status.           *)
(***************************************************************************)
EXTENDS Naturals, Sequences, SequencesExt, FiniteSets

CONSTANTS
    WorkSetups,        \* the circumstances a behaviour may have
    WARN_BACKLOG,      \* CANDLE_WRITER_WARN_BACKLOG
    CRITICAL_BACKLOG,  \* CANDLE_WRITER_CRITICAL_BACKLOG
    MAX_BACKLOG,       \* CANDLE_WRITER_MAX_BACKLOG
    MAX_BATCH,         \* CANDLE_WRITER_FLUSH_BATCH_SIZE
    MaxCandle,         \* bound: the candles of a behaviour
    MaxFailures        \* bound: the failures of a behaviour

Jobs == {"reconcile", "token_watcher", "socket_status", "notifications_outbox"}

(* jobs: those that run; token: the watcher has a token; failures: of the  *)
(* database, candles: buckets of the clock, late: ticks of the bucket       *)
(* before the current one, which make a candle anew.                        *)
WorkSetup == [jobs : SUBSET Jobs, token : BOOLEAN, failures : 0 .. MaxFailures,
              candles : 0 .. MaxCandle, late : 0 .. 2]

ASSUME WorkAssumption ==
    /\ WARN_BACKLOG \in Nat /\ CRITICAL_BACKLOG \in Nat
    /\ MAX_BACKLOG \in Nat \ {0} /\ MAX_BATCH \in Nat \ {0}
    /\ MaxCandle \in Nat /\ MaxFailures \in Nat
    /\ WorkSetups \subseteq WorkSetup

VARIABLES
    setup,     \* the circumstances: never changes
    failures,  \* the failures still to come
    late,      \* the late ticks still to come
    health,    \* state, failureStreak, recoveryStreak; calm: no failure for
               \* recoveryNoFailureWindowMs; stale: an old status was reported
    backoff,   \* who has a nextAllowedAt, which may have passed
    job,       \* [Jobs -> "rest" or the priority of the permit it holds]
    cache,     \* pipelineStatusCache: "none", "new", or "old" (30 s)
    clock,     \* the current bucket
    live,      \* candleBuilder.js: the bucket of the candle that takes ticks
    closed,    \* [Candles -> how often it was closed]
    buf,       \* _buf: the queued entries, [key, v]
    batch,     \* the entries of the insert in progress
    total,     \* totalBuffered
    flushes,   \* the number of flushes in _serial: each holds a permit
    accepted,  \* history: the newest version of each candle the buffer took
    stored     \* the candles in the database

quiet == <<setup, late, clock, live, closed>>
buffer == <<buf, batch, total, flushes, accepted, stored>>
workVars == <<setup, failures, late, health, backoff, job, cache, clock, live, closed, buffer>>

Candles == 1 .. MaxCandle
HEALTHY == "HEALTHY"
States == {HEALTHY, "DEGRADED", "SEVERELY_DEGRADED", "RECOVERING"}
Priorities == {"critical", "important", "non_critical"}
Writer == "candle_writer"

InitWork ==
    /\ setup \in WorkSetups
    /\ failures = setup.failures
    /\ late = setup.late
    /\ health = [state |-> HEALTHY, failureStreak |-> 0, recoveryStreak |-> 0,
                 calm |-> TRUE, stale |-> FALSE]
    /\ backoff = {}
    /\ job = [j \in Jobs |-> "rest"]
    /\ cache = "none"
    /\ clock = 1
    /\ live = 0
    /\ closed = [k \in Candles |-> 0]
    /\ buf = <<>>
    /\ batch = <<>>
    /\ total = 0
    /\ flushes = 0
    /\ accepted = [k \in Candles |-> 0]
    /\ stored = [k \in Candles |-> 0]

-----------------------------------------------------------------------------
(* mongoRuntimeState.js: the state.  backlog: of the candle writer.         *)

(* The burst of failures in a window is part of the streak, which only      *)
(* recovery ends: with the thresholds of the code it is never the longer.   *)
IsSevere(m, backlog) ==
    m.failureStreak >= 3 \/ m.stale \/ backlog >= CRITICAL_BACKLOG

(* refreshDerivedSeverity: at every note about a subsystem, hence at every  *)
(* evaluation of the gate and at every change of the buffer.                *)
Noted(m, backlog) ==
    IF m.state \in {"DEGRADED", "RECOVERING"} /\ IsSevere(m, backlog)
    THEN [m EXCEPT !.state = "SEVERELY_DEGRADED"]
    ELSE m

markMongoDegraded(m, backlog) ==
    Noted([m EXCEPT !.state = IF @ \in {HEALTHY, "RECOVERING"} THEN "DEGRADED" ELSE @,
                    !.failureStreak = @ + 1, !.recoveryStreak = 0, !.calm = FALSE], backlog)

(* Mutant: the streak of successes is counted from each failure, not kept.  *)
RecoveredNever(m, backlog) ==
    IF m.state = HEALTHY THEN m ELSE [m EXCEPT !.state = "RECOVERING", !.recoveryStreak = 1]

markMongoHealthy(m, backlog) ==
    LET n == [m EXCEPT !.state = "RECOVERING",
                       !.recoveryStreak = IF m.state = "RECOVERING" THEN @ + 1 ELSE 1]
    IN CASE m.state = HEALTHY -> m
         [] n.recoveryStreak >= 3 /\ m.calm /\ backlog < WARN_BACKLOG ->
              [m EXCEPT !.state = HEALTHY, !.failureStreak = 0, !.recoveryStreak = 0,
                        !.stale = FALSE]
         [] OTHER -> [n EXCEPT !.recoveryStreak = IF @ > 3 THEN 3 ELSE @]

(* priorityLimitForState, with the defaults of cfg.                         *)
(* Mutant: the severe state is for nobody.                                  *)
LimitNoSevere(state, priority, duringSevere) ==
    CASE state = HEALTHY -> IF priority = "critical" THEN 4 ELSE 2
      [] state \in {"DEGRADED", "RECOVERING"} /\ priority = "critical" -> 2
      [] state \in {"DEGRADED", "RECOVERING"} /\ priority = "important" -> 1
      [] OTHER -> 0
priorityLimitForState(state, priority, duringSevere) ==
    CASE state = HEALTHY -> IF priority = "critical" THEN 4 ELSE 2
      [] state \in {"DEGRADED", "RECOVERING"} /\ priority = "critical" -> 2
      [] state \in {"DEGRADED", "RECOVERING"} /\ priority = "important" -> 1
      [] state = "SEVERELY_DEGRADED" /\ priority = "critical" /\ duringSevere -> 1
      [] OTHER -> 0

(* defaultSubsystemPolicy and what the callers ask for.  The candle writer  *)
(* is "important" whatever it asks for.                                     *)
PriorityOf(j) ==
    CASE j = "reconcile" -> "critical"
      [] j = "token_watcher" -> IF setup.token THEN "important" ELSE "critical"
      [] OTHER -> "non_critical"
DuringSevere(j) == j = "reconcile" \/ (j = "token_watcher" /\ ~setup.token)

inflightByPriority(priority) ==
    Cardinality({j \in Jobs : job[j] = priority}) + (IF priority = "important" THEN flushes ELSE 0)

HasPermit(m, priority, duringSevere) ==
    inflightByPriority(priority) < priorityLimitForState(m.state, priority, duringSevere)

(* shouldAllowDbWork.  The time of a back-off may have passed at any call,  *)
(* so who holds one may be let in or be sent away.                          *)
MayDefer(m, who, priority, duringSevere) ==
    \/ m.state # HEALTHY /\ who \in backoff
    \/ ~HasPermit(m, priority, duringSevere)
Passed(m, who) == IF m.state = HEALTHY THEN backoff ELSE backoff \ {who}

-----------------------------------------------------------------------------
(* The jobs.                                                                *)

Knocks(j) == j \in setup.jobs /\ job[j] = "rest"

(* noteMongoStatusStaleness, by a status that was answered from the cache   *)
(* or live: it can pass the threshold, and is forgotten when healthy.       *)
Reported(m, age) == Noted([m EXCEPT !.stale = age = "old"], total)

Granted(j) ==
    /\ Knocks(j) /\ HasPermit(Noted(health, total), PriorityOf(j), DuringSevere(j))
    /\ job' = [job EXCEPT ![j] = PriorityOf(j)]
    /\ health' = Noted(health, total)
    /\ backoff' = Passed(health', j)
    /\ UNCHANGED <<quiet, failures, cache, buffer>>

Deferred(j) ==
    /\ Knocks(j) /\ MayDefer(Noted(health, total), j, PriorityOf(j), DuringSevere(j))
    /\ backoff' = backoff \cup {j}
    /\ LET m == Noted(health, total)
       IN health' = IF j = "socket_status" THEN Reported(m, cache) ELSE m
    /\ UNCHANGED <<quiet, failures, job, cache, buffer>>

(* noteMongoWorkSuccess.                                                    *)
Succeeds(j) ==
    /\ job[j] # "rest"
    /\ job' = [job EXCEPT ![j] = "rest"]
    /\ backoff' = backoff \ {j}
    /\ LET m == markMongoHealthy(health, total)
       IN IF j = "socket_status"
          THEN cache' = "new" /\ health' = Reported(m, "new")
          ELSE UNCHANGED cache /\ health' = m
    /\ UNCHANGED <<quiet, failures, buffer>>

(* deferMongoWorkForError: the error is one of isTransientMongoError.       *)
Fails(j) ==
    /\ job[j] # "rest" /\ failures > 0
    /\ failures' = failures - 1
    /\ job' = [job EXCEPT ![j] = "rest"]
    /\ backoff' = backoff \cup {j}
    /\ LET m == markMongoDegraded(health, total)
       IN health' = IF j = "socket_status" THEN Reported(m, cache) ELSE m
    /\ UNCHANGED <<quiet, cache, buffer>>

(* Any other error: the permit is given back, and that is all.              *)
FailsOtherwise(j) ==
    /\ job[j] # "rest" /\ failures > 0
    /\ failures' = failures - 1
    /\ job' = [job EXCEPT ![j] = "rest"]
    /\ backoff' = IF health.state = HEALTHY THEN backoff \ {j} ELSE backoff
    /\ health' = IF j = "socket_status" THEN Reported(health, "none") ELSE health
    /\ UNCHANGED <<quiet, cache, buffer>>

(* db.js: the driver reports a failed checkout, a cleared pool, and so on.  *)
DriverFails ==
    /\ failures > 0
    /\ failures' = failures - 1
    /\ health' = markMongoDegraded(health, total)
    /\ UNCHANGED <<quiet, backoff, job, cache, buffer>>

CalmComes ==
    /\ ~health.calm
    /\ health' = [health EXCEPT !.calm = TRUE]
    /\ UNCHANGED <<quiet, failures, backoff, job, cache, buffer>>

CacheAges ==
    /\ cache = "new"
    /\ cache' = "old"
    /\ UNCHANGED <<quiet, failures, health, backoff, job, buffer>>

-----------------------------------------------------------------------------
(* Candles.  The timer of finalizeDue runs every second, so the clock is    *)
(* never two buckets ahead of the live candle.                              *)

NextBucket ==
    /\ clock < setup.candles /\ live \in {0, clock}
    /\ clock' = clock + 1
    /\ UNCHANGED <<setup, late, live, closed, failures, health, backoff, job, cache, buffer>>

IndexOf(k) == SelectInSeq(buf, LAMBDA e : e.key = k)

(* _dropOldestSafeDuplicate: the first entry that comes again has its older *)
(* one removed.                                                             *)
Again(i) == i \in DOMAIN buf /\ \E a \in 1 .. (i - 1) : buf[a].key = buf[i].key
OldestDuplicate ==
    IF \E i \in DOMAIN buf : Again(i)
    THEN IndexOf(buf[CHOOSE i \in DOMAIN buf : Again(i) /\ \A j \in DOMAIN buf : Again(j) => i <= j].key)
    ELSE 0

Takes(entries, n, e) ==
    /\ buf' = entries
    /\ total' = n
    /\ accepted' = [accepted EXCEPT ![e.key] = e.v]
    /\ health' = Noted(health, n)

(* Mutant: the limit counts the entries in the queue only.                  *)
enqueueBesideBatch(e) ==
    LET i == IndexOf(e.key)
    IN CASE i # 0 -> Takes([buf EXCEPT ![i] = e], total, e)
         [] i = 0 /\ Len(buf) < MAX_BACKLOG -> Takes(Append(buf, e), total + 1, e)
         [] OTHER -> UNCHANGED <<buf, total, accepted>> /\ health' = Noted(health, total)
enqueue(e) ==
    LET i == IndexOf(e.key)
        d == OldestDuplicate
    IN CASE i # 0 -> Takes([buf EXCEPT ![i] = e], total, e)
         [] i = 0 /\ total < MAX_BACKLOG -> Takes(Append(buf, e), total + 1, e)
         [] i = 0 /\ total >= MAX_BACKLOG /\ d # 0 ->
              Takes(Append(RemoveAt(buf, d), e), total, e)
         [] OTHER -> UNCHANGED <<buf, total, accepted>> /\ health' = Noted(health, total)

Closes(next) ==
    /\ live' = next
    /\ closed' = [closed EXCEPT ![live] = @ + 1]
    /\ enqueue([key |-> live, v |-> closed[live] + 1])
    /\ UNCHANGED <<setup, clock, failures, backoff, job, cache, batch, flushes, stored>>

(* A tick, or the timer, meets the candle of the last bucket.               *)
Tick ==
    \/ /\ live = 0 /\ setup.candles > 0
       /\ live' = clock
       /\ UNCHANGED <<setup, late, clock, closed, failures, health, backoff, job, cache, buffer>>
    \/ /\ live # 0 /\ live = clock - 1
       /\ Closes(clock)
       /\ UNCHANGED late

(* onTicks closes the current candle for any tick of another bucket.        *)
LateTick ==
    /\ late > 0 /\ live = clock /\ clock > 1
    /\ late' = late - 1
    /\ Closes(clock - 1)

-----------------------------------------------------------------------------
(* flush.  Its turn in the serial chain comes as a microtask, so it takes   *)
(* its first batch when the flush before it is over.                        *)

(* The timer calls.  The second gate, for an urgent flush, defers whenever  *)
(* the first did: that one just set the back-off, and the priority it asks  *)
(* for is not the one it gets.                                              *)
FlushIdle ==
    /\ total = 0
    /\ health' = Noted(health, total)
    /\ UNCHANGED <<quiet, failures, backoff, job, cache, buffer>>

FlushGranted ==
    /\ total > 0 /\ HasPermit(Noted(health, total), "important", FALSE)
    /\ flushes' = flushes + 1
    /\ health' = Noted(health, total)
    /\ backoff' = Passed(health', Writer)
    /\ UNCHANGED <<quiet, failures, job, cache, buf, batch, total, accepted, stored>>

FlushDeferred ==
    /\ total > 0 /\ MayDefer(Noted(health, total), Writer, "important", FALSE)
    /\ backoff' = backoff \cup {Writer}
    /\ health' = Noted(health, total)
    /\ UNCHANGED <<quiet, failures, job, cache, buffer>>

(* The loop: the next batch, or the end (logRecoveryIfAny), which counts as *)
(* a success of the database even if there was nothing to write.            *)
TakesBatch(m, n) ==
    LET size == IF Len(buf) < MAX_BATCH THEN Len(buf) ELSE MAX_BATCH
    IN /\ batch' = SubSeq(buf, 1, size)
       /\ buf' = SubSeq(buf, size + 1, Len(buf))
       /\ IF buf = <<>>
          THEN /\ flushes' = flushes - 1
               /\ backoff' = backoff \ {Writer}
               /\ health' = markMongoHealthy(m, n)
          ELSE /\ health' = m
               /\ UNCHANGED <<flushes, backoff>>

FlushBegins ==
    /\ flushes > 0 /\ batch = <<>>
    /\ TakesBatch(health, total)
    /\ UNCHANGED <<quiet, failures, job, cache, total, accepted, stored>>

(* insertManyCandles: one unordered bulk of upserts.  A failing one stops   *)
(* no other; the server runs those of one candle in their order.            *)
Upserted(written) ==
    [k \in Candles |->
        LET of == {i \in written : batch[i].key = k}
        IN IF of = {} THEN stored[k] ELSE batch[CHOOSE i \in of : \A j \in of : j <= i].v]

FlushWrites ==
    LET n == total - Len(batch)
    IN /\ batch # <<>>
       /\ stored' = Upserted(DOMAIN batch)
       /\ total' = n
       /\ TakesBatch(Noted(health, n), n)
       /\ UNCHANGED <<quiet, failures, job, cache, accepted>>

(* The insert fails with some of its writes done: the batch goes back where *)
(* it was, and the permit with it.  Mutant: it goes to the end.             *)
PutBackLast(written) ==
    /\ batch # <<>> /\ failures > 0
    /\ failures' = failures - 1
    /\ stored' = Upserted(written)
    /\ buf' = buf \o batch
    /\ batch' = <<>>
    /\ flushes' = flushes - 1
    /\ UNCHANGED <<quiet, job, cache, total, accepted>>
PutBack(written) ==
    /\ batch # <<>> /\ failures > 0
    /\ failures' = failures - 1
    /\ stored' = Upserted(written)
    /\ buf' = batch \o buf
    /\ batch' = <<>>
    /\ flushes' = flushes - 1
    /\ UNCHANGED <<quiet, job, cache, total, accepted>>

FlushFails(written) ==
    /\ PutBack(written)
    /\ health' = markMongoDegraded(Noted(health, total), total)
    /\ backoff' = backoff \cup {Writer}

FlushFailsOtherwise(written) ==
    /\ PutBack(written)
    /\ health' = Noted(health, total)
    /\ backoff' = IF health.state = HEALTHY THEN backoff \ {Writer} ELSE backoff

-----------------------------------------------------------------------------
JobEnds(j) == Succeeds(j) \/ Fails(j) \/ FailsOtherwise(j)
FlushStep ==
    \/ FlushBegins \/ FlushWrites
    \/ \E written \in SUBSET DOMAIN batch : FlushFails(written) \/ FlushFailsOtherwise(written)

NextWork ==
    \/ \E j \in Jobs : Granted(j) \/ Deferred(j) \/ JobEnds(j)
    \/ DriverFails
    \/ CalmComes \/ CacheAges
    \/ NextBucket \/ Tick \/ LateTick
    \/ FlushIdle \/ FlushGranted \/ FlushDeferred \/ FlushStep

(* Calls of the database end, the quiet time passes, and a job that knocks  *)
(* again and again does so once when a permit is free and its back-off      *)
(* over: permits are short, attempts seconds apart, back-offs have a jitter.*)
FairWork ==
    /\ \A j \in Jobs : WF_workVars(JobEnds(j)) /\ SF_workVars(Granted(j))
    /\ WF_workVars(CalmComes)
    /\ WF_workVars(FlushStep) /\ SF_workVars(FlushGranted)

SpecWork == InitWork /\ [][NextWork]_workVars /\ FairWork

-----------------------------------------------------------------------------
Entry == [key : Candles, v : 1 .. 3]

(* Types, and the limit of the buffer: no burst of candles, failing flush   *)
(* or overflow makes it hold more than it may.                              *)
WorkTypeOK ==
    /\ setup \in WorkSetups
    /\ failures \in 0 .. setup.failures /\ late \in 0 .. setup.late
    /\ health \in [state : States, failureStreak : 0 .. MaxFailures, recoveryStreak : 0 .. 3,
                   calm : BOOLEAN, stale : BOOLEAN]
    /\ backoff \subseteq Jobs \cup {Writer}
    /\ job \in [Jobs -> Priorities \cup {"rest"}]
    /\ cache \in {"none", "new", "old"}
    /\ clock \in 1 .. MaxCandle + 1 /\ live \in 0 .. MaxCandle
    /\ \A i \in DOMAIN buf : buf[i] \in Entry
    /\ \A i \in DOMAIN batch : batch[i] \in Entry
    /\ total \in 0 .. MAX_BACKLOG /\ flushes \in 0 .. 2

(* A candle that enqueue accepted is in the database or still waits, in its *)
(* newest version, and the count of what waits is right: through failing    *)
(* and partly written inserts, candles made anew by late ticks, overflow,   *)
(* and flushes that queue behind each other.  Two late ticks can give a     *)
(* candle three versions, and the one that enqueue then replaces is the     *)
(* first of two that wait.                                                  *)
Waiting == {buf[i] : i \in DOMAIN buf} \cup {batch[i] : i \in DOMAIN batch}
CandlesAreKept ==
    /\ total = Len(buf) + Len(batch)
    /\ setup.late <= 1 => \A k \in Candles :
         accepted[k] \in {0, stored[k]} \/ [key |-> k, v |-> accepted[k]] \in Waiting

(* After one or two failures the state becomes HEALTHY again, if no         *)
(* dashboard asks for the status and the backlog cannot become critical:    *)
(* the last candle stays open.                                              *)
RecoversFromFew ==
    setup.failures < 3 /\ "socket_status" \notin setup.jobs
    /\ setup.candles <= CRITICAL_BACKLOG /\ setup.late = 0
        => (health.state # HEALTHY ~> health.state = HEALTHY)

(* Reconciliation comes to the database again and again in every state,     *)
(* also beside a watcher that has no token and shares the only permit.      *)
ReconcileIsServed ==
    "reconcile" \in setup.jobs => []<>(job["reconcile"] # "rest")

=============================================================================
