--------------------------- MODULE QueueConsumer ---------------------------
(***************************************************************************)
(* apps/worker/src/consumers/queue.ts and worker.ts: worker processes that *)
(* drain the sync_jobs table.  A worker claims one job at a time in a      *)
(* SERIALIZABLE transaction (SELECT ... FOR UPDATE SKIP LOCKED, then an    *)
(* UPDATE), runs the executor, and records the result in a second          *)
(* transaction that also drives the circuit breaker of the job's           *)
(* connector/pair.                                                         *)
(*                                                                         *)
(* "Pairs" are the keys of connector_failure_stats, (connector, pair).     *)
(* A job id stands for the columns of its row that never change, so the    *)
(* pair and the priority of a job are functions of the id.                 *)
(***************************************************************************)
EXTENDS Backoff, FiniteSets

CONSTANTS
    Jobs,          \* the rows that may ever be inserted
    Pairs,
    Workers,
    PairOf,        \* the connector/pair of a job
    PriorityOf,    \* sync_jobs.priority
    Returned,      \* the outcomes the executors may report
    StartDelays,   \* delays with which new rows are inserted
    MaxRetries,    \* sync_jobs.max_retries
    Threshold,     \* CIRCUIT_BREAKER_THRESHOLD
    PauseTicks,    \* CIRCUIT_BREAKER_PAUSE_MS
    MaxTime,       \* bound: the last tick of the clock
    AllowedFaults, \* which kinds of fault may happen
    MaxFaults      \* bound: how many of them

FaultKinds == {"crash", "signal", "db_error", "lost_reply"}

NoJob == "none"

NoWorker == "nobody"

ASSUME QueueAssumption ==
    /\ PairOf \in [Jobs -> Pairs]
    /\ PriorityOf \in [Jobs -> Int]
    /\ Returned \subseteq {"success", "partial", "failure"}
    /\ StartDelays \subseteq Nat
    /\ MaxRetries \in Nat \ {0}
    /\ Threshold \in Nat \ {0}
    /\ PauseTicks \in Nat \ {0}
    /\ MaxTime \in Nat \ {0}
    /\ AllowedFaults \subseteq FaultKinds
    /\ MaxFaults \in Nat
    /\ NoJob \notin Jobs
    /\ NoWorker \notin Workers

VARIABLES
    jobs,        \* sync_jobs
    stats,       \* connector_failure_stats
    openAlerts,  \* how many unacknowledged sync_circuit_breaker alerts
    logs,        \* sync_job_logs: how many rows of each outcome
    streak,      \* history: failures logged for the pair since its last success
    now,         \* the clock of the database and of the workers
    phase,       \* where each worker process stands
    active,      \* QueueConsumer.active
    booting,     \* worker.ts is still in "await consumer.start()"
    snapshot,    \* the rows the claim's SELECT sees
    claim,       \* the row the claim's UPDATE returned, "job" in processJob
    result,      \* outcome, finishedAt and the statistics row under its lock
    faults       \* faults so far

dbVars     == <<jobs, stats, openAlerts, logs, streak>>
workerVars == <<phase, active, booting, snapshot, claim, result>>
vars       == <<dbVars, now, workerVars, faults>>

-----------------------------------------------------------------------------
(* Types *)

Statuses  == {"absent", "pending", "retrying", "in_progress", "completed", "failed"}
Claimable == {"pending", "retrying"}
Outcomes  == {"success", "partial", "failure"}

Row == [status : Statuses, retryCount : Nat, nextRunAt : Nat]

(* pausedUntil = NoPause is the column's NULL; the clock starts at 1. *)
NoPause == 0
Stat    == [exists : BOOLEAN, consecutiveFailures : Nat, pausedUntil : Nat]
NoStat  == [exists |-> FALSE, consecutiveFailures |-> 0, pausedUntil |-> NoPause]

(* down        no process                                                  *)
(* idle        waiting for the interval timer                              *)
(* polling     at the top of tick()'s loop                                 *)
(* selecting   the claim transaction has taken its snapshot                *)
(* claiming    the SELECT has locked a row, the UPDATE is not committed    *)
(* executing   in the executor                                             *)
(* finalizing  the executor has returned, no transaction yet               *)
(* committing  in the finalize transaction, rows locked                    *)
Phases  == {"down", "idle", "polling", "selecting", "claiming", "executing",
            "finalizing", "committing"}
Holding == {"executing", "finalizing", "committing"}

EmptySnapshot == [j \in {} |-> [status |-> "absent", retryCount |-> 0, nextRunAt |-> 0]]
NoClaim  == [id |-> NoJob, retryCount |-> 0, nextRunAt |-> 0]
NoResult == [outcome |-> "none", finishedAt |-> 0, stat |-> NoStat]

Claims    == [id : Jobs \cup {NoJob}, retryCount : Nat, nextRunAt : Nat]
Results   == [outcome : Outcomes \cup {"none"}, finishedAt : Nat, stat : Stat]

TypeOK ==
    /\ jobs \in [Jobs -> Row]
    /\ stats \in [Pairs -> Stat]
    /\ openAlerts \in [Pairs -> Nat]
    /\ logs \in [Jobs -> [Outcomes -> Nat]]
    /\ streak \in [Pairs -> Nat]
    /\ now \in Nat \ {0}
    /\ phase \in [Workers -> Phases]
    /\ active \in [Workers -> BOOLEAN]
    /\ booting \in [Workers -> BOOLEAN]
    /\ DOMAIN snapshot = Workers
    /\ \A w \in Workers : /\ DOMAIN snapshot[w] \subseteq Jobs
                          /\ snapshot[w] \in [DOMAIN snapshot[w] -> Row]
    /\ claim \in [Workers -> Claims]
    /\ result \in [Workers -> Results]
    /\ faults \in Nat

Init ==
    /\ jobs = [j \in Jobs |-> [status |-> "absent", retryCount |-> 0, nextRunAt |-> 0]]
    /\ stats = [p \in Pairs |-> NoStat]
    /\ openAlerts = [p \in Pairs |-> 0]
    /\ logs = [j \in Jobs |-> [o \in Outcomes |-> 0]]
    /\ streak = [p \in Pairs |-> 0]
    /\ now = 1
    /\ phase = [w \in Workers |-> "down"]
    /\ active = [w \in Workers |-> FALSE]
    /\ booting = [w \in Workers |-> FALSE]
    /\ snapshot = [w \in Workers |-> EmptySnapshot]
    /\ claim = [w \in Workers |-> NoClaim]
    /\ result = [w \in Workers |-> NoResult]
    /\ faults = 0

-----------------------------------------------------------------------------
(* Helpers *)

Holds(w, j) == phase[w] \in Holding /\ claim[w].id = j

Paused(p) == stats[p].pausedUntil > now

(* Variants of Eligible with a bug: due time forgotten, retries forgotten,  *)
(* stuck jobs taken back without a lease.                                   *)
EligibleTooEarly(j) == jobs[j].status \in Claimable /\ ~Paused(PairOf[j])
EligiblePendingOnly(j) ==
    jobs[j].status = "pending" /\ jobs[j].nextRunAt <= now /\ ~Paused(PairOf[j])
EligibleReclaiming(j) ==
    /\ jobs[j].status \in Claimable \cup {"in_progress"}
    /\ jobs[j].nextRunAt <= now
    /\ ~Paused(PairOf[j])

(* The WHERE clause of the claim's SELECT. *)
Eligible(j) ==
    /\ jobs[j].status \in Claimable
    /\ jobs[j].nextRunAt <= now
    /\ ~Paused(PairOf[j])

(* Rows locked by the open transaction of some worker. *)
RowLocked(j) ==
    \E v \in Workers : phase[v] \in {"claiming", "committing"} /\ claim[v].id = j

(* Variant of StatLocked: the count is read and written back without a lock. *)
StatUnlocked(p) == FALSE

(* A success that finds no statistics row to update locks none. *)
LocksStat(w) ==
    /\ phase[w] = "committing"
    /\ result[w].outcome = "failure" \/ result[w].stat.exists

StatLocked(p) == \E v \in Workers : LocksStat(v) /\ PairOf[claim[v].id] = p

(* ORDER BY priority DESC, next_run_at ASC over the rows not skipped. *)
SelectableFirst(w, j) ==
    LET candidates == {k \in DOMAIN snapshot[w] : ~RowLocked(k)}
    IN  /\ j \in candidates
        /\ \A k \in candidates :
              \/ PriorityOf[j] > PriorityOf[k]
              \/ /\ PriorityOf[j] = PriorityOf[k]
                 /\ snapshot[w][j].nextRunAt <= snapshot[w][k].nextRunAt

(* Leaving the transaction and the job behind. *)
Forget(w) ==
    /\ snapshot' = [snapshot EXCEPT ![w] = EmptySnapshot]
    /\ claim' = [claim EXCEPT ![w] = NoClaim]
    /\ result' = [result EXCEPT ![w] = NoResult]

(* tick() returns; when it was start()'s own tick, start() returns too, the *)
(* timer is armed and the signal handlers are registered.                   *)
EndTick(w) ==
    /\ phase' = [phase EXCEPT ![w] = "idle"]
    /\ booting' = [booting EXCEPT ![w] = FALSE]
    /\ Forget(w)
    /\ UNCHANGED active

Fault(kind) ==
    /\ kind \in AllowedFaults
    /\ faults < MaxFaults
    /\ faults' = faults + 1

-----------------------------------------------------------------------------
(* Rows appear: schedule.ts and connectors.ts insert them as "pending".     *)

Enqueue(j) ==
    /\ jobs[j].status = "absent"
    /\ \E d \in StartDelays :
          jobs' = [jobs EXCEPT ![j] = [status |-> "pending", retryCount |-> 0,
                                       nextRunAt |-> now + d]]
    /\ UNCHANGED <<stats, openAlerts, logs, streak, now, workerVars, faults>>

Tick ==
    /\ now < MaxTime
    /\ now' = now + 1
    /\ UNCHANGED <<dbVars, workerVars, faults>>

-----------------------------------------------------------------------------
(* The worker process: start, timer, signals, crash *)

Start(w) ==
    /\ phase[w] = "down"
    /\ phase' = [phase EXCEPT ![w] = "polling"]
    /\ active' = [active EXCEPT ![w] = TRUE]
    /\ booting' = [booting EXCEPT ![w] = TRUE]
    /\ UNCHANGED <<dbVars, now, snapshot, claim, result, faults>>

(* setInterval fires; a tick that is still processing makes it return. *)
Poll(w) ==
    /\ phase[w] = "idle"
    /\ active[w]
    /\ phase' = [phase EXCEPT ![w] = "polling"]
    /\ UNCHANGED <<dbVars, now, active, booting, snapshot, claim, result, faults>>

(* Variant of LeaveLoop: the loop's condition is inverted. *)
LeaveLoopInverted(w) ==
    /\ phase[w] = "polling"
    /\ active[w]
    /\ EndTick(w)
    /\ UNCHANGED <<dbVars, now, faults>>

(* "while (this.active)" is false. *)
LeaveLoop(w) ==
    /\ phase[w] = "polling"
    /\ ~active[w]
    /\ EndTick(w)
    /\ UNCHANGED <<dbVars, now, faults>>

(* The first signal once the handlers are registered: stop() clears active. *)
Stop(w) ==
    /\ phase[w] # "down"
    /\ ~booting[w]
    /\ active[w]
    /\ active' = [active EXCEPT ![w] = FALSE]
    /\ UNCHANGED <<dbVars, now, phase, booting, snapshot, claim, result, faults>>

(* Variant of Exit: stop() does not wait for the job in hand. *)
ExitWithoutWaiting(w) ==
    /\ phase[w] # "down"
    /\ ~active[w]
    /\ phase' = [phase EXCEPT ![w] = "down"]
    /\ Forget(w)
    /\ UNCHANGED <<dbVars, now, active, booting, faults>>

(* stop() has seen processing = false; the handler disconnects and exits. *)
Exit(w) ==
    /\ phase[w] = "idle"
    /\ ~active[w]
    /\ phase' = [phase EXCEPT ![w] = "down"]
    /\ UNCHANGED <<dbVars, now, active, booting, snapshot, claim, result, faults>>

(* The process dies where it stands: open transactions roll back. *)
Die(w) ==
    /\ phase[w] # "down"
    /\ phase' = [phase EXCEPT ![w] = "down"]
    /\ active' = [active EXCEPT ![w] = FALSE]
    /\ booting' = [booting EXCEPT ![w] = FALSE]
    /\ Forget(w)
    /\ UNCHANGED <<dbVars, now>>

(* A signal before the handlers exist, or the same signal once more while   *)
(* stop() waits (process.once has removed the handler), kills the process.  *)
KillBySignal(w) ==
    /\ booting[w] \/ ~active[w]
    /\ Fault("signal")
    /\ Die(w)

Crash(w) == Fault("crash") /\ Die(w)

-----------------------------------------------------------------------------
(* claimNextJob *)

BeginClaim(w) ==
    /\ phase[w] = "polling"
    /\ active[w]
    /\ phase' = [phase EXCEPT ![w] = "selecting"]
    /\ snapshot' = [snapshot EXCEPT ![w] = [j \in {k \in Jobs : Eligible(k)} |-> jobs[j]]]
    /\ UNCHANGED <<dbVars, now, active, booting, claim, result, faults>>

(* Variant of LockJob: the row may have changed since the snapshot. *)
LockJobStale(w, j) ==
    /\ phase[w] = "selecting"
    /\ SelectableFirst(w, j)
    /\ phase' = [phase EXCEPT ![w] = "claiming"]
    /\ claim' = [claim EXCEPT ![w] = [id |-> j, retryCount |-> jobs[j].retryCount,
                                      nextRunAt |-> jobs[j].nextRunAt]]
    /\ UNCHANGED <<dbVars, now, active, booting, snapshot, result, faults>>

(* The SELECT locks the first row that nobody else has locked... *)
LockJob(w, j) ==
    /\ phase[w] = "selecting"
    /\ SelectableFirst(w, j)
    /\ jobs[j] = snapshot[w][j]
    /\ phase' = [phase EXCEPT ![w] = "claiming"]
    /\ claim' = [claim EXCEPT ![w] = [id |-> j, retryCount |-> jobs[j].retryCount,
                                      nextRunAt |-> jobs[j].nextRunAt]]
    /\ UNCHANGED <<dbVars, now, active, booting, snapshot, result, faults>>

(* ... and fails if that row has changed since the snapshot.  The claim may *)
(* also fail at its end, if another claim has meanwhile taken a row that    *)
(* the SELECT has read: each has then read what the other writes.  Both are *)
(* "could not serialize access" errors, which tick() catches.               *)
SerializationFailure(w, j) ==
    /\ \/ phase[w] = "selecting" /\ SelectableFirst(w, j)
       \/ phase[w] = "claiming" /\ j \in DOMAIN snapshot[w] \ {claim[w].id}
    /\ jobs[j] # snapshot[w][j]
    /\ EndTick(w)
    /\ UNCHANGED <<dbVars, now, faults>>

NoJobFound(w) ==
    /\ phase[w] = "selecting"
    /\ \A j \in DOMAIN snapshot[w] : RowLocked(j)
    /\ EndTick(w)
    /\ UNCHANGED <<dbVars, now, faults>>

(* Variant of MarkInProgress: a value that is not in the status enum. *)
MarkProcessing(j) == jobs' = [jobs EXCEPT ![j].status = "processing"]

MarkInProgress(j) == jobs' = [jobs EXCEPT ![j].status = "in_progress"]

CommitClaim(w) ==
    /\ phase[w] = "claiming"
    /\ MarkInProgress(claim[w].id)
    /\ phase' = [phase EXCEPT ![w] = "executing"]
    /\ snapshot' = [snapshot EXCEPT ![w] = EmptySnapshot]
    /\ UNCHANGED <<stats, openAlerts, logs, streak, now, active, booting, claim, result,
                   faults>>

(* The claim commits, but the worker only sees a broken connection. *)
LoseClaimReply(w) ==
    /\ phase[w] = "claiming"
    /\ MarkInProgress(claim[w].id)
    /\ Fault("lost_reply")
    /\ EndTick(w)
    /\ UNCHANGED <<stats, openAlerts, logs, streak, now>>

(* Any other database error in either transaction: rollback, and tick()     *)
(* logs "Worker tick failed".                                               *)
DatabaseError(w) ==
    /\ phase[w] \in {"selecting", "claiming", "finalizing", "committing"}
    /\ Fault("db_error")
    /\ EndTick(w)
    /\ UNCHANGED <<dbVars, now>>

-----------------------------------------------------------------------------
(* processJob *)

(* The executor returns or throws; finishedAt is read right after it. *)
Execute(w, outcome) ==
    /\ phase[w] = "executing"
    /\ phase' = [phase EXCEPT ![w] = "finalizing"]
    /\ result' = [result EXCEPT ![w] = [outcome |-> outcome, finishedAt |-> now,
                                        stat |-> NoStat]]
    /\ UNCHANGED <<dbVars, now, active, booting, snapshot, claim, faults>>

(* Variant of BeginFinalize: a failure updates the statistics row where the *)
(* code upserts it.  Without a row the update throws: the transaction rolls *)
(* back, tick() logs the error and the job is left as it was claimed.       *)
BeginFinalizeUpdating(w) ==
    LET p == PairOf[claim[w].id]
    IN  /\ phase[w] = "finalizing"
        /\ StatLocked(p) => result[w].outcome # "failure" /\ ~stats[p].exists
        /\ \/ /\ result[w].outcome = "failure" => stats[p].exists
              /\ phase' = [phase EXCEPT ![w] = "committing"]
              /\ result' = [result EXCEPT ![w].stat = stats[p]]
              /\ UNCHANGED <<active, booting, snapshot, claim>>
           \/ /\ result[w].outcome = "failure" /\ ~stats[p].exists
              /\ EndTick(w)
        /\ UNCHANGED <<dbVars, now, faults>>

(* The finalize transaction reaches connector_failure_stats and holds the   *)
(* row's lock from then on, so what it reads there stays true to the end.   *)
BeginFinalize(w) ==
    LET p == PairOf[claim[w].id]
    IN  /\ phase[w] = "finalizing"
        /\ StatLocked(p) => result[w].outcome # "failure" /\ ~stats[p].exists
        /\ phase' = [phase EXCEPT ![w] = "committing"]
        /\ result' = [result EXCEPT ![w].stat = stats[p]]
        /\ UNCHANGED <<dbVars, now, active, booting, snapshot, claim, faults>>

AddLog(w) ==
    logs' = [logs EXCEPT ![claim[w].id][result[w].outcome] = @ + 1]

(* Both finalizers return to the top of the loop; when the reply to their   *)
(* COMMIT is lost, tick() ends instead.                                     *)
NextRound(w) ==
    /\ \/ /\ phase' = [phase EXCEPT ![w] = "polling"]
          /\ UNCHANGED <<booting, faults>>
       \/ /\ phase' = [phase EXCEPT ![w] = "idle"]
          /\ booting' = [booting EXCEPT ![w] = FALSE]
          /\ Fault("lost_reply")
    /\ Forget(w)
    /\ UNCHANGED <<now, active>>

FinalizeSuccess(w) ==
    LET j == claim[w].id
        p == PairOf[j]
    IN  /\ phase[w] = "committing"
        /\ result[w].outcome # "failure"
        /\ jobs' = [jobs EXCEPT ![j].status = "completed"]
        /\ AddLog(w)
        /\ stats' = IF result[w].stat.exists
                    THEN [stats EXCEPT ![p].consecutiveFailures = 0,
                                       ![p].pausedUntil = NoPause]
                    ELSE stats
        /\ openAlerts' = [openAlerts EXCEPT ![p] = 0]
        /\ streak' = [streak EXCEPT ![p] = 0]
        /\ NextRound(w)

(* Variant of ReachedMax: one attempt too many. *)
ReachedMaxOneLate(newRetryCount) == newRetryCount > MaxRetries

ReachedMax(newRetryCount) == newRetryCount >= MaxRetries

(* Variant of RaisedFailures: the increment alone. *)
IncrementedFailures(stat, newRetryCount) == stat.consecutiveFailures + 1

(* upsert { increment: 1 }, then raised to the job's own retry count. *)
RaisedFailures(stat, newRetryCount) ==
    Larger(stat.consecutiveFailures + 1, newRetryCount)

Trips(stat, failures, finishedAt) ==
    /\ failures >= Threshold
    /\ stat.pausedUntil = NoPause \/ stat.pausedUntil <= finishedAt

(* Variant of AlertsAfterTrip: every trip creates an alert. *)
AlertCreatedEachTrip(n) == n + 1

(* An open alert is updated in place, otherwise one is created. *)
AlertsAfterTrip(n) == IF n > 0 THEN n ELSE 1

FinalizeFailure(w, draw) ==
    LET j             == claim[w].id
        p             == PairOf[j]
        finishedAt    == result[w].finishedAt
        newRetryCount == claim[w].retryCount + 1
        reachedMax    == ReachedMax(newRetryCount)
        failures      == RaisedFailures(result[w].stat, newRetryCount)
        trips         == Trips(result[w].stat, failures, finishedAt)
    IN  /\ phase[w] = "committing"
        /\ result[w].outcome = "failure"
        /\ jobs' = [jobs EXCEPT ![j] =
              [status     |-> IF reachedMax THEN "failed" ELSE "retrying",
               retryCount |-> newRetryCount,
               nextRunAt  |-> IF reachedMax THEN claim[w].nextRunAt
                              ELSE CalculateNextRunAt(newRetryCount, finishedAt, draw)]]
        /\ AddLog(w)
        /\ stats' = [stats EXCEPT ![p] =
              [exists |-> TRUE,
               consecutiveFailures |-> failures,
               pausedUntil |-> IF trips THEN finishedAt + PauseTicks
                               ELSE result[w].stat.pausedUntil]]
        /\ openAlerts' = [openAlerts EXCEPT ![p] = IF trips THEN AlertsAfterTrip(@) ELSE @]
        /\ streak' = [streak EXCEPT ![p] = @ + 1]
        /\ NextRound(w)

-----------------------------------------------------------------------------
Process(w) ==
    \/ Start(w) \/ Poll(w) \/ LeaveLoop(w) \/ Stop(w) \/ Exit(w)
    \/ KillBySignal(w) \/ Crash(w)

ClaimStep(w) ==
    \/ BeginClaim(w)
    \/ \E j \in Jobs : LockJob(w, j) \/ SerializationFailure(w, j)
    \/ NoJobFound(w) \/ CommitClaim(w) \/ LoseClaimReply(w) \/ DatabaseError(w)

JobStep(w) ==
    \/ \E outcome \in Returned : Execute(w, outcome)
    \/ BeginFinalize(w)
    \/ FinalizeSuccess(w)
    \/ \E draw \in 0 .. Draws - 1 : FinalizeFailure(w, draw)

WorkerStep(w) == Process(w) \/ ClaimStep(w) \/ JobStep(w)

Next ==
    \/ Tick
    \/ \E j \in Jobs : Enqueue(j)
    \/ \E w \in Workers : WorkerStep(w)

Spec == Init /\ [][Next]_vars

-----------------------------------------------------------------------------
(* Properties *)

(* SKIP LOCKED, SERIALIZABLE and the status column together: a job that is  *)
(* being executed or finalized belongs to one worker, and its row says so   *)
(* until that worker records the result.                                    *)
OneHolder ==
    \A w \in Workers, j \in Jobs :
        Holds(w, j) => /\ jobs[j].status = "in_progress"
                       /\ \A v \in Workers : Holds(v, j) => v = w

(* Job row, attempt log: every failed attempt is in the log exactly once    *)
(* and counted in retry_count exactly once, a completed job has exactly one *)
(* successful attempt, and a job is given up after MaxRetries failures and  *)
(* not earlier.                                                             *)
AttemptsAccounted ==
    \A j \in Jobs :
        /\ logs[j]["failure"] = jobs[j].retryCount
        /\ logs[j]["success"] + logs[j]["partial"]
              = IF jobs[j].status = "completed" THEN 1 ELSE 0
        /\ jobs[j].status = "failed" <=> jobs[j].retryCount >= MaxRetries

(* The pause, the failure count and the alert of a pair are written by the  *)
(* finalize transactions of several workers: paused_until is set exactly    *)
(* when the count has reached the threshold, an alert is open only while it *)
(* is set, and a second trip never opens a second alert.                    *)
BreakerConsistent ==
    \A p \in Pairs :
        /\ stats[p].pausedUntil # NoPause <=> stats[p].consecutiveFailures >= Threshold
        /\ openAlerts[p] <= 1
        /\ openAlerts[p] = 1 => stats[p].pausedUntil # NoPause

(* "pauses/alerts remain consistent" (error-handling-strategy.md:39): the   *)
(* administrator sees an open alert for every pause.                        *)
PauseHasOpenAlert ==
    \A p \in Pairs : stats[p].pausedUntil # NoPause => openAlerts[p] = 1

(* No interleaving of finalizers loses a failure: the count that the        *)
(* breaker sees is never below the failures since the pair's last success.  *)
NoFailureUncounted ==
    \A p \in Pairs : stats[p].consecutiveFailures >= streak[p]

(* A row that is in progress with nobody working on it is the mark of a     *)
(* fault: a killed process, a transaction that failed, a reply that was     *)
(* lost.  Stopping and restarting workers in order never strands a job.     *)
Orphan(j) ==
    jobs[j].status = "in_progress" /\ \A w \in Workers : ~Holds(w, j)

OrphansComeFromFaults ==
    Cardinality({j \in Jobs : Orphan(j)}) <= faults

(* A job waits out its backoff: whatever snapshot the claim was based on,   *)
(* the row that becomes "in_progress" was due when it did.                  *)
RetriesWaitForTheirTime ==
    [][\A j \in Jobs :
          (jobs[j].status \in Claimable /\ jobs'[j].status = "in_progress")
              => jobs[j].nextRunAt <= now]_vars

(* A job that runs out of retries leaves its pair paused beyond the moment  *)
(* it failed, even when other jobs of the pair succeeded in between: this   *)
(* is what raising the count to the job's own retry count is for.           *)
ExhaustedJobPausesPair ==
    [][\A w \in Workers, j \in Jobs :
          (Holds(w, j) /\ jobs[j].status = "in_progress" /\ jobs'[j].status = "failed")
              => stats'[PairOf[j]].pausedUntil > result[w].finishedAt]_vars

-----------------------------------------------------------------------------
(* Fairness.  The interval timer keeps firing, statements and executors     *)
(* return (feeds and providers are fetched with a timeout), row locks are   *)
(* granted in the order they were asked for, and docker-compose restarts a  *)
(* worker (restart: unless-stopped).  Nothing makes signals, faults or new  *)
(* rows happen.                                                             *)

Fairness ==
    /\ WF_vars(Tick)
    /\ \A w \in Workers :
          /\ WF_vars(Start(w)) /\ WF_vars(Poll(w))
          /\ WF_vars(LeaveLoop(w)) /\ WF_vars(Exit(w))
          /\ WF_vars(BeginClaim(w))
          /\ WF_vars(NoJobFound(w) \/ \E j \in Jobs : LockJob(w, j) \/ SerializationFailure(w, j))
          /\ WF_vars(CommitClaim(w))
          /\ WF_vars(\E o \in Returned : Execute(w, o))
          /\ SF_vars(BeginFinalize(w))
          /\ WF_vars(FinalizeSuccess(w) \/ \E d \in 0 .. Draws - 1 : FinalizeFailure(w, d))

FairSpec == Spec /\ Fairness

(* Every due job of a pair that is not paused is taken, however the workers *)
(* are stopped and restarted and whichever rows they skip because another   *)
(* worker has locked them, unless the pair is paused meanwhile.             *)
DueJobIsTaken ==
    \A j \in Jobs :
        (jobs[j].status \in Claimable /\ jobs[j].nextRunAt <= now)
            ~> (jobs[j].status \notin Claimable \/ Paused(PairOf[j]))

(* A job that was taken is recorded as completed, retrying or failed,       *)
(* whatever locks its worker waits for and whoever stops it; only a fault   *)
(* can leave it behind without a worker.                                    *)
TakenJobIsRecorded ==
    \A j \in Jobs :
        jobs[j].status = "in_progress"
            ~> (jobs[j].status # "in_progress" \/ (Orphan(j) /\ faults > 0))

(* stop() terminates: it waits for the job in hand, never for the queue.    *)
StopCompletes ==
    \A w \in Workers : (phase[w] # "down" /\ ~active[w]) ~> phase[w] = "down"

-----------------------------------------------------------------------------
(* The queue implements JobLifecycle. *)

StateOf(j) ==
    CASE jobs[j].status = "absent"      -> "new"
      [] jobs[j].status \in Claimable   -> "queued"
      [] jobs[j].status = "in_progress" -> "running"
      [] jobs[j].status = "completed"   -> "done"
      [] jobs[j].status = "failed"      -> "dead"

RunnerOf(j) ==
    IF \E w \in Workers : Holds(w, j)
    THEN CHOOSE w \in Workers : Holds(w, j)
    ELSE NoWorker

StateMap    == [j \in Jobs |-> StateOf(j)]
FailuresMap == [j \in Jobs |-> jobs[j].retryCount]
RunnerMap   == [j \in Jobs |-> RunnerOf(j)]

Lifecycle ==
    INSTANCE JobLifecycle WITH
        state <- StateMap, failures <- FailuresMap, runner <- RunnerMap

ImplementsLifecycle == Lifecycle!LifecycleSpec

=============================================================================
