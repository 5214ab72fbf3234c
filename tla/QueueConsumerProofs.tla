------------------------ MODULE QueueConsumerProofs ------------------------
(***************************************************************************)
(* What holds of QueueConsumer for every set of jobs, pairs and workers and *)
(* every value of the other constants: types, claims, retries and attempts, *)
(* the circuit breaker and its alerts, how long retries wait, the           *)
(* refinement of JobLifecycle, and jobs that faults leave behind.           *)
(***************************************************************************)
EXTENDS QueueConsumer, FiniteSetTheorems, TLAPS

(* Whatever random() returns, a delay is a number of ticks: nextRunAt stays *)
(* in the column's range.                                                   *)
LEMMA DelayIsNat ==
    ASSUME NEW retryCount \in Nat, NEW draw \in 0 .. Draws - 1
    PROVE  CalculateBackoffDelay(retryCount, draw) \in Nat
<1> DEFINE attempt == Larger(1, retryCount)
           scale == JitterDen * Draws
<1>1. attempt \in Nat \ {0}
  BY DEF Larger
<1>2. ComputeBaseDelay(attempt) \in Int
  <2>1. CASE attempt <= 5
    BY <1>1, <2>1, BackoffAssumption
    DEF ComputeBaseDelay, BackoffSequence, Larger, Smaller
  <2>2. CASE attempt > 5
    BY <1>1, <2>2, BackoffAssumption
    DEF ComputeBaseDelay, BackoffSequence, Larger, Smaller
  <2> QED  BY <1>1, <2>1, <2>2
<1>3. CappedDelay(retryCount) \in Int
  BY <1>2, BackoffAssumption DEF CappedDelay, Smaller
<1>4. scale \in Nat \ {0}
  BY BackoffAssumption
<1> QED  BY <1>3, <1>4, BackoffAssumption DEF CalculateBackoffDelay, Larger, Round

-----------------------------------------------------------------------------
(* Types.  BeginFinalize reads the statistics row of the claimed job, so    *)
(* types alone are not inductive: a worker past the claim has a job, and    *)
(* past the executor an outcome.                                            *)

ClaimsKnown ==
    \A w \in Workers :
        /\ phase[w] \in {"claiming", "executing", "finalizing", "committing"}
              => claim[w].id \in Jobs
        /\ phase[w] \in {"finalizing", "committing"} => result[w].outcome \in Outcomes

LEMMA TypesInit == Init => TypeOK /\ ClaimsKnown
BY QueueAssumption
DEF Init, ClaimsKnown, TypeOK, Row, Stat, NoStat, NoPause, Claims, NoClaim, Results, NoResult, Outcomes,
    Statuses, Phases, EmptySnapshot

(* The values a worker falls back to are well-typed. *)
LEMMA TypesForget ==
    ASSUME TypeOK, NEW w \in Workers, Forget(w)
    PROVE  /\ DOMAIN snapshot' = Workers
           /\ \A v \in Workers : /\ DOMAIN snapshot'[v] \subseteq Jobs
                                 /\ snapshot'[v] \in [DOMAIN snapshot'[v] -> Row]
           /\ claim' \in [Workers -> Claims]
           /\ result' \in [Workers -> Results]
BY DEF TypeOK, Forget, EmptySnapshot, NoClaim, NoResult, NoStat, NoPause, Claims, Results, Stat

LEMMA TypesEndTick ==
    ASSUME TypeOK, NEW w \in Workers, EndTick(w),
           UNCHANGED <<stats, openAlerts, logs, streak, now>>,
           jobs' \in [Jobs -> Row], faults' \in Nat
    PROVE  TypeOK'
<1>1. Forget(w)
  BY DEF EndTick
<1> QED  BY <1>1, TypesForget DEF TypeOK, EndTick, Phases

LEMMA TypesDie ==
    ASSUME TypeOK, NEW w \in Workers, Die(w), faults' \in Nat
    PROVE  TypeOK'
<1>1. Forget(w)
  BY DEF Die
<1> QED  BY <1>1, TypesForget DEF TypeOK, Die, dbVars, Phases

LEMMA TypesNextRound ==
    ASSUME TypeOK, NEW w \in Workers, NextRound(w),
           jobs' \in [Jobs -> Row], stats' \in [Pairs -> Stat],
           openAlerts' \in [Pairs -> Nat], logs' \in [Jobs -> [Outcomes -> Nat]],
           streak' \in [Pairs -> Nat]
    PROVE  TypeOK'
<1>1. Forget(w)
  BY DEF NextRound
<1>2. phase' \in [Workers -> Phases]
  BY DEF TypeOK, NextRound, Phases
<1>3. booting' \in [Workers -> BOOLEAN]
  BY DEF TypeOK, NextRound
<1>4. faults' \in Nat /\ active' = active /\ now' = now
  BY DEF TypeOK, NextRound, Fault
<1> QED  BY <1>1, <1>2, <1>3, <1>4, TypesForget DEF TypeOK

LEMMA MarkInProgressRows ==
    ASSUME TypeOK, NEW j, MarkInProgress(j)
    PROVE  jobs' \in [Jobs -> Row]
BY DEF TypeOK, MarkInProgress, Row, Statuses

LEMMA TypesProcess ==
    ASSUME TypeOK, NEW w \in Workers, Process(w)
    PROVE  TypeOK'
<1>1. CASE Start(w)
  BY <1>1 DEF TypeOK, Start, dbVars, Phases
<1>2. CASE Poll(w)
  BY <1>2 DEF TypeOK, Poll, dbVars, Phases
<1>3. CASE LeaveLoop(w)
  BY <1>3, TypesEndTick DEF LeaveLoop, dbVars, TypeOK
<1>4. CASE Stop(w)
  BY <1>4 DEF TypeOK, Stop, dbVars
<1>5. CASE Exit(w)
  BY <1>5 DEF TypeOK, Exit, dbVars, Phases
<1>6. CASE KillBySignal(w)
  BY <1>6, TypesDie DEF TypeOK, KillBySignal, Fault
<1>7. CASE Crash(w)
  BY <1>7, TypesDie DEF TypeOK, Crash, Fault
<1> QED  BY <1>1, <1>2, <1>3, <1>4, <1>5, <1>6, <1>7 DEF Process

LEMMA TypesClaimStep ==
    ASSUME TypeOK, NEW w \in Workers, ClaimStep(w)
    PROVE  TypeOK'
<1>1. CASE BeginClaim(w)
  BY <1>1 DEF TypeOK, BeginClaim, dbVars, Phases
<1>2. ASSUME NEW j \in Jobs, LockJob(w, j)
      PROVE  TypeOK'
  BY <1>2 DEF TypeOK, LockJob, dbVars, Phases, EmptySnapshot, Claims, Row
<1>3. ASSUME NEW j \in Jobs, SerializationFailure(w, j)
      PROVE  TypeOK'
  BY <1>3, TypesEndTick DEF SerializationFailure, dbVars, TypeOK
<1>4. CASE NoJobFound(w)
  BY <1>4, TypesEndTick DEF NoJobFound, dbVars, TypeOK
<1>5. CASE CommitClaim(w)
  <2>1. jobs' \in [Jobs -> Row] /\ phase' \in [Workers -> Phases]
    BY <1>5, MarkInProgressRows DEF TypeOK, CommitClaim, Phases
  <2>2. /\ DOMAIN snapshot' = Workers
        /\ \A v \in Workers : /\ DOMAIN snapshot'[v] \subseteq Jobs
                              /\ snapshot'[v] \in [DOMAIN snapshot'[v] -> Row]
    BY <1>5 DEF TypeOK, CommitClaim, EmptySnapshot
  <2> QED  BY <1>5, <2>1, <2>2 DEF TypeOK, CommitClaim
<1>6. CASE LoseClaimReply(w)
  BY <1>6, MarkInProgressRows, TypesEndTick DEF LoseClaimReply, Fault, TypeOK
<1>7. CASE DatabaseError(w)
  BY <1>7, TypesEndTick DEF DatabaseError, Fault, dbVars, TypeOK
<1> QED  BY <1>1, <1>2, <1>3, <1>4, <1>5, <1>6, <1>7 DEF ClaimStep

(* The job a worker has claimed is a job, and its pair is a pair. *)
LEMMA ClaimedPair ==
    ASSUME TypeOK, ClaimsKnown, NEW w \in Workers,
           phase[w] \in {"claiming", "executing", "finalizing", "committing"}
    PROVE  claim[w].id \in Jobs /\ PairOf[claim[w].id] \in Pairs
BY QueueAssumption DEF ClaimsKnown

(* One more row in the log of the claimed job. *)
LEMMA TypesAddLog ==
    ASSUME TypeOK, NEW w \in Workers, AddLog(w),
           claim[w].id \in Jobs, result[w].outcome \in Outcomes
    PROVE  logs' \in [Jobs -> [Outcomes -> Nat]]
<1> DEFINE l == logs[claim[w].id]
           o == result[w].outcome
<1>1. l \in [Outcomes -> Nat]
  BY DEF TypeOK
<1>2. [l EXCEPT ![o] = l[o] + 1] \in [Outcomes -> Nat]
  BY <1>1
<1>3. logs' = [logs EXCEPT ![claim[w].id] = [l EXCEPT ![o] = l[o] + 1]]
  BY DEF AddLog, TypeOK
<1> QED  BY <1>2, <1>3 DEF TypeOK

LEMMA TypesFinalizeSuccess ==
    ASSUME TypeOK, ClaimsKnown, NEW w \in Workers, FinalizeSuccess(w)
    PROVE  TypeOK'
<1>1. /\ claim[w].id \in Jobs /\ PairOf[claim[w].id] \in Pairs
      /\ result[w].outcome \in Outcomes
  BY ClaimedPair DEF FinalizeSuccess, ClaimsKnown
<1>2. jobs' \in [Jobs -> Row]
  BY <1>1 DEF TypeOK, FinalizeSuccess, Row, Statuses
<1>3. stats' \in [Pairs -> Stat]
  BY <1>1 DEF TypeOK, FinalizeSuccess, Stat, NoPause
<1>4. openAlerts' \in [Pairs -> Nat] /\ streak' \in [Pairs -> Nat]
  BY <1>1 DEF TypeOK, FinalizeSuccess
<1>5. logs' \in [Jobs -> [Outcomes -> Nat]]
  BY <1>1, TypesAddLog DEF FinalizeSuccess
<1>6. NextRound(w)
  BY DEF FinalizeSuccess
<1> QED  BY <1>2, <1>3, <1>4, <1>5, <1>6, TypesNextRound

LEMMA TypesFinalizeFailure ==
    ASSUME TypeOK, ClaimsKnown, NEW w \in Workers, NEW draw \in 0 .. Draws - 1,
           FinalizeFailure(w, draw)
    PROVE  TypeOK'
<1> DEFINE p == PairOf[claim[w].id]
           newRetryCount == claim[w].retryCount + 1
           finishedAt == result[w].finishedAt
           failures == RaisedFailures(result[w].stat, newRetryCount)
           trips == Trips(result[w].stat, failures, finishedAt)
           newStat == [exists |-> TRUE,
                       consecutiveFailures |-> failures,
                       pausedUntil |-> IF trips THEN finishedAt + PauseTicks
                                       ELSE result[w].stat.pausedUntil]
<1>1. newRetryCount \in Nat /\ claim[w].nextRunAt \in Nat
  BY DEF TypeOK, Claims
<1>2. /\ finishedAt \in Nat
      /\ result[w].stat.pausedUntil \in Nat
      /\ result[w].stat.consecutiveFailures \in Nat
  BY DEF TypeOK, Results, Stat
<1>3. failures \in Nat
  BY <1>1, <1>2 DEF RaisedFailures, Larger
<1>4. CalculateNextRunAt(newRetryCount, finishedAt, draw) \in Nat
  BY <1>1, <1>2, DelayIsNat DEF CalculateNextRunAt
<1>5. jobs' \in [Jobs -> Row]
  BY <1>1, <1>4 DEF TypeOK, FinalizeFailure, Row, Statuses
<1>6. stats' \in [Pairs -> Stat]
  <2>1. newStat \in Stat
    <3> HIDE DEF failures, trips, finishedAt
    <3> QED  BY <1>2, <1>3, QueueAssumption DEF Stat
  <2>2. stats' = [stats EXCEPT ![p] = newStat]
    BY DEF FinalizeFailure
  <2> HIDE DEF newStat
  <2> QED  BY <2>1, <2>2 DEF TypeOK
<1>7. /\ claim[w].id \in Jobs /\ p \in Pairs
      /\ result[w].outcome \in Outcomes
  BY ClaimedPair DEF FinalizeFailure, ClaimsKnown
<1>8. openAlerts' \in [Pairs -> Nat] /\ streak' \in [Pairs -> Nat]
  <2>1. /\ openAlerts' = [openAlerts EXCEPT
                ![p] = IF trips THEN AlertsAfterTrip(openAlerts[p]) ELSE openAlerts[p]]
        /\ streak' = [streak EXCEPT ![p] = streak[p] + 1]
    BY DEF FinalizeFailure
  <2> HIDE DEF p, trips
  <2> QED  BY <1>7, <2>1 DEF TypeOK, AlertsAfterTrip
<1>9. logs' \in [Jobs -> [Outcomes -> Nat]]
  BY <1>7, TypesAddLog DEF FinalizeFailure
<1>10. NextRound(w)
  BY DEF FinalizeFailure
<1> QED  BY <1>5, <1>6, <1>8, <1>9, <1>10, TypesNextRound

LEMMA TypesJobStep ==
    ASSUME TypeOK, ClaimsKnown, NEW w \in Workers, JobStep(w)
    PROVE  TypeOK'
<1>1. ASSUME NEW outcome \in Returned, Execute(w, outcome)
      PROVE  TypeOK'
  BY <1>1, QueueAssumption
  DEF TypeOK, Execute, dbVars, Phases, Results, Outcomes, NoStat, NoPause, Stat
<1>2. CASE BeginFinalize(w)
  <2> DEFINE stat == stats[PairOf[claim[w].id]]
             new == [result[w] EXCEPT !.stat = stat]
  <2>1. stat \in Stat
    BY <1>2, ClaimedPair DEF TypeOK, BeginFinalize
  <2>2. new \in Results
    <3> HIDE DEF stat
    <3> QED  BY <2>1 DEF TypeOK, Results
  <2>3. result' = [result EXCEPT ![w] = new]
    BY <1>2 DEF BeginFinalize, TypeOK
  <2>4. result' \in [Workers -> Results]
    <3> HIDE DEF new
    <3> QED  BY <2>2, <2>3 DEF TypeOK
  <2> QED  BY <1>2, <2>4 DEF TypeOK, BeginFinalize, dbVars, Phases
<1>3. CASE FinalizeSuccess(w)
  BY <1>3, TypesFinalizeSuccess
<1>4. ASSUME NEW draw \in 0 .. Draws - 1, FinalizeFailure(w, draw)
      PROVE  TypeOK'
  BY <1>4, TypesFinalizeFailure
<1> QED  BY <1>1, <1>2, <1>3, <1>4 DEF JobStep

LEMMA TypesNext == TypeOK /\ ClaimsKnown /\ [Next]_vars => TypeOK'
<1> SUFFICES ASSUME TypeOK, ClaimsKnown, [Next]_vars
             PROVE  TypeOK'
  OBVIOUS
<1>1. CASE Tick
  BY <1>1 DEF TypeOK, Tick, dbVars, workerVars
<1>2. ASSUME NEW j \in Jobs, Enqueue(j)
      PROVE  TypeOK'
  BY <1>2, QueueAssumption DEF TypeOK, Enqueue, workerVars, Row, Statuses
<1>3. ASSUME NEW w \in Workers, WorkerStep(w)
      PROVE  TypeOK'
  BY <1>3, TypesProcess, TypesClaimStep, TypesJobStep DEF WorkerStep
<1>4. CASE UNCHANGED vars
  BY <1>4 DEF TypeOK, vars, dbVars, workerVars
<1> QED  BY <1>1, <1>2, <1>3, <1>4 DEF Next

-----------------------------------------------------------------------------
(* Who has which job.  OneHolder alone is not inductive: a row may only     *)
(* become "in_progress" for a worker that has its lock, that lock excludes  *)
(* every other worker, and the snapshot it was chosen from held due rows.   *)

Working == {"claiming", "executing", "finalizing", "committing"}

ClaimedRows ==
    /\ \A w \in Workers : \A j \in DOMAIN snapshot[w] :
          snapshot[w][j].status \in Claimable /\ snapshot[w][j].nextRunAt <= now
    /\ \A w \in Workers :
          phase[w] = "claiming" => /\ jobs[claim[w].id].status \in Claimable
                                   /\ jobs[claim[w].id].nextRunAt <= now
    /\ \A w \in Workers :
          phase[w] \in Holding => jobs[claim[w].id].status = "in_progress"
    /\ \A w \in Workers :
          phase[w] \in Working => claim[w].retryCount = jobs[claim[w].id].retryCount
    /\ \A v, w \in Workers :
          (phase[v] \in Working /\ phase[w] \in Working /\ claim[v].id = claim[w].id)
              => v = w

LEMMA ClaimsInit == Init => ClaimedRows
BY DEF Init, ClaimedRows, Working, Holding, EmptySnapshot

(* However a worker lets go of its job, it may have written that job's row  *)
(* and no other.                                                            *)
LEMMA ClaimsLeave ==
    ASSUME TypeOK, ClaimsKnown, ClaimedRows, NEW w \in Workers,
           NEW ph \in {"down", "idle", "polling"},
           phase' = [phase EXCEPT ![w] = ph], Forget(w), now' = now,
           \A j \in Jobs : jobs'[j] # jobs[j] => phase[w] \in Working /\ j = claim[w].id
    PROVE  ClaimsKnown' /\ ClaimedRows'
<1>1. /\ phase'[w] = ph
      /\ DOMAIN snapshot'[w] = {}
      /\ \A v \in Workers : v # w => /\ phase'[v] = phase[v]
                                     /\ claim'[v] = claim[v]
                                     /\ result'[v] = result[v]
                                     /\ snapshot'[v] = snapshot[v]
  BY DEF TypeOK, Forget, EmptySnapshot
<1>2. ClaimsKnown'
  BY <1>1 DEF ClaimsKnown
<1>3. \A v \in Workers : (v # w /\ phase[v] \in Working)
          => claim[v].id \in Jobs /\ jobs'[claim[v].id] = jobs[claim[v].id]
  BY DEF ClaimsKnown, ClaimedRows, Working
<1>4. ClaimedRows'
  BY <1>1, <1>3 DEF ClaimedRows, Working, Holding
<1> QED  BY <1>2, <1>4

LEMMA ClaimsProcess ==
    ASSUME TypeOK, ClaimsKnown, ClaimedRows, NEW w \in Workers, Process(w)
    PROVE  ClaimsKnown' /\ ClaimedRows'
<1>1. CASE Start(w)
  BY <1>1 DEF Start, TypeOK, ClaimsKnown, ClaimedRows, Working, Holding, dbVars
<1>2. CASE Poll(w)
  BY <1>2 DEF Poll, TypeOK, ClaimsKnown, ClaimedRows, Working, Holding, dbVars
<1>3. CASE LeaveLoop(w)
  BY <1>3, ClaimsLeave DEF LeaveLoop, EndTick, dbVars
<1>4. CASE Stop(w)
  BY <1>4 DEF Stop, ClaimsKnown, ClaimedRows, Working, Holding, dbVars
<1>5. CASE Exit(w)
  BY <1>5 DEF Exit, TypeOK, ClaimsKnown, ClaimedRows, Working, Holding, dbVars
<1>6. CASE Die(w)
  BY <1>6, ClaimsLeave DEF Die, dbVars
<1> QED  BY <1>1, <1>2, <1>3, <1>4, <1>5, <1>6 DEF Process, KillBySignal, Crash

LEMMA ClaimsClaimStep ==
    ASSUME TypeOK, ClaimsKnown, ClaimedRows, NEW w \in Workers, ClaimStep(w)
    PROVE  ClaimsKnown' /\ ClaimedRows'
<1>1. CASE BeginClaim(w)
  BY <1>1 DEF BeginClaim, Eligible, TypeOK, ClaimsKnown, ClaimedRows, Working, Holding, dbVars
<1>2. ASSUME NEW j \in Jobs, LockJob(w, j)
      PROVE  ClaimsKnown' /\ ClaimedRows'
  <2>1. /\ jobs[j].status \in Claimable /\ jobs[j].nextRunAt <= now
        /\ \A v \in Workers : phase[v] \in Working => claim[v].id # j
    BY <1>2 DEF LockJob, SelectableFirst, RowLocked, ClaimedRows, Working, Holding, Claimable
  <2>2. /\ phase'[w] = "claiming"
        /\ claim'[w].id = j /\ claim'[w].retryCount = jobs[j].retryCount
        /\ \A v \in Workers : v # w => phase'[v] = phase[v] /\ claim'[v] = claim[v]
        /\ UNCHANGED <<snapshot, result, jobs, now>>
    BY <1>2 DEF LockJob, TypeOK, dbVars
  <2> QED  BY <2>1, <2>2 DEF ClaimsKnown, ClaimedRows, Working, Holding
<1>3. ASSUME NEW j \in Jobs, SerializationFailure(w, j)
      PROVE  ClaimsKnown' /\ ClaimedRows'
  BY <1>3, ClaimsLeave DEF SerializationFailure, EndTick, dbVars
<1>4. CASE NoJobFound(w)
  BY <1>4, ClaimsLeave DEF NoJobFound, EndTick, dbVars
<1>5. CASE CommitClaim(w)
  <2>1. claim[w].id \in Jobs
    BY <1>5 DEF CommitClaim, ClaimsKnown
  <2>2. /\ phase'[w] = "executing"
        /\ \A v \in Workers : v # w => phase'[v] = phase[v]
        /\ jobs'[claim[w].id].status = "in_progress"
        /\ jobs'[claim[w].id].retryCount = jobs[claim[w].id].retryCount
        /\ \A k \in Jobs : k # claim[w].id => jobs'[k] = jobs[k]
        /\ DOMAIN snapshot'[w] = {}
        /\ \A v \in Workers : v # w => snapshot'[v] = snapshot[v]
        /\ UNCHANGED <<claim, result, now>>
    BY <1>5, <2>1 DEF CommitClaim, MarkInProgress, EmptySnapshot, TypeOK, Row
  <2> QED  BY <1>5, <2>1, <2>2 DEF CommitClaim, ClaimsKnown, ClaimedRows, Working, Holding
<1>6. CASE LoseClaimReply(w)
  BY <1>6, ClaimsLeave DEF LoseClaimReply, MarkInProgress, EndTick, Working, TypeOK
<1>7. CASE DatabaseError(w)
  BY <1>7, ClaimsLeave DEF DatabaseError, EndTick, dbVars
<1> QED  BY <1>1, <1>2, <1>3, <1>4, <1>5, <1>6, <1>7 DEF ClaimStep

LEMMA ClaimsJobStep ==
    ASSUME TypeOK, ClaimsKnown, ClaimedRows, NEW w \in Workers, JobStep(w)
    PROVE  ClaimsKnown' /\ ClaimedRows'
<1>1. ASSUME NEW outcome \in Returned, Execute(w, outcome)
      PROVE  ClaimsKnown' /\ ClaimedRows'
  BY <1>1, QueueAssumption
  DEF Execute, TypeOK, ClaimsKnown, ClaimedRows, Working, Holding, Outcomes, dbVars
<1>2. CASE BeginFinalize(w)
  <2>1. /\ phase[w] = "finalizing" /\ phase'[w] = "committing"
        /\ \A v \in Workers : v # w => phase'[v] = phase[v]
        /\ \A v \in Workers : result'[v].outcome = result[v].outcome
        /\ UNCHANGED <<jobs, claim, snapshot, now>>
    BY <1>2 DEF BeginFinalize, TypeOK, Results, dbVars
  <2> QED  BY <2>1 DEF ClaimsKnown, ClaimedRows, Working, Holding
<1>3. CASE FinalizeSuccess(w)
  <2>1. phase[w] \in Working /\ \A j \in Jobs : jobs'[j] # jobs[j] => j = claim[w].id
    BY <1>3 DEF FinalizeSuccess, Working, TypeOK
  <2> QED  BY <1>3, <2>1, ClaimsLeave DEF FinalizeSuccess, NextRound
<1>4. ASSUME NEW draw \in 0 .. Draws - 1, FinalizeFailure(w, draw)
      PROVE  ClaimsKnown' /\ ClaimedRows'
  <2>1. phase[w] \in Working /\ \A j \in Jobs : jobs'[j] # jobs[j] => j = claim[w].id
    BY <1>4 DEF FinalizeFailure, Working, TypeOK
  <2> QED  BY <1>4, <2>1, ClaimsLeave DEF FinalizeFailure, NextRound
<1> QED  BY <1>1, <1>2, <1>3, <1>4 DEF JobStep

LEMMA ClaimsNext ==
    ASSUME TypeOK, ClaimsKnown, ClaimedRows, [Next]_vars
    PROVE  ClaimsKnown' /\ ClaimedRows'
<1>1. CASE Tick
  BY <1>1 DEF Tick, TypeOK, Row, ClaimsKnown, ClaimedRows, Working, Holding, dbVars, workerVars
<1>2. ASSUME NEW j \in Jobs, Enqueue(j)
      PROVE  ClaimsKnown' /\ ClaimedRows'
  <2>1. \A k \in Jobs : k # j => jobs'[k] = jobs[k]
    BY <1>2 DEF Enqueue, TypeOK
  <2>2. \A v \in Workers : phase[v] \in Working => claim[v].id \in Jobs /\ claim[v].id # j
    BY <1>2 DEF Enqueue, ClaimsKnown, ClaimedRows, Working, Holding, Claimable
  <2>3. UNCHANGED <<phase, claim, result, snapshot, now>>
    BY <1>2 DEF Enqueue, workerVars
  <2> QED  BY <2>1, <2>2, <2>3 DEF ClaimsKnown, ClaimedRows, Working, Holding
<1>3. ASSUME NEW w \in Workers, WorkerStep(w)
      PROVE  ClaimsKnown' /\ ClaimedRows'
  BY <1>3, ClaimsProcess, ClaimsClaimStep, ClaimsJobStep DEF WorkerStep
<1>4. CASE UNCHANGED vars
  BY <1>4 DEF vars, dbVars, workerVars, ClaimsKnown, ClaimedRows, Working, Holding
<1> QED  BY <1>1, <1>2, <1>3, <1>4 DEF Next

-----------------------------------------------------------------------------
(* The first three invariants are inductive together. *)

HolderInv == TypeOK /\ ClaimsKnown /\ ClaimedRows

LEMMA HolderInvariant == Spec => []HolderInv
<1>1. Init => HolderInv
  BY TypesInit, ClaimsInit DEF HolderInv
<1>2. HolderInv /\ [Next]_vars => HolderInv'
  BY TypesNext, ClaimsNext DEF HolderInv
<1> QED  BY <1>1, <1>2, PTL DEF Spec

(* Every row stays in its column types and every worker in its phases, in   *)
(* every behaviour of the queue.                                            *)
THEOREM TypeCorrect == Spec => []TypeOK
<1>1. HolderInv => TypeOK
  BY DEF HolderInv
<1> QED  BY <1>1, HolderInvariant, PTL

(* No two workers ever have the same job, and the row of a job that a       *)
(* worker has says "in_progress": for any number of workers and jobs, and   *)
(* with crashes, signals, rollbacks and lost replies at any point.          *)
THEOREM OneHolderCorrect == Spec => []OneHolder
<1>1. HolderInv => OneHolder
  BY DEF HolderInv, ClaimedRows, OneHolder, Holds, Working, Holding
<1> QED  BY <1>1, HolderInvariant, PTL

(* What a worker may do to a row: take it when it is claimable, and record  *)
(* the end of an attempt of a row that is in progress.                      *)
LEMMA RowSteps ==
    ASSUME HolderInv, NEW w \in Workers, WorkerStep(w), NEW j \in Jobs
    PROVE  \/ jobs'[j] = jobs[j]
           \/ jobs[j].status \in Claimable /\ jobs'[j].status = "in_progress"
           \/ /\ jobs[j].status = "in_progress"
              /\ jobs'[j].status \in {"completed", "failed", "retrying"}
<1> USE DEF HolderInv, TypeOK
<1>1. CASE CommitClaim(w) \/ LoseClaimReply(w)
  <2>1. jobs[claim[w].id].status \in Claimable /\ MarkInProgress(claim[w].id)
    BY <1>1 DEF CommitClaim, LoseClaimReply, ClaimedRows
  <2> QED  BY <2>1 DEF MarkInProgress, Row
<1>2. CASE FinalizeSuccess(w)
  <2>1. jobs[claim[w].id].status = "in_progress"
    BY <1>2 DEF FinalizeSuccess, ClaimedRows, Holding
  <2> QED  BY <1>2, <2>1 DEF FinalizeSuccess, Row
<1>3. CASE \E draw \in 0 .. Draws - 1 : FinalizeFailure(w, draw)
  <2>1. jobs[claim[w].id].status = "in_progress"
    BY <1>3 DEF FinalizeFailure, ClaimedRows, Holding
  <2> QED  BY <1>3, <2>1 DEF FinalizeFailure
<1>4. CASE Process(w)
  BY <1>4 DEF Process, Start, Poll, LeaveLoop, Stop, Exit, KillBySignal, Crash, Die, dbVars
<1>5. ASSUME ClaimStep(w), ~CommitClaim(w), ~LoseClaimReply(w)
      PROVE  jobs' = jobs
  BY <1>5 DEF ClaimStep, BeginClaim, LockJob, SerializationFailure, NoJobFound,
              DatabaseError, dbVars
<1>6. CASE BeginFinalize(w) \/ \E o \in Returned : Execute(w, o)
  BY <1>6 DEF BeginFinalize, Execute, dbVars
<1> QED  BY <1>1, <1>2, <1>3, <1>4, <1>5, <1>6 DEF WorkerStep, JobStep

(* The claim's snapshot may be old, but a row never becomes "in_progress"   *)
(* before its next_run_at.                                                  *)
THEOREM RetriesWait == Spec => RetriesWaitForTheirTime
<1> DEFINE DueWhenTaken ==
        \A j \in Jobs :
            (jobs[j].status \in Claimable /\ jobs'[j].status = "in_progress")
                => jobs[j].nextRunAt <= now
<1>1. HolderInv /\ [Next]_vars => DueWhenTaken
  <2> SUFFICES ASSUME HolderInv, [Next]_vars, NEW j \in Jobs,
                      jobs[j].status \in Claimable, jobs'[j].status = "in_progress"
               PROVE  jobs[j].nextRunAt <= now
    OBVIOUS
  <2>1. jobs'[j] # jobs[j]
    BY DEF Claimable
  <2>2. PICK w \in Workers : WorkerStep(w)
    <3>1. ~UNCHANGED vars /\ ~Tick
      BY <2>1 DEF vars, dbVars, Tick
    <3>2. \A k \in Jobs : ~Enqueue(k)
      BY <2>1 DEF Enqueue, HolderInv, TypeOK, Row, Claimable
    <3> QED  BY <3>1, <3>2 DEF Next
  <2>3. ~Process(w)
    BY <2>1 DEF Process, Start, Poll, LeaveLoop, Stop, Exit, KillBySignal, Crash, Die, dbVars
  <2>4. ~JobStep(w)
    <3>1. \A outcome : ~Execute(w, outcome)
      BY <2>1 DEF Execute, dbVars
    <3>2. ~BeginFinalize(w)
      BY <2>1 DEF BeginFinalize, dbVars
    <3>3. ~FinalizeSuccess(w)
      BY <2>1 DEF FinalizeSuccess, HolderInv, TypeOK, Row
    <3>4. \A draw : ~FinalizeFailure(w, draw)
      BY <2>1 DEF FinalizeFailure, HolderInv, TypeOK
    <3> QED  BY <3>1, <3>2, <3>3, <3>4 DEF JobStep
  <2>5. phase[w] = "claiming" /\ MarkInProgress(claim[w].id)
    BY <2>1, <2>2, <2>3, <2>4
    DEF WorkerStep, ClaimStep, BeginClaim, LockJob, SerializationFailure, NoJobFound,
        CommitClaim, LoseClaimReply, DatabaseError, dbVars
  <2>6. j = claim[w].id
    BY <2>1, <2>5 DEF MarkInProgress, HolderInv, TypeOK
  <2> QED  BY <2>5, <2>6 DEF HolderInv, ClaimedRows
<1> QED  BY <1>1, HolderInvariant, PTL DEF Spec, RetriesWaitForTheirTime

-----------------------------------------------------------------------------
(* The attempt log.  Only a finalizer changes it, together with the row of  *)
(* a job that is "in_progress" and whose retry_count is still the one the   *)
(* claim returned: that is what ClaimedRows adds to AttemptsAccounted.      *)

NewRowsUntried == \A j \in Jobs : jobs[j].status = "absent" => jobs[j].retryCount = 0

AttemptInv == HolderInv /\ AttemptsAccounted /\ NewRowsUntried

LEMMA AttemptsInit == Init => AttemptsAccounted /\ NewRowsUntried
BY QueueAssumption DEF Init, AttemptsAccounted, NewRowsUntried, Outcomes

(* A step that writes no log leaves the accounts alone if it moves no job   *)
(* into or out of "completed" and "failed".                                 *)
LEMMA AttemptsUnlogged ==
    ASSUME AttemptsAccounted, NewRowsUntried, logs' = logs,
           \A j \in Jobs : \/ jobs'[j] = jobs[j]
                           \/ /\ jobs[j].status \notin {"completed", "failed"}
                              /\ jobs'[j].status \in {"pending", "in_progress"}
                              /\ jobs'[j].retryCount = jobs[j].retryCount
    PROVE  AttemptsAccounted' /\ NewRowsUntried'
BY DEF AttemptsAccounted, NewRowsUntried

LEMMA AttemptsMarked ==
    ASSUME HolderInv, AttemptsAccounted, NewRowsUntried, NEW w \in Workers,
           phase[w] = "claiming", MarkInProgress(claim[w].id), logs' = logs
    PROVE  AttemptsAccounted' /\ NewRowsUntried'
<1>1. claim[w].id \in Jobs /\ jobs[claim[w].id].status \in Claimable
  BY DEF HolderInv, ClaimsKnown, ClaimedRows
<1>2. /\ \A j \in Jobs : j # claim[w].id => jobs'[j] = jobs[j]
      /\ jobs'[claim[w].id].status = "in_progress"
      /\ jobs'[claim[w].id].retryCount = jobs[claim[w].id].retryCount
  BY <1>1 DEF MarkInProgress, HolderInv, TypeOK, Row
<1> QED  BY <1>1, <1>2, AttemptsUnlogged DEF Claimable

LEMMA AttemptsFinalized ==
    ASSUME HolderInv, AttemptsAccounted, NewRowsUntried, NEW w \in Workers,
           \/ FinalizeSuccess(w)
           \/ \E draw \in 0 .. Draws - 1 : FinalizeFailure(w, draw)
    PROVE  AttemptsAccounted' /\ NewRowsUntried'
<1> DEFINE j == claim[w].id
           o == result[w].outcome
<1>1. j \in Jobs /\ o \in Outcomes /\ phase[w] = "committing"
  BY DEF HolderInv, ClaimsKnown, FinalizeSuccess, FinalizeFailure
<1>2. /\ jobs[j].status = "in_progress"
      /\ claim[w].retryCount = jobs[j].retryCount
      /\ jobs[j] \in Row
  BY <1>1 DEF HolderInv, ClaimedRows, Holding, Working, TypeOK
<1>3. /\ \A k \in Jobs : k # j => logs'[k] = logs[k] /\ jobs'[k] = jobs[k]
      /\ logs'[j][o] = logs[j][o] + 1
      /\ \A x \in Outcomes : x # o => logs'[j][x] = logs[j][x]
  <2>1. AddLog(w) /\ logs[j] \in [Outcomes -> Nat]
    BY <1>1 DEF FinalizeSuccess, FinalizeFailure, HolderInv, TypeOK
  <2>2. \A k \in Jobs : k # j => jobs'[k] = jobs[k]
    BY DEF FinalizeSuccess, FinalizeFailure, HolderInv, TypeOK
  <2>3. logs' = [logs EXCEPT ![j] = [logs[j] EXCEPT ![o] = logs[j][o] + 1]]
    BY <2>1 DEF AddLog
  <2> HIDE DEF j, o
  <2> QED  BY <1>1, <2>1, <2>2, <2>3 DEF HolderInv, TypeOK
<1>4. \A x \in Outcomes : logs[j][x] \in Nat
  BY <1>1 DEF HolderInv, TypeOK
<1>5. /\ logs[j]["failure"] = jobs[j].retryCount
      /\ logs[j]["success"] = 0 /\ logs[j]["partial"] = 0
      /\ ~(jobs[j].retryCount >= MaxRetries)
  BY <1>1, <1>2, <1>4 DEF AttemptsAccounted, Outcomes
<1>6. CASE FinalizeSuccess(w)
  <2>1. /\ jobs'[j].status = "completed" /\ jobs'[j].retryCount = jobs[j].retryCount
        /\ o \in {"success", "partial"}
    BY <1>1, <1>2, <1>6 DEF FinalizeSuccess, HolderInv, TypeOK, Row, Outcomes
  <2> HIDE DEF j, o
  <2> QED  BY <1>1, <1>3, <1>4, <1>5, <2>1 DEF AttemptsAccounted, NewRowsUntried, Outcomes
<1>7. CASE \E draw \in 0 .. Draws - 1 : FinalizeFailure(w, draw)
  <2>1. /\ o = "failure"
        /\ jobs'[j].retryCount = jobs[j].retryCount + 1
        /\ jobs'[j].status = IF jobs[j].retryCount + 1 >= MaxRetries THEN "failed" ELSE "retrying"
    BY <1>1, <1>2, <1>7 DEF FinalizeFailure, ReachedMax, HolderInv, TypeOK
  <2> HIDE DEF j, o
  <2> QED  BY <1>1, <1>3, <1>4, <1>5, <2>1 DEF AttemptsAccounted, NewRowsUntried, Outcomes
<1> QED  BY <1>6, <1>7

LEMMA AttemptsNext ==
    ASSUME HolderInv, AttemptsAccounted, NewRowsUntried, [Next]_vars
    PROVE  AttemptsAccounted' /\ NewRowsUntried'
<1>1. CASE UNCHANGED <<jobs, logs>>
  BY <1>1 DEF AttemptsAccounted, NewRowsUntried
<1>2. ASSUME NEW j \in Jobs, Enqueue(j)
      PROVE  AttemptsAccounted' /\ NewRowsUntried'
  <2>1. /\ jobs'[j].status = "pending" /\ jobs'[j].retryCount = jobs[j].retryCount
        /\ \A k \in Jobs : k # j => jobs'[k] = jobs[k]
    BY <1>2 DEF Enqueue, NewRowsUntried, HolderInv, TypeOK
  <2> QED  BY <1>2, <2>1, AttemptsUnlogged DEF Enqueue
<1>3. ASSUME NEW w \in Workers, CommitClaim(w) \/ LoseClaimReply(w)
      PROVE  AttemptsAccounted' /\ NewRowsUntried'
  BY <1>3, AttemptsMarked DEF CommitClaim, LoseClaimReply
<1>4. ASSUME NEW w \in Workers,
             \/ FinalizeSuccess(w)
             \/ \E draw \in 0 .. Draws - 1 : FinalizeFailure(w, draw)
      PROVE  AttemptsAccounted' /\ NewRowsUntried'
  BY <1>4, AttemptsFinalized
<1>5. ASSUME NEW w \in Workers, Process(w)
      PROVE  UNCHANGED <<jobs, logs>>
  BY <1>5 DEF Process, Start, Poll, LeaveLoop, Stop, Exit, KillBySignal, Crash, Die, dbVars
<1>6. ASSUME NEW w \in Workers, ClaimStep(w), ~CommitClaim(w), ~LoseClaimReply(w)
      PROVE  UNCHANGED <<jobs, logs>>
  BY <1>6 DEF ClaimStep, BeginClaim, LockJob, SerializationFailure, NoJobFound,
              DatabaseError, dbVars
<1>7. ASSUME NEW w \in Workers, BeginFinalize(w) \/ \E o \in Returned : Execute(w, o)
      PROVE  UNCHANGED <<jobs, logs>>
  BY <1>7 DEF BeginFinalize, Execute, dbVars
<1>8. Tick \/ UNCHANGED vars => UNCHANGED <<jobs, logs>>
  BY DEF Tick, vars, dbVars
<1> QED  BY <1>1, <1>2, <1>3, <1>4, <1>5, <1>6, <1>7, <1>8
         DEF Next, WorkerStep, JobStep

LEMMA AttemptInvariant == Spec => []AttemptInv
<1>1. Init => AttemptInv
  BY TypesInit, ClaimsInit, AttemptsInit DEF AttemptInv, HolderInv
<1>2. AttemptInv /\ [Next]_vars => AttemptInv'
  BY TypesNext, ClaimsNext, AttemptsNext DEF AttemptInv, HolderInv
<1> QED  BY <1>1, <1>2, PTL DEF Spec

(* Each attempt is logged once and counted once, a completed job has one    *)
(* successful attempt, and a job fails for good after exactly MaxRetries    *)
(* failed attempts: no interleaving, crash or rollback loses or repeats a   *)
(* count.                                                                   *)
THEOREM AttemptsCorrect == Spec => []AttemptsAccounted
<1>1. AttemptInv => AttemptsAccounted
  BY DEF AttemptInv
<1> QED  BY <1>1, AttemptInvariant, PTL

-----------------------------------------------------------------------------
(* The circuit breaker: what holds of connector_failure_stats and of the    *)
(* alerts for every number of workers that finalize jobs of the same pair.  *)

(* What a finalizer has read stays true under the row's lock.  A finalizer  *)
(* with no row to lock has read nothing that it will write back.            *)
StatsRead ==
    /\ \A p \in Pairs : ~stats[p].exists => stats[p] = NoStat
    /\ \A w \in Workers : LocksStat(w) => result[w].stat = stats[PairOf[claim[w].id]]
    /\ \A v, w \in Workers :
          (LocksStat(v) /\ LocksStat(w) /\ PairOf[claim[v].id] = PairOf[claim[w].id])
              => v = w

BreakerParts == StatsRead /\ BreakerConsistent /\ NoFailureUncounted

BreakerInv == HolderInv /\ BreakerParts

LEMMA BreakerInit == Init => BreakerParts
BY QueueAssumption
DEF Init, BreakerParts, StatsRead, LocksStat, NoStat, NoPause, BreakerConsistent,
    NoFailureUncounted

(* A step of w that leaves w without the lock and the three tables as they  *)
(* were.                                                                    *)
LEMMA BreakerUntouched ==
    ASSUME BreakerParts, NEW w \in Workers,
           UNCHANGED <<stats, openAlerts, streak>>,
           phase'[w] # "committing",
           \A v \in Workers : v # w => /\ phase'[v] = phase[v]
                                       /\ claim'[v] = claim[v]
                                       /\ result'[v] = result[v]
    PROVE  BreakerParts'
BY DEF BreakerParts, StatsRead, LocksStat, BreakerConsistent, NoFailureUncounted

LEMMA BreakerProcess ==
    ASSUME HolderInv, BreakerParts, NEW w \in Workers, Process(w)
    PROVE  BreakerParts'
<1> USE DEF HolderInv, TypeOK
<1>1. CASE Start(w)
  BY <1>1, BreakerUntouched DEF Start, dbVars
<1>2. CASE Poll(w)
  BY <1>2, BreakerUntouched DEF Poll, dbVars
<1>3. CASE LeaveLoop(w)
  BY <1>3, BreakerUntouched DEF LeaveLoop, EndTick, Forget, dbVars
<1>4. CASE Stop(w)
  BY <1>4 DEF Stop, dbVars, BreakerParts, StatsRead, LocksStat, BreakerConsistent,
              NoFailureUncounted
<1>5. CASE Exit(w)
  BY <1>5, BreakerUntouched DEF Exit, dbVars
<1>6. CASE Die(w)
  BY <1>6, BreakerUntouched DEF Die, Forget, dbVars
<1> QED  BY <1>1, <1>2, <1>3, <1>4, <1>5, <1>6 DEF Process, KillBySignal, Crash

LEMMA BreakerClaimStep ==
    ASSUME HolderInv, BreakerParts, NEW w \in Workers, ClaimStep(w)
    PROVE  BreakerParts'
<1> USE DEF HolderInv, TypeOK
<1>1. CASE BeginClaim(w)
  BY <1>1, BreakerUntouched DEF BeginClaim, dbVars
<1>2. ASSUME NEW j \in Jobs, LockJob(w, j)
      PROVE  BreakerParts'
  BY <1>2, BreakerUntouched DEF LockJob, dbVars
<1>3. ASSUME NEW j \in Jobs, SerializationFailure(w, j)
      PROVE  BreakerParts'
  BY <1>3, BreakerUntouched DEF SerializationFailure, EndTick, Forget, dbVars
<1>4. CASE NoJobFound(w)
  BY <1>4, BreakerUntouched DEF NoJobFound, EndTick, Forget, dbVars
<1>5. CASE CommitClaim(w)
  BY <1>5, BreakerUntouched DEF CommitClaim
<1>6. CASE LoseClaimReply(w)
  BY <1>6, BreakerUntouched DEF LoseClaimReply, EndTick, Forget
<1>7. CASE DatabaseError(w)
  BY <1>7, BreakerUntouched DEF DatabaseError, EndTick, Forget, dbVars
<1> QED  BY <1>1, <1>2, <1>3, <1>4, <1>5, <1>6, <1>7 DEF ClaimStep

LEMMA BreakerBegins ==
    ASSUME HolderInv, BreakerParts, NEW w \in Workers, BeginFinalize(w)
    PROVE  BreakerParts'
<1> DEFINE p == PairOf[claim[w].id]
<1>1. /\ p \in Pairs /\ stats[p] \in Stat
      /\ ~LocksStat(w)
  BY ClaimedPair DEF BeginFinalize, HolderInv, TypeOK, LocksStat
<1>2. /\ phase'[w] = "committing"
      /\ result'[w].stat = stats[p] /\ result'[w].outcome = result[w].outcome
      /\ \A v \in Workers : v # w => phase'[v] = phase[v] /\ result'[v] = result[v]
      /\ UNCHANGED <<stats, openAlerts, streak, claim>>
  BY DEF BeginFinalize, HolderInv, TypeOK, Results, dbVars
<1>3. \A v \in Workers : v # w => (LocksStat(v)' <=> LocksStat(v))
  BY <1>2 DEF LocksStat
<1>4. LocksStat(w)' => \A v \in Workers : LocksStat(v) => PairOf[claim[v].id] # p
  BY <1>2 DEF LocksStat, BeginFinalize, StatLocked
<1>5. StatsRead'
  BY <1>1, <1>2, <1>3, <1>4 DEF BreakerParts, StatsRead
<1> QED  BY <1>2, <1>5 DEF BreakerParts, BreakerConsistent, NoFailureUncounted

(* In the finalize transaction of a failure the lock is held, so what was   *)
(* read at its start is still what the row says.                            *)
LEMMA BreakerFailure ==
    ASSUME HolderInv, BreakerParts, NEW w \in Workers, NEW draw \in 0 .. Draws - 1,
           FinalizeFailure(w, draw)
    PROVE  BreakerParts'
<1> DEFINE p == PairOf[claim[w].id]
           newRetryCount == claim[w].retryCount + 1
           finishedAt == result[w].finishedAt
           failures == RaisedFailures(stats[p], newRetryCount)
           trips == Trips(stats[p], failures, finishedAt)
<1>1. p \in Pairs /\ LocksStat(w) /\ result[w].stat = stats[p]
  BY ClaimedPair DEF FinalizeFailure, HolderInv, BreakerParts, StatsRead, LocksStat
<1>2. /\ stats'[p] = [exists |-> TRUE,
                      consecutiveFailures |-> failures,
                      pausedUntil |-> IF trips THEN finishedAt + PauseTicks
                                      ELSE stats[p].pausedUntil]
      /\ openAlerts'[p] = IF trips THEN AlertsAfterTrip(openAlerts[p]) ELSE openAlerts[p]
      /\ streak'[p] = streak[p] + 1
      /\ \A q \in Pairs : q # p => /\ stats'[q] = stats[q]
                                   /\ openAlerts'[q] = openAlerts[q]
                                   /\ streak'[q] = streak[q]
  BY <1>1 DEF FinalizeFailure, HolderInv, TypeOK
<1>3. /\ stats[p].consecutiveFailures \in Nat /\ stats[p].pausedUntil \in Nat
      /\ openAlerts[p] \in Nat /\ streak[p] \in Nat
      /\ finishedAt \in Nat /\ newRetryCount \in Nat
  BY <1>1 DEF HolderInv, TypeOK, Stat, Results, Claims
<1>4. /\ failures \in Nat /\ failures >= stats[p].consecutiveFailures + 1
      /\ failures >= newRetryCount
  BY <1>3 DEF RaisedFailures, Larger
<1>5. /\ stats'[p].exists
      /\ stats'[p].consecutiveFailures = failures
      /\ stats'[p].pausedUntil # NoPause <=> failures >= Threshold
      /\ openAlerts'[p] <= 1
      /\ openAlerts'[p] = 1 => stats'[p].pausedUntil # NoPause
      /\ failures >= streak'[p]
  <2>1. /\ stats[p].pausedUntil # NoPause <=> stats[p].consecutiveFailures >= Threshold
        /\ openAlerts[p] <= 1
        /\ openAlerts[p] = 1 => stats[p].pausedUntil # NoPause
        /\ stats[p].consecutiveFailures >= streak[p]
    BY <1>1 DEF BreakerParts, BreakerConsistent, NoFailureUncounted
  <2> HIDE DEF p, newRetryCount, finishedAt, failures
  <2> QED  BY <1>2, <1>3, <1>4, <2>1, QueueAssumption DEF NoPause, Trips, AlertsAfterTrip
<1>6. /\ ~LocksStat(w)'
      /\ \A v \in Workers : v # w =>
            /\ LocksStat(v)' <=> LocksStat(v)
            /\ claim'[v] = claim[v] /\ result'[v] = result[v]
  BY DEF FinalizeFailure, NextRound, Forget, LocksStat, HolderInv, TypeOK
<1>7. \A v \in Workers : LocksStat(v) /\ v # w => PairOf[claim[v].id] \in Pairs \ {p}
  BY <1>1, ClaimedPair DEF HolderInv, BreakerParts, StatsRead, LocksStat
<1>8. StatsRead'
  <2>1. \A q \in Pairs : ~stats'[q].exists => stats'[q] = NoStat
    BY <1>2, <1>5 DEF BreakerParts, StatsRead
  <2>2. \A v \in Workers : LocksStat(v)' => result'[v].stat = stats'[PairOf[claim'[v].id]]
    BY <1>2, <1>6, <1>7 DEF BreakerParts, StatsRead
  <2>3. \A v, u \in Workers :
           (LocksStat(v)' /\ LocksStat(u)' /\ PairOf[claim'[v].id] = PairOf[claim'[u].id])
               => v = u
    BY <1>6 DEF BreakerParts, StatsRead
  <2> QED  BY <2>1, <2>2, <2>3 DEF StatsRead
<1> HIDE DEF failures, trips, finishedAt, newRetryCount, p
<1>9. BreakerConsistent' /\ NoFailureUncounted'
  BY <1>2, <1>5 DEF BreakerParts, BreakerConsistent, NoFailureUncounted
<1> QED  BY <1>8, <1>9 DEF BreakerParts

LEMMA BreakerSuccess ==
    ASSUME HolderInv, BreakerParts, NEW w \in Workers, FinalizeSuccess(w)
    PROVE  BreakerParts'
<1> DEFINE p == PairOf[claim[w].id]
<1>1. p \in Pairs /\ stats[p] \in Stat
  BY ClaimedPair DEF FinalizeSuccess, HolderInv, TypeOK
<1>2. /\ openAlerts'[p] = 0 /\ streak'[p] = 0
      /\ \A q \in Pairs : q # p => /\ stats'[q] = stats[q]
                                   /\ openAlerts'[q] = openAlerts[q]
                                   /\ streak'[q] = streak[q]
  BY <1>1 DEF FinalizeSuccess, HolderInv, TypeOK
<1>3. \/ stats' = stats /\ ~LocksStat(w)
      \/ /\ LocksStat(w)
         /\ stats'[p] = [stats[p] EXCEPT !.consecutiveFailures = 0, !.pausedUntil = NoPause]
  BY <1>1 DEF FinalizeSuccess, LocksStat, HolderInv, TypeOK, Stat
<1>4. /\ ~LocksStat(w)'
      /\ \A v \in Workers : v # w =>
            /\ LocksStat(v)' <=> LocksStat(v)
            /\ claim'[v] = claim[v] /\ result'[v] = result[v]
  BY DEF FinalizeSuccess, NextRound, Forget, LocksStat, HolderInv, TypeOK
<1>5. \A v \in Workers : LocksStat(v) => PairOf[claim[v].id] \in Pairs
  BY ClaimedPair DEF HolderInv, LocksStat
<1>6. LocksStat(w) => stats[p].exists
  BY DEF FinalizeSuccess, LocksStat, BreakerParts, StatsRead
<1>7. StatsRead'
  <2>1. \A q \in Pairs : ~stats'[q].exists => stats'[q] = NoStat
    BY <1>1, <1>2, <1>3, <1>6 DEF BreakerParts, StatsRead, Stat
  <2>2. \A v \in Workers : LocksStat(v)' => result'[v].stat = stats'[PairOf[claim'[v].id]]
    BY <1>2, <1>3, <1>4, <1>5 DEF BreakerParts, StatsRead
  <2>3. \A v, u \in Workers :
           (LocksStat(v)' /\ LocksStat(u)' /\ PairOf[claim'[v].id] = PairOf[claim'[u].id])
               => v = u
    BY <1>4 DEF BreakerParts, StatsRead
  <2> QED  BY <2>1, <2>2, <2>3 DEF StatsRead
<1>8. BreakerConsistent' /\ NoFailureUncounted'
  <2>1. /\ stats'[p].pausedUntil # NoPause <=> stats'[p].consecutiveFailures >= Threshold
        /\ stats'[p].consecutiveFailures >= 0
    <3>1. CASE stats' = stats
      BY <1>1, <3>1 DEF BreakerParts, BreakerConsistent, Stat
    <3>2. CASE stats'[p] = [stats[p] EXCEPT !.consecutiveFailures = 0, !.pausedUntil = NoPause]
      <4>1. stats'[p].consecutiveFailures = 0 /\ stats'[p].pausedUntil = NoPause
        BY <1>1, <3>2 DEF Stat
      <4> QED  BY <4>1, QueueAssumption
    <3> QED  BY <1>3, <3>1, <3>2
  <2> HIDE DEF p
  <2> QED  BY <1>1, <1>2, <2>1 DEF BreakerParts, BreakerConsistent, NoFailureUncounted
<1> QED  BY <1>7, <1>8 DEF BreakerParts

LEMMA BreakerNext ==
    ASSUME HolderInv, BreakerParts, [Next]_vars
    PROVE  BreakerParts'
<1>1. CASE UNCHANGED <<stats, openAlerts, streak, phase, claim, result>>
  BY <1>1 DEF BreakerParts, StatsRead, LocksStat, BreakerConsistent, NoFailureUncounted
<1>2. ASSUME NEW w \in Workers, NEW outcome \in Returned, Execute(w, outcome)
      PROVE  BreakerParts'
  BY <1>2, BreakerUntouched DEF Execute, dbVars, HolderInv, TypeOK
<1>3. ASSUME NEW w \in Workers, JobStep(w)
      PROVE  BreakerParts'
  BY <1>2, <1>3, BreakerBegins, BreakerSuccess, BreakerFailure DEF JobStep
<1>4. ASSUME Tick \/ (\E j \in Jobs : Enqueue(j)) \/ UNCHANGED vars
      PROVE  UNCHANGED <<stats, openAlerts, streak, phase, claim, result>>
  BY <1>4 DEF Tick, Enqueue, vars, dbVars, workerVars
<1> QED  BY <1>1, <1>3, <1>4, BreakerProcess, BreakerClaimStep DEF Next, WorkerStep

LEMMA BreakerInvariant == Spec => []BreakerInv
<1>1. Init => BreakerInv
  BY TypesInit, ClaimsInit, BreakerInit DEF BreakerInv, HolderInv
<1>2. BreakerInv /\ [Next]_vars => BreakerInv'
  BY TypesNext, ClaimsNext, BreakerNext DEF BreakerInv, HolderInv
<1> QED  BY <1>1, <1>2, PTL DEF Spec

(* A pair is paused exactly when its count has reached the threshold, and   *)
(* it never has two open alerts, nor one without a pause, whatever the      *)
(* order in which workers finalize its jobs.                                *)
THEOREM BreakerCorrect == Spec => []BreakerConsistent
<1>1. BreakerInv => BreakerConsistent
  BY DEF BreakerInv, BreakerParts
<1> QED  BY <1>1, BreakerInvariant, PTL

(* Concurrent finalizers of a pair lose no failure.                         *)
THEOREM FailuresCounted == Spec => []NoFailureUncounted
<1>1. BreakerInv => NoFailureUncounted
  BY DEF BreakerInv, BreakerParts
<1> QED  BY <1>1, BreakerInvariant, PTL

(* Only a failed attempt takes a job that is in progress to "failed", or    *)
(* puts it back.                                                            *)
LEMMA AttemptFails ==
    ASSUME HolderInv, [Next]_vars, NEW j \in Jobs,
           jobs[j].status = "in_progress", jobs'[j].status \in {"failed", "retrying"}
    PROVE  \E w \in Workers : \E draw \in 0 .. Draws - 1 : FinalizeFailure(w, draw)
<1>1. jobs'[j] # jobs[j]
  OBVIOUS
<1>2. PICK w \in Workers : WorkerStep(w)
  <2>1. ~UNCHANGED vars /\ ~Tick
    BY <1>1 DEF vars, dbVars, Tick
  <2>2. \A k \in Jobs : ~Enqueue(k)
    BY <1>1 DEF Enqueue, HolderInv, TypeOK
  <2> QED  BY <2>1, <2>2 DEF Next
<1>3. ~Process(w)
  BY <1>1 DEF Process, Start, Poll, LeaveLoop, Stop, Exit, KillBySignal, Crash, Die, dbVars
<1>4. ~ClaimStep(w)
  <2>1. ~MarkInProgress(claim[w].id)
    BY <1>1 DEF MarkInProgress, HolderInv, TypeOK, Row
  <2> QED  BY <1>1, <2>1
           DEF ClaimStep, BeginClaim, LockJob, SerializationFailure, NoJobFound,
               CommitClaim, LoseClaimReply, DatabaseError, dbVars
<1>5. /\ ~BeginFinalize(w)
      /\ \A outcome : ~Execute(w, outcome)
  BY <1>1 DEF BeginFinalize, Execute, dbVars
<1>6. ~FinalizeSuccess(w)
  BY <1>1 DEF FinalizeSuccess, HolderInv, TypeOK, Row
<1> QED  BY <1>2, <1>3, <1>4, <1>5, <1>6 DEF WorkerStep, JobStep

(* The worker whose transaction writes a job's row is the one that has it.  *)
LEMMA HoldersDiffer ==
    ASSUME HolderInv, NEW v \in Workers, NEW w \in Workers, NEW j \in Jobs,
           Holds(w, j), phase[v] \in Holding, claim[v].id = j
    PROVE  v = w
BY DEF HolderInv, ClaimedRows, Working, Holding, Holds

(* A job that is given up leaves its pair paused beyond the moment of its   *)
(* last failure, provided that jobs have no fewer retries than the breaker  *)
(* has failures to wait for: the job's own count then reaches the           *)
(* threshold, whatever other jobs of the pair did meanwhile.                *)
THEOREM ExhaustionPauses ==
    ASSUME MaxRetries >= Threshold
    PROVE  Spec => ExhaustedJobPausesPair
<1> DEFINE PausedWhenGivenUp ==
        \A w \in Workers, j \in Jobs :
            (Holds(w, j) /\ jobs[j].status = "in_progress" /\ jobs'[j].status = "failed")
                => stats'[PairOf[j]].pausedUntil > result[w].finishedAt
<1>1. ASSUME BreakerInv, NEW w \in Workers, NEW draw \in 0 .. Draws - 1,
             FinalizeFailure(w, draw), claim[w].retryCount + 1 >= MaxRetries
      PROVE  stats'[PairOf[claim[w].id]].pausedUntil > result[w].finishedAt
  <2> DEFINE p == PairOf[claim[w].id]
             stat == result[w].stat
             finishedAt == result[w].finishedAt
             newRetryCount == claim[w].retryCount + 1
             failures == RaisedFailures(stat, newRetryCount)
             trips == Trips(stat, failures, finishedAt)
  <2>1. p \in Pairs /\ stats'[p].pausedUntil = IF trips THEN finishedAt + PauseTicks
                                               ELSE stat.pausedUntil
    BY <1>1, ClaimedPair DEF FinalizeFailure, BreakerInv, HolderInv, TypeOK
  <2>2. /\ stat.consecutiveFailures \in Nat /\ stat.pausedUntil \in Nat
        /\ finishedAt \in Nat /\ newRetryCount \in Nat
    BY <1>1 DEF BreakerInv, HolderInv, TypeOK, Results, Stat, Claims
  <2>3. failures \in Nat /\ failures >= newRetryCount
    BY <2>2 DEF RaisedFailures, Larger
  <2> HIDE DEF p, stat, finishedAt, failures
  <2>4. newRetryCount >= Threshold
    BY <1>1, <2>2, QueueAssumption
  <2> HIDE DEF newRetryCount
  <2>5. stats'[p].pausedUntil > finishedAt
    BY <2>1, <2>2, <2>3, <2>4, QueueAssumption DEF Trips, NoPause
  <2> QED  BY <2>5 DEF p, finishedAt
<1>2. BreakerInv /\ [Next]_vars => PausedWhenGivenUp
  <2> SUFFICES ASSUME BreakerInv, [Next]_vars, NEW w \in Workers, NEW j \in Jobs,
                      Holds(w, j),
                      jobs[j].status = "in_progress", jobs'[j].status = "failed"
               PROVE  stats'[PairOf[j]].pausedUntil > result[w].finishedAt
    OBVIOUS
  <2>1. PICK v \in Workers, draw \in 0 .. Draws - 1 : FinalizeFailure(v, draw)
    BY AttemptFails DEF BreakerInv
  <2>2. \A k \in Jobs : k # claim[v].id => jobs'[k] = jobs[k]
    BY <2>1 DEF FinalizeFailure, BreakerInv, HolderInv, TypeOK
  <2>3. claim[v].id = j /\ phase[v] \in Holding
    BY <2>1, <2>2 DEF FinalizeFailure, Holding
  <2>4. v = w
    BY <2>3, HoldersDiffer DEF BreakerInv
  <2>5. jobs'[j].status = IF claim[v].retryCount + 1 >= MaxRetries THEN "failed" ELSE "retrying"
    BY <2>1, <2>3 DEF FinalizeFailure, ReachedMax, BreakerInv, HolderInv, TypeOK
  <2>6. claim[v].retryCount + 1 >= MaxRetries
    BY <2>5
  <2> QED  BY <1>1, <2>1, <2>3, <2>4, <2>6
<1> QED  BY <1>2, BreakerInvariant, PTL DEF Spec, ExhaustedJobPausesPair

-----------------------------------------------------------------------------
(* What PauseHasOpenAlert lacks.  The run breaker_alert refutes it; these   *)
(* theorems say that one kind of step alone is to blame.                    *)

AlertShown(p) == stats[p].pausedUntil # NoPause => openAlerts[p] = 1

(* A success whose updateMany finds no statistics row, while there is one   *)
(* by the time it acknowledges the pair's alerts.                           *)
BlindSuccess(w) ==
    /\ FinalizeSuccess(w)
    /\ ~result[w].stat.exists
    /\ stats[PairOf[claim[w].id]].exists

(* Of a pair, alert and statistics are only written by its finalizers.      *)
LEMMA AlertsWritten ==
    ASSUME [Next]_vars
    PROVE  \/ UNCHANGED <<stats, openAlerts>>
           \/ \E w \in Workers : \/ FinalizeSuccess(w)
                                 \/ \E draw \in 0 .. Draws - 1 : FinalizeFailure(w, draw)
<1>1. Tick \/ (\E j \in Jobs : Enqueue(j)) \/ UNCHANGED vars
          => UNCHANGED <<stats, openAlerts>>
  BY DEF Tick, Enqueue, vars, dbVars
<1>2. ASSUME NEW w \in Workers, Process(w)
      PROVE  UNCHANGED <<stats, openAlerts>>
  BY <1>2 DEF Process, Start, Poll, LeaveLoop, Stop, Exit, KillBySignal, Crash, Die, dbVars
<1>3. ASSUME NEW w \in Workers, ClaimStep(w)
      PROVE  UNCHANGED <<stats, openAlerts>>
  BY <1>3 DEF ClaimStep, BeginClaim, LockJob, SerializationFailure, NoJobFound, CommitClaim,
              LoseClaimReply, DatabaseError, dbVars
<1>4. ASSUME NEW w \in Workers, BeginFinalize(w) \/ \E o \in Returned : Execute(w, o)
      PROVE  UNCHANGED <<stats, openAlerts>>
  BY <1>4 DEF BeginFinalize, Execute, dbVars
<1> QED  BY <1>1, <1>2, <1>3, <1>4 DEF Next, WorkerStep, JobStep

(* A failure that pauses the pair sees to its alert, one that does not      *)
(* leaves pause and alert as they were.                                     *)
LEMMA FailureShowsAlert ==
    ASSUME HolderInv, BreakerParts, NEW w \in Workers, NEW draw \in 0 .. Draws - 1,
           FinalizeFailure(w, draw), NEW p \in Pairs, AlertShown(p)
    PROVE  AlertShown(p)'
<1> DEFINE q == PairOf[claim[w].id]
           newRetryCount == claim[w].retryCount + 1
           finishedAt == result[w].finishedAt
           failures == RaisedFailures(stats[q], newRetryCount)
           trips == Trips(stats[q], failures, finishedAt)
<1>1. q \in Pairs /\ result[w].stat = stats[q]
  BY ClaimedPair DEF FinalizeFailure, HolderInv, BreakerParts, StatsRead, LocksStat
<1>2. /\ stats' = [stats EXCEPT ![q] = [exists |-> TRUE, consecutiveFailures |-> failures,
                        pausedUntil |-> IF trips THEN finishedAt + PauseTicks
                                        ELSE stats[q].pausedUntil]]
      /\ openAlerts' = [openAlerts EXCEPT ![q] =
                            IF trips THEN AlertsAfterTrip(openAlerts[q]) ELSE openAlerts[q]]
  BY <1>1 DEF FinalizeFailure, HolderInv, TypeOK
<1> HIDE DEF q, failures, trips
<1>3. /\ stats'[q].pausedUntil = IF trips THEN finishedAt + PauseTicks
                                 ELSE stats[q].pausedUntil
      /\ openAlerts'[q] = IF trips THEN AlertsAfterTrip(openAlerts[q]) ELSE openAlerts[q]
  BY <1>1, <1>2 DEF HolderInv, TypeOK
<1>4. openAlerts[q] \in Nat /\ openAlerts[q] <= 1
  BY <1>1 DEF HolderInv, TypeOK, BreakerParts, BreakerConsistent
<1>5. CASE p = q
  BY <1>3, <1>4, <1>5 DEF AlertShown, AlertsAfterTrip
<1>6. CASE p # q
  BY <1>2, <1>6 DEF AlertShown, HolderInv, TypeOK
<1> QED  BY <1>5, <1>6

(* A success that has the row clears the pause with the alert, and one that *)
(* rightly finds none has no pause to clear.                                *)
LEMMA SuccessShowsAlert ==
    ASSUME HolderInv, BreakerParts, NEW w \in Workers, FinalizeSuccess(w),
           NEW p \in Pairs, AlertShown(p),
           PairOf[claim[w].id] # p \/ ~BlindSuccess(w)
    PROVE  AlertShown(p)'
<1> DEFINE q == PairOf[claim[w].id]
<1>1. q \in Pairs /\ stats[q] \in Stat
  BY ClaimedPair DEF FinalizeSuccess, HolderInv, TypeOK
<1>2. /\ openAlerts' = [openAlerts EXCEPT ![q] = 0]
      /\ stats' = IF result[w].stat.exists
                  THEN [stats EXCEPT ![q].consecutiveFailures = 0, ![q].pausedUntil = NoPause]
                  ELSE stats
  BY DEF FinalizeSuccess
<1>3. CASE p # q
  BY <1>2, <1>3 DEF AlertShown, HolderInv, TypeOK
<1>4. CASE p = q /\ result[w].stat.exists
  <2>1. stats' = [stats EXCEPT ![q] = [stats[q] EXCEPT !.consecutiveFailures = 0,
                                                       !.pausedUntil = NoPause]]
    BY <1>2, <1>4 DEF HolderInv, TypeOK
  <2> HIDE DEF q
  <2>2. stats'[q].pausedUntil = NoPause
    BY <1>1, <2>1 DEF HolderInv, TypeOK, Stat
  <2> QED  BY <1>4, <2>2 DEF AlertShown
<1>5. CASE p = q /\ ~result[w].stat.exists
  <2>1. stats' = stats /\ stats[p] = NoStat
    BY <1>2, <1>5 DEF BlindSuccess, BreakerParts, StatsRead
  <2> QED  BY <2>1 DEF AlertShown, NoStat
<1> QED  BY <1>3, <1>4, <1>5

(* A pair that is paused with an open alert keeps both or loses both, but   *)
(* for a blind success: nothing else hides a pause from the administrator,  *)
(* in any number of workers and with any faults.                            *)
AlertsHiddenBlindly ==
    [][\A p \in Pairs :
          AlertShown(p) =>
              \/ AlertShown(p)'
              \/ \E w \in Workers : BlindSuccess(w) /\ PairOf[claim[w].id] = p]_vars

THEOREM OnlyBlindSuccessesHideAlerts == Spec => AlertsHiddenBlindly
<1> DEFINE Kept ==
        \A p \in Pairs :
            AlertShown(p) =>
                \/ AlertShown(p)'
                \/ \E w \in Workers : BlindSuccess(w) /\ PairOf[claim[w].id] = p
<1>1. BreakerInv /\ [Next]_vars => [Kept]_vars
  <2> SUFFICES ASSUME BreakerInv, [Next]_vars, NEW p \in Pairs, AlertShown(p),
                      \A w \in Workers : BlindSuccess(w) => PairOf[claim[w].id] # p
               PROVE  AlertShown(p)'
    OBVIOUS
  <2>1. CASE UNCHANGED <<stats, openAlerts>>
    BY <2>1 DEF AlertShown
  <2>2. ASSUME NEW w \in Workers, FinalizeSuccess(w)
        PROVE  AlertShown(p)'
    BY <2>2, SuccessShowsAlert DEF BreakerInv
  <2>3. ASSUME NEW w \in Workers, NEW draw \in 0 .. Draws - 1, FinalizeFailure(w, draw)
        PROVE  AlertShown(p)'
    BY <2>3, FailureShowsAlert DEF BreakerInv
  <2> QED  BY <2>1, <2>2, <2>3, AlertsWritten
<1> QED  BY <1>1, BreakerInvariant, PTL DEF Spec, AlertsHiddenBlindly

(* A worker that is alone never finds a row of which it did not know.       *)
StatsSeen ==
    \A w \in Workers :
        phase[w] = "committing" => result[w].stat = stats[PairOf[claim[w].id]]

LEMMA LoneWorkerSees ==
    ASSUME HolderInv, StatsSeen, [Next]_vars, \A v, w \in Workers : v = w
    PROVE  StatsSeen'
<1> USE DEF HolderInv, TypeOK
<1>1. CASE UNCHANGED <<stats, phase, claim, result>>
  BY <1>1 DEF StatsSeen
<1>2. Tick \/ (\E j \in Jobs : Enqueue(j)) \/ UNCHANGED vars
          => UNCHANGED <<stats, phase, claim, result>>
  BY DEF Tick, Enqueue, vars, dbVars, workerVars
<1>3. ASSUME NEW w \in Workers, phase'[w] # "committing"
      PROVE  StatsSeen'
  BY <1>3 DEF StatsSeen
<1>4. ASSUME NEW w \in Workers, Stop(w)
      PROVE  UNCHANGED <<stats, phase, claim, result>>
  BY <1>4 DEF Stop, dbVars
<1>5. ASSUME NEW w \in Workers, Process(w), ~Stop(w)
      PROVE  phase'[w] # "committing"
  BY <1>5 DEF Process, Start, Poll, LeaveLoop, EndTick, Exit, KillBySignal, Crash, Die
<1>6. ASSUME NEW w \in Workers, ClaimStep(w)
      PROVE  phase'[w] # "committing"
  BY <1>6 DEF ClaimStep, BeginClaim, LockJob, SerializationFailure, NoJobFound, CommitClaim,
              LoseClaimReply, DatabaseError, EndTick
<1>7. ASSUME NEW w \in Workers, BeginFinalize(w)
      PROVE  StatsSeen'
  BY <1>7 DEF BeginFinalize, StatsSeen, Results, dbVars
<1>8. ASSUME NEW w \in Workers,
             \/ \E o \in Returned : Execute(w, o)
             \/ FinalizeSuccess(w)
             \/ \E draw \in 0 .. Draws - 1 : FinalizeFailure(w, draw)
      PROVE  phase'[w] # "committing"
  BY <1>8 DEF Execute, FinalizeSuccess, FinalizeFailure, NextRound
<1> QED  BY <1>1, <1>2, <1>3, <1>4, <1>5, <1>6, <1>7, <1>8 DEF Next, WorkerStep, JobStep

(* The documented claim is true of a single worker, which is what           *)
(* docker-compose.yml starts: whatever it loses and however often it is     *)
(* restarted, a pause has its open alert.                                   *)
THEOREM LoneWorkerKeepsAlerts ==
    ASSUME \A v, w \in Workers : v = w
    PROVE  Spec => []PauseHasOpenAlert
<1> DEFINE Inv == BreakerInv /\ StatsSeen /\ PauseHasOpenAlert
<1>1. Init => Inv
  BY TypesInit, ClaimsInit, BreakerInit
     DEF Init, BreakerInv, HolderInv, StatsSeen, PauseHasOpenAlert, NoStat
<1>2. Inv /\ [Next]_vars => Inv'
  <2> SUFFICES ASSUME Inv, [Next]_vars
               PROVE  Inv'
    OBVIOUS
  <2>1. BreakerInv' /\ StatsSeen'
    BY TypesNext, ClaimsNext, BreakerNext, LoneWorkerSees DEF BreakerInv, HolderInv
  <2>2. \A p \in Pairs : AlertShown(p)
    BY DEF PauseHasOpenAlert, AlertShown
  <2>3. \A w \in Workers : ~BlindSuccess(w)
    BY DEF StatsSeen, BlindSuccess, FinalizeSuccess
  <2>4. \A p \in Pairs : AlertShown(p)'
    <3> SUFFICES ASSUME NEW p \in Pairs
                 PROVE  AlertShown(p)'
      OBVIOUS
    <3>1. CASE UNCHANGED <<stats, openAlerts>>
      BY <2>2, <3>1 DEF AlertShown
    <3>2. ASSUME NEW w \in Workers, FinalizeSuccess(w)
          PROVE  AlertShown(p)'
      BY <2>2, <2>3, <3>2, SuccessShowsAlert DEF BreakerInv
    <3>3. ASSUME NEW w \in Workers, NEW draw \in 0 .. Draws - 1, FinalizeFailure(w, draw)
          PROVE  AlertShown(p)'
      BY <2>2, <3>3, FailureShowsAlert DEF BreakerInv
    <3> QED  BY <3>1, <3>2, <3>3, AlertsWritten
  <2> QED  BY <2>1, <2>4 DEF PauseHasOpenAlert, AlertShown
<1>3. Inv => PauseHasOpenAlert
  OBVIOUS
<1> QED  BY <1>1, <1>2, <1>3, PTL DEF Spec

-----------------------------------------------------------------------------
(* How long retries wait.  RetrySchedule follows one job on its own; its    *)
(* facts are about any count and draw, so its variables do not matter here. *)

Retry == INSTANCE RetryScheduleProofs WITH retryCount <- 0, delay <- 0,
                                           Attempts <- MaxRetries

RetriesFollowSchedule ==
    [][\A w \in Workers, j \in Jobs :
          (/\ Holds(w, j) /\ jobs[j].status = "in_progress"
           /\ jobs'[j].status = "retrying")
              => Retry!NearDocumented(jobs'[j].retryCount,
                                      jobs'[j].nextRunAt - result[w].finishedAt)]_vars

LEMMA QueueDelayIsNear ==
    ASSUME Retry!PowersAreNatural, NEW n \in 1 .. MaxRetries - 1,
           NEW draw \in 0 .. Draws - 1
    PROVE  Retry!NearDocumented(n, CalculateBackoffDelay(n, draw))
<1>1. n \in Nat \ {0} /\ n <= MaxRetries - 1 /\ MaxRetries \in Nat
  BY QueueAssumption
<1>2. n > 5 => n - 1 \in 5 .. MaxRetries - 1
  BY <1>1
<1>3. n > 5 => 2 ^ (n - 1) \in Nat
  BY <1>2 DEF Retry!PowersAreNatural
<1>4. CalculateBackoffDelay(n, draw) = Retry!CalculateBackoffDelay(n, draw)
  BY DEF CalculateBackoffDelay, CappedDelay, ComputeBaseDelay, BackoffSequence, Round,
         Larger, Smaller,
         Retry!CalculateBackoffDelay, Retry!CappedDelay, Retry!ComputeBaseDelay,
         Retry!BackoffSequence, Retry!Round, Retry!Larger, Retry!Smaller
<1> QED  BY <1>1, <1>3, <1>4, BackoffAssumption, QueueAssumption, Retry!DelayIsNear

(* A job that a worker puts back waits, from the end of its attempt, within *)
(* the jitter ratio and a rounding of the documented delay for the failures *)
(* that its row then counts (if that delay is the cap, no less than that):  *)
(* whichever worker ran it, and however old the row was that it had         *)
(* claimed.  PowersAreNatural says nothing about five retries, which all    *)
(* jobs in the code have.                                                   *)
THEOREM RetriesKeepToSchedule ==
    ASSUME Retry!PowersAreNatural
    PROVE  Spec => RetriesFollowSchedule
<1> DEFINE Near ==
        \A w \in Workers, j \in Jobs :
            (/\ Holds(w, j) /\ jobs[j].status = "in_progress"
             /\ jobs'[j].status = "retrying")
                => Retry!NearDocumented(jobs'[j].retryCount,
                                        jobs'[j].nextRunAt - result[w].finishedAt)
<1>1. HolderInv /\ [Next]_vars => Near
  <2> SUFFICES ASSUME HolderInv, [Next]_vars, NEW w \in Workers, NEW j \in Jobs,
                      Holds(w, j),
                      jobs[j].status = "in_progress", jobs'[j].status = "retrying"
               PROVE  Retry!NearDocumented(jobs'[j].retryCount,
                                           jobs'[j].nextRunAt - result[w].finishedAt)
    OBVIOUS
  <2>1. PICK v \in Workers, draw \in 0 .. Draws - 1 : FinalizeFailure(v, draw)
    BY AttemptFails
  <2>2. \A k \in Jobs : k # claim[v].id => jobs'[k] = jobs[k]
    BY <2>1 DEF FinalizeFailure, HolderInv, TypeOK
  <2>3. claim[v].id = j /\ phase[v] \in Holding
    BY <2>1, <2>2 DEF FinalizeFailure, Holding
  <2>4. v = w
    BY <2>3, HoldersDiffer
  <2> DEFINE n == claim[w].retryCount + 1
             finishedAt == result[w].finishedAt
             wait == CalculateBackoffDelay(n, draw)
  <2>5. jobs'[j] = [status     |-> IF ReachedMax(n) THEN "failed" ELSE "retrying",
                    retryCount |-> n,
                    nextRunAt  |-> IF ReachedMax(n) THEN claim[w].nextRunAt
                                   ELSE CalculateNextRunAt(n, finishedAt, draw)]
    BY <2>1, <2>3, <2>4 DEF FinalizeFailure, HolderInv, TypeOK
  <2>6. n \in Nat \ {0} /\ finishedAt \in Nat
    BY DEF HolderInv, TypeOK, Claims, Results
  <2>7. wait \in Nat
    BY <2>6, DelayIsNat
  <2> HIDE DEF n, finishedAt, wait
  <2>8. n < MaxRetries
    BY <2>5, <2>6, QueueAssumption DEF ReachedMax
  <2>9. jobs'[j].retryCount = n /\ jobs'[j].nextRunAt = finishedAt + wait
    BY <2>5, <2>6, <2>8, QueueAssumption DEF ReachedMax, CalculateNextRunAt, wait
  <2>10. jobs'[j].nextRunAt - finishedAt = wait
    BY <2>6, <2>7, <2>9
  <2>11. n \in 1 .. MaxRetries - 1
    BY <2>6, <2>8, QueueAssumption
  <2>12. Retry!NearDocumented(n, wait)
    BY <2>11, QueueDelayIsNear DEF wait
  <2> QED  BY <2>9, <2>10, <2>12 DEF finishedAt
<1> QED  BY <1>1, HolderInvariant, PTL DEF Spec, RetriesFollowSchedule

-----------------------------------------------------------------------------
(* The queue implements JobLifecycle: each of its steps is a step of the    *)
(* lifecycle or leaves it as it is, for every number of jobs and workers.   *)

(* The runner of a job is the worker that has it. *)
LEMMA RunnerIsHolder ==
    ASSUME HolderInv, NEW w \in Workers, NEW j \in Jobs, Holds(w, j)
    PROVE  RunnerOf(j) = w
<1>1. \A v \in Workers : Holds(v, j) => v = w
  BY DEF HolderInv, ClaimedRows, Holds, Working, Holding
<1>2. RunnerOf(j) \in Workers /\ Holds(RunnerOf(j), j)
  BY DEF RunnerOf
<1> QED  BY <1>1, <1>2

(* A step after which the same workers have a job changes no runner. *)
LEMMA SameRunner ==
    ASSUME HolderInv, HolderInv', NEW j \in Jobs,
           \A w \in Workers : Holds(w, j)' <=> Holds(w, j)
    PROVE  RunnerOf(j)' = RunnerOf(j)
<1>1. CASE \E w \in Workers : Holds(w, j)
  <2>1. PICK w \in Workers : Holds(w, j)
    BY <1>1
  <2>2. RunnerOf(j) = w
    BY <2>1, RunnerIsHolder
  <2>3. Holds(w, j)'
    BY <2>1
  <2>4. RunnerOf(j)' = w
    <3>1. \A v \in Workers : Holds(v, j)' => v = w
      BY <2>3 DEF HolderInv, ClaimedRows, Holds, Working, Holding
    <3>2. RunnerOf(j)' \in Workers /\ \E v \in Workers : v = RunnerOf(j)' /\ Holds(v, j)'
      BY <2>3 DEF RunnerOf
    <3> QED  BY <3>1, <3>2
  <2> QED  BY <2>2, <2>4
<1>2. CASE \A w \in Workers : ~Holds(w, j)
  <2>1. RunnerOf(j) = NoWorker /\ RunnerOf(j)' = NoWorker
    BY <1>2 DEF RunnerOf
  <2> QED  BY <2>1
<1> QED  BY <1>1, <1>2

(* The lifecycle's view of a step, in terms of the three maps. *)
LEMMA LifecycleStutters ==
    ASSUME HolderInv, HolderInv', jobs' = jobs,
           \A j \in Jobs, w \in Workers : Holds(w, j)' <=> Holds(w, j)
    PROVE  UNCHANGED Lifecycle!lifecycleVars
<1>1. \A j \in Jobs : RunnerOf(j)' = RunnerOf(j)
  BY SameRunner
<1>2. RunnerMap' = RunnerMap
  BY <1>1 DEF RunnerMap
<1>3. StateMap' = StateMap /\ FailuresMap' = FailuresMap
  BY DEF StateMap, FailuresMap, StateOf
<1> QED  BY <1>2, <1>3 DEF Lifecycle!lifecycleVars

(* Only the runner of job i changes. *)
LEMMA RunnerChanges ==
    ASSUME HolderInv, HolderInv', NEW i \in Jobs, NEW r,
           RunnerOf(i)' = r,
           \A j \in Jobs \ {i}, w \in Workers : Holds(w, j)' <=> Holds(w, j)
    PROVE  RunnerMap' = [RunnerMap EXCEPT ![i] = r]
<1>1. \A j \in Jobs \ {i} : RunnerOf(j)' = RunnerOf(j)
  BY SameRunner
<1> QED  BY <1>1 DEF RunnerMap

(* A worker that lets go of a job leaves it with no runner. *)
LEMMA RunnerLeaves ==
    ASSUME HolderInv, HolderInv', NEW w \in Workers, NEW i \in Jobs,
           Holds(w, i), phase'[w] \notin Holding,
           \A v \in Workers : v # w => phase'[v] = phase[v] /\ claim'[v] = claim[v]
    PROVE  /\ RunnerMap[i] = w
           /\ RunnerMap' = [RunnerMap EXCEPT ![i] = NoWorker]
<1>1. RunnerMap[i] = w
  BY RunnerIsHolder DEF RunnerMap
<1>2. \A v \in Workers : Holds(v, i) => v = w
  BY DEF HolderInv, ClaimedRows, Holds, Working, Holding
<1>3. \A v \in Workers : ~Holds(v, i)'
  BY <1>2 DEF Holds
<1>4. RunnerOf(i)' = NoWorker
  BY <1>3 DEF RunnerOf
<1>5. \A j \in Jobs \ {i}, v \in Workers : Holds(v, j)' <=> Holds(v, j)
  BY DEF Holds
<1>6. RunnerMap' = [RunnerMap EXCEPT ![i] = NoWorker]
  BY <1>4, <1>5, RunnerChanges
<1> QED  BY <1>1, <1>6

LEMMA LifecycleLeaves ==
    ASSUME HolderInv, HolderInv', NEW w \in Workers, jobs' = jobs,
           phase'[w] \notin Holding,
           \A v \in Workers : v # w => phase'[v] = phase[v] /\ claim'[v] = claim[v]
    PROVE  [Lifecycle!LifecycleNext]_(Lifecycle!lifecycleVars)
<1>1. StateMap' = StateMap /\ FailuresMap' = FailuresMap
  BY DEF StateMap, FailuresMap, StateOf
<1>2. CASE phase[w] \in Holding
  <2>1. PICK i \in Jobs : Holds(w, i)
    BY <1>2 DEF HolderInv, ClaimsKnown, Holding, Holds
  <2>2. RunnerMap[i] = w /\ RunnerMap' = [RunnerMap EXCEPT ![i] = NoWorker]
    BY <2>1, RunnerLeaves
  <2>3. Lifecycle!Lose(i)
    BY <1>1, <2>2, QueueAssumption DEF Lifecycle!Lose, Lifecycle!Nobody, NoWorker
  <2> QED  BY <2>3 DEF Lifecycle!LifecycleNext
<1>3. CASE phase[w] \notin Holding
  BY <1>3, LifecycleStutters DEF Holds
<1> QED  BY <1>2, <1>3

(* The lifecycle's state of a job, status by status, before and after a     *)
(* step.                                                                    *)
LEMMA StateOfStatus ==
    ASSUME NEW j \in Jobs
    PROVE  /\ jobs[j].status = "absent" => StateOf(j) = "new"
           /\ jobs[j].status \in {"pending", "retrying"} => StateOf(j) = "queued"
           /\ jobs[j].status = "in_progress" => StateOf(j) = "running"
           /\ jobs[j].status = "completed" => StateOf(j) = "done"
           /\ jobs[j].status = "failed" => StateOf(j) = "dead"
           /\ jobs'[j].status \in {"pending", "retrying"} => StateOf(j)' = "queued"
           /\ jobs'[j].status = "in_progress" => StateOf(j)' = "running"
           /\ jobs'[j].status = "completed" => StateOf(j)' = "done"
           /\ jobs'[j].status = "failed" => StateOf(j)' = "dead"
BY DEF StateOf, Claimable

(* A step that writes the row of job i and no other. *)
LEMMA OneRowWritten ==
    ASSUME NEW i \in Jobs, NEW s, NEW n,
           \A j \in Jobs : j # i => jobs'[j] = jobs[j],
           StateOf(i)' = s, jobs'[i].retryCount = n
    PROVE  /\ StateMap' = [StateMap EXCEPT ![i] = s]
           /\ FailuresMap' = [FailuresMap EXCEPT ![i] = n]
           /\ n = jobs[i].retryCount => FailuresMap' = FailuresMap
<1>1. \A j \in Jobs : j # i => StateOf(j)' = StateOf(j)
  BY DEF StateOf
<1>2. StateMap' = [StateMap EXCEPT ![i] = s]
  BY <1>1 DEF StateMap
<1>3. FailuresMap' = [FailuresMap EXCEPT ![i] = n]
  BY DEF FailuresMap
<1>4. n = jobs[i].retryCount => FailuresMap' = FailuresMap
  BY DEF FailuresMap
<1> QED  BY <1>2, <1>3, <1>4

LEMMA LifecycleEnqueue ==
    ASSUME AttemptInv, HolderInv', NEW i \in Jobs, Enqueue(i)
    PROVE  Lifecycle!Submit(i)
<1>1. /\ jobs[i].status = "absent" /\ jobs'[i].status = "pending"
      /\ jobs'[i].retryCount = jobs[i].retryCount
      /\ \A j \in Jobs : j # i => jobs'[j] = jobs[j]
  BY DEF Enqueue, AttemptInv, NewRowsUntried, HolderInv, TypeOK
<1>2. \A j \in Jobs, w \in Workers : Holds(w, j)' <=> Holds(w, j)
  BY DEF Enqueue, workerVars, Holds
<1>3. RunnerMap' = RunnerMap
  BY <1>2, SameRunner DEF RunnerMap, AttemptInv
<1>4. StateOf(i) = "new" /\ StateOf(i)' = "queued"
  BY <1>1, StateOfStatus
<1>5. StateMap' = [StateMap EXCEPT ![i] = "queued"] /\ FailuresMap' = FailuresMap
  BY <1>1, <1>4, OneRowWritten
<1>6. StateMap[i] = "new"
  BY <1>4 DEF StateMap
<1> QED  BY <1>3, <1>5, <1>6 DEF Lifecycle!Submit

(* The row of a claimed job becomes "in_progress". *)
LEMMA StateMarked ==
    ASSUME HolderInv, NEW w \in Workers, NEW i \in Jobs,
           phase[w] = "claiming", claim[w].id = i, MarkInProgress(i)
    PROVE  /\ StateMap[i] = "queued"
           /\ StateMap' = [StateMap EXCEPT ![i] = "running"]
           /\ FailuresMap' = FailuresMap
<1>1. jobs[i].status \in {"pending", "retrying"}
  BY DEF HolderInv, ClaimedRows, Claimable
<1>2. /\ jobs'[i].status = "in_progress" /\ jobs'[i].retryCount = jobs[i].retryCount
      /\ \A j \in Jobs : j # i => jobs'[j] = jobs[j]
  BY DEF MarkInProgress, HolderInv, TypeOK, Row
<1>3. StateOf(i) = "queued" /\ StateOf(i)' = "running"
  BY <1>1, <1>2, StateOfStatus
<1>4. StateMap[i] = "queued"
  BY <1>3 DEF StateMap
<1> QED  BY <1>2, <1>3, <1>4, OneRowWritten

LEMMA LifecycleTake ==
    ASSUME HolderInv, HolderInv', NEW w \in Workers, NEW i \in Jobs,
           claim[w].id = i, CommitClaim(w)
    PROVE  Lifecycle!Take(i, w)
<1>1. /\ StateMap[i] = "queued"
      /\ StateMap' = [StateMap EXCEPT ![i] = "running"] /\ FailuresMap' = FailuresMap
  BY StateMarked DEF CommitClaim
<1>2. \A j \in Jobs : RunnerMap[j] # w
  <2> SUFFICES ASSUME NEW j \in Jobs, RunnerOf(j) = w
               PROVE  FALSE
    BY DEF RunnerMap
  <2>1. Holds(w, j)
    BY QueueAssumption DEF RunnerOf
  <2> QED  BY <2>1 DEF Holds, Holding, CommitClaim
<1>3. /\ Holds(w, i)'
      /\ \A j \in Jobs \ {i}, v \in Workers : Holds(v, j)' <=> Holds(v, j)
  BY DEF CommitClaim, Holds, Holding, HolderInv, TypeOK
<1>4. RunnerOf(i)' = w
  <2>1. \A v \in Workers : Holds(v, i)' => v = w
    BY <1>3 DEF HolderInv, ClaimedRows, Holds, Working, Holding
  <2>2. \E v \in Workers : v = RunnerOf(i)' /\ Holds(v, i)'
    BY <1>3 DEF RunnerOf
  <2> QED  BY <2>1, <2>2
<1>5. RunnerMap' = [RunnerMap EXCEPT ![i] = w]
  BY <1>3, <1>4, RunnerChanges
<1> QED  BY <1>1, <1>2, <1>5 DEF Lifecycle!Take

LEMMA LifecycleTakeUnseen ==
    ASSUME HolderInv, HolderInv', NEW w \in Workers, NEW i \in Jobs,
           claim[w].id = i, LoseClaimReply(w)
    PROVE  Lifecycle!TakeUnseen(i)
<1>1. /\ StateMap[i] = "queued"
      /\ StateMap' = [StateMap EXCEPT ![i] = "running"] /\ FailuresMap' = FailuresMap
  BY StateMarked DEF LoseClaimReply
<1>2. \A j \in Jobs, v \in Workers : Holds(v, j)' <=> Holds(v, j)
  BY DEF LoseClaimReply, EndTick, Forget, Holds, Holding, HolderInv, TypeOK
<1>3. RunnerMap' = RunnerMap
  BY <1>2, SameRunner DEF RunnerMap
<1> QED  BY <1>1, <1>3 DEF Lifecycle!TakeUnseen

LEMMA LifecycleFinalized ==
    ASSUME HolderInv, HolderInv', NEW w \in Workers, NEW i \in Jobs, claim[w].id = i,
           \/ FinalizeSuccess(w)
           \/ \E draw \in 0 .. Draws - 1 : FinalizeFailure(w, draw)
    PROVE  Lifecycle!Finish(i) \/ Lifecycle!Fail(i)
<1>1. phase[w] = "committing" /\ NextRound(w)
  BY DEF FinalizeSuccess, FinalizeFailure
<1>2. /\ Holds(w, i) /\ phase'[w] \notin Holding
      /\ \A v \in Workers : v # w => phase'[v] = phase[v] /\ claim'[v] = claim[v]
  BY <1>1 DEF NextRound, Forget, Holds, Holding, HolderInv, TypeOK
<1>3. RunnerMap[i] = w /\ RunnerMap' = [RunnerMap EXCEPT ![i] = NoWorker]
  BY <1>2, RunnerLeaves
<1>4. jobs[i] \in Row /\ claim[w].retryCount = jobs[i].retryCount
  BY <1>1 DEF HolderInv, TypeOK, ClaimedRows, Working
<1>5. \A j \in Jobs : j # i => jobs'[j] = jobs[j]
  BY DEF FinalizeSuccess, FinalizeFailure, HolderInv, TypeOK
<1>6. CASE FinalizeSuccess(w)
  <2>1. jobs'[i].status = "completed" /\ jobs'[i].retryCount = jobs[i].retryCount
    BY <1>4, <1>6 DEF FinalizeSuccess, HolderInv, TypeOK, Row
  <2>2. StateOf(i)' = "done"
    BY <2>1, StateOfStatus
  <2>3. StateMap' = [StateMap EXCEPT ![i] = "done"] /\ FailuresMap' = FailuresMap
    BY <1>5, <2>1, <2>2, OneRowWritten
  <2> QED  BY <1>3, <2>3, QueueAssumption DEF Lifecycle!Finish, Lifecycle!Nobody, NoWorker
<1>7. CASE \E draw \in 0 .. Draws - 1 : FinalizeFailure(w, draw)
  <2> DEFINE n == jobs[i].retryCount + 1
             s == IF n >= MaxRetries THEN "dead" ELSE "queued"
  <2>1. /\ jobs'[i].retryCount = n
        /\ jobs'[i].status = IF n >= MaxRetries THEN "failed" ELSE "retrying"
    BY <1>4, <1>7 DEF FinalizeFailure, ReachedMax, HolderInv, TypeOK
  <2>2. StateOf(i)' = s
    BY <2>1, StateOfStatus
  <2>3. StateMap' = [StateMap EXCEPT ![i] = s] /\ FailuresMap' = [FailuresMap EXCEPT ![i] = n]
    <3> HIDE DEF s, n
    <3> QED  BY <1>5, <2>1, <2>2, OneRowWritten
  <2>4. FailuresMap[i] = jobs[i].retryCount /\ FailuresMap'[i] = n
    BY <2>1 DEF FailuresMap
  <2> QED  BY <1>3, <2>3, <2>4, QueueAssumption DEF Lifecycle!Fail, Lifecycle!Nobody, NoWorker
<1> QED  BY <1>6, <1>7

LEMMA LifecycleStep ==
    ASSUME AttemptInv, HolderInv', [Next]_vars
    PROVE  [Lifecycle!LifecycleNext]_(Lifecycle!lifecycleVars)
<1> USE DEF AttemptInv
<1>1. CASE UNCHANGED <<jobs, phase, claim>>
  BY <1>1, LifecycleStutters DEF Holds
<1>2. ASSUME NEW w \in Workers, jobs' = jobs, phase'[w] \notin Holding,
             \A v \in Workers : v # w => phase'[v] = phase[v] /\ claim'[v] = claim[v]
      PROVE  [Lifecycle!LifecycleNext]_(Lifecycle!lifecycleVars)
  BY <1>2, LifecycleLeaves
<1>3. ASSUME NEW w \in Workers, jobs' = jobs, claim' = claim,
             phase[w] \in Holding, phase'[w] \in Holding,
             \A v \in Workers : v # w => phase'[v] = phase[v]
      PROVE  [Lifecycle!LifecycleNext]_(Lifecycle!lifecycleVars)
  BY <1>3, LifecycleStutters DEF Holds
<1>4. ASSUME NEW i \in Jobs, Enqueue(i)
      PROVE  Lifecycle!LifecycleNext
  BY <1>4, LifecycleEnqueue DEF Lifecycle!LifecycleNext
<1>5. ASSUME NEW w \in Workers, Process(w)
      PROVE  [Lifecycle!LifecycleNext]_(Lifecycle!lifecycleVars)
  <2>1. CASE Stop(w)
    BY <1>1, <2>1 DEF Stop, dbVars
  <2>2. CASE Start(w) \/ Poll(w) \/ LeaveLoop(w) \/ Exit(w) \/ Die(w)
    <3>1. jobs' = jobs /\ phase'[w] \notin Holding
      BY <2>2 DEF Start, Poll, LeaveLoop, EndTick, Exit, Die, dbVars, Holding, HolderInv, TypeOK
    <3>2. \A v \in Workers : v # w => phase'[v] = phase[v] /\ claim'[v] = claim[v]
      BY <2>2 DEF Start, Poll, LeaveLoop, EndTick, Exit, Die, Forget, HolderInv, TypeOK
    <3> QED  BY <1>2, <3>1, <3>2
  <2> QED  BY <1>5, <2>1, <2>2 DEF Process, KillBySignal, Crash
<1>6. ASSUME NEW w \in Workers, ClaimStep(w)
      PROVE  [Lifecycle!LifecycleNext]_(Lifecycle!lifecycleVars)
  <2>1. phase[w] = "claiming" => claim[w].id \in Jobs
    BY DEF HolderInv, ClaimsKnown
  <2>2. CASE CommitClaim(w)
    BY <2>1, <2>2, LifecycleTake DEF CommitClaim, Lifecycle!LifecycleNext
  <2>3. CASE LoseClaimReply(w)
    BY <2>1, <2>3, LifecycleTakeUnseen DEF LoseClaimReply, Lifecycle!LifecycleNext
  <2>4. CASE \/ BeginClaim(w) \/ NoJobFound(w) \/ DatabaseError(w)
             \/ \E j \in Jobs : LockJob(w, j) \/ SerializationFailure(w, j)
    <3>1. jobs' = jobs /\ phase'[w] \notin Holding
      BY <2>4 DEF BeginClaim, NoJobFound, DatabaseError, LockJob, SerializationFailure,
                  EndTick, dbVars, Holding, HolderInv, TypeOK
    <3>2. \A v \in Workers : v # w => phase'[v] = phase[v] /\ claim'[v] = claim[v]
      BY <2>4 DEF BeginClaim, NoJobFound, DatabaseError, LockJob, SerializationFailure,
                  EndTick, Forget, HolderInv, TypeOK
    <3> QED  BY <1>2, <3>1, <3>2
  <2> QED  BY <1>6, <2>2, <2>3, <2>4 DEF ClaimStep
<1>7. ASSUME NEW w \in Workers, JobStep(w)
      PROVE  [Lifecycle!LifecycleNext]_(Lifecycle!lifecycleVars)
  <2>1. phase[w] = "committing" => claim[w].id \in Jobs
    BY DEF HolderInv, ClaimsKnown
  <2>2. CASE \/ FinalizeSuccess(w)
             \/ \E draw \in 0 .. Draws - 1 : FinalizeFailure(w, draw)
    <3>1. phase[w] = "committing"
      BY <2>2 DEF FinalizeSuccess, FinalizeFailure
    <3> QED  BY <2>1, <2>2, <3>1, LifecycleFinalized DEF Lifecycle!LifecycleNext
  <2>3. CASE BeginFinalize(w) \/ \E outcome \in Returned : Execute(w, outcome)
    <3>1. /\ jobs' = jobs /\ claim' = claim
          /\ phase[w] \in Holding /\ phase'[w] \in Holding
          /\ \A v \in Workers : v # w => phase'[v] = phase[v]
      BY <2>3 DEF BeginFinalize, Execute, dbVars, Holding, HolderInv, TypeOK
    <3> QED  BY <1>3, <3>1
  <2> QED  BY <1>7, <2>2, <2>3 DEF JobStep
<1>8. Tick \/ UNCHANGED vars => UNCHANGED <<jobs, phase, claim>>
  BY DEF Tick, vars, dbVars, workerVars
<1> QED  BY <1>1, <1>4, <1>5, <1>6, <1>7, <1>8 DEF Next, WorkerStep

LEMMA LifecycleStart == Init => Lifecycle!LifecycleInit
<1> SUFFICES ASSUME Init
             PROVE  Lifecycle!LifecycleInit
  OBVIOUS
<1>1. \A j \in Jobs : jobs[j].status = "absent" /\ jobs[j].retryCount = 0
  BY DEF Init
<1>2. \A j \in Jobs : StateOf(j) = "new" /\ RunnerOf(j) = NoWorker
  BY <1>1, StateOfStatus DEF Init, RunnerOf, Holds, Holding
<1> QED  BY <1>1, <1>2
         DEF Lifecycle!LifecycleInit, StateMap, FailuresMap, RunnerMap, Lifecycle!Nobody, NoWorker

(* Whatever the interleaving of claims, executions, finalizers and faults,  *)
(* each job goes through the lifecycle: taken by one worker at a time, put  *)
(* back after a failed attempt until its retries are used up, final once    *)
(* done or dead.                                                            *)
THEOREM QueueImplementsLifecycle == Spec => ImplementsLifecycle
<1>1. AttemptInv /\ AttemptInv' /\ [Next]_vars
          => [Lifecycle!LifecycleNext]_(Lifecycle!lifecycleVars)
  BY LifecycleStep DEF AttemptInv
<1> QED  BY <1>1, LifecycleStart, AttemptInvariant, PTL
         DEF Spec, ImplementsLifecycle, Lifecycle!LifecycleSpec

-----------------------------------------------------------------------------
(* Stranded jobs.  Every step leaves the set of orphans as it is or smaller *)
(* but for a fault, which adds at most the one job that its worker had: the *)
(* set is finite and no larger than the number of faults, whatever Jobs is. *)

Orphans == {j \in Jobs : Orphan(j)}

OrphanInv == HolderInv /\ IsFiniteSet(Orphans) /\ Cardinality(Orphans) <= faults

LEMMA NoOrphansAtFirst == Init => IsFiniteSet(Orphans) /\ Cardinality(Orphans) <= faults
<1> SUFFICES ASSUME Init
             PROVE  IsFiniteSet(Orphans) /\ Cardinality(Orphans) <= faults
  OBVIOUS
<1>1. Orphans = {} /\ faults = 0
  BY DEF Init, Orphans, Orphan
<1> QED  BY <1>1, FS_EmptySet

LEMMA NoMoreOrphans ==
    ASSUME OrphanInv, faults' \in Nat, faults' >= faults,
           \A j \in Jobs : Orphan(j)' => Orphan(j)
    PROVE  IsFiniteSet(Orphans)' /\ (Cardinality(Orphans) <= faults)'
<1>1. Orphans' \in SUBSET Orphans /\ IsFiniteSet(Orphans)
  BY DEF Orphans, OrphanInv
<1>2. IsFiniteSet(Orphans') /\ Cardinality(Orphans') <= Cardinality(Orphans)
  BY <1>1, FS_Subset
<1>3. Cardinality(Orphans) \in Nat /\ Cardinality(Orphans') \in Nat
  BY <1>1, <1>2, FS_CardinalityType
<1> QED  BY <1>2, <1>3 DEF OrphanInv, HolderInv, TypeOK

(* What a fault leaves behind is at most the job in its worker's hands.     *)
LEMMA OneMoreOrphan ==
    ASSUME OrphanInv, NEW i, faults' = faults + 1,
           \A j \in Jobs : Orphan(j)' => Orphan(j) \/ j = i
    PROVE  IsFiniteSet(Orphans)' /\ (Cardinality(Orphans) <= faults)'
<1>1. IsFiniteSet(Orphans) /\ Orphans' \in SUBSET (Orphans \cup {i})
  BY DEF Orphans, OrphanInv
<1>2. /\ IsFiniteSet(Orphans \cup {i})
      /\ Cardinality(Orphans) \in Nat
      /\ Cardinality(Orphans \cup {i}) <= Cardinality(Orphans) + 1
      /\ Cardinality(Orphans \cup {i}) \in Nat
  <2>1. IsFiniteSet(Orphans \cup {i}) /\ Cardinality(Orphans) \in Nat
    BY <1>1, FS_AddElement, FS_CardinalityType
  <2>2. Cardinality(Orphans \cup {i}) = IF i \in Orphans THEN Cardinality(Orphans)
                                        ELSE Cardinality(Orphans) + 1
    BY <1>1, FS_AddElement
  <2> HIDE DEF Orphans
  <2> QED  BY <2>1, <2>2
<1>3. IsFiniteSet(Orphans') /\ Cardinality(Orphans') <= Cardinality(Orphans \cup {i})
  BY <1>1, <1>2, FS_Subset
<1>4. Cardinality(Orphans') \in Nat
  BY <1>3, FS_CardinalityType
<1> QED  BY <1>2, <1>3, <1>4 DEF OrphanInv, HolderInv, TypeOK

(* A worker that lets go of whatever it has strands that job at most.       *)
LEMMA OrphansOfWorker ==
    ASSUME OrphanInv, NEW w \in Workers, NEW j \in Jobs, Orphan(j)',
           \A v \in Workers : v # w => phase'[v] = phase[v] /\ claim'[v] = claim[v],
           jobs'[j].status = "in_progress" => jobs[j].status = "in_progress"
    PROVE  Orphan(j) \/ Holds(w, j)
BY DEF Orphan, Holds

LEMMA OrphansProcess ==
    ASSUME OrphanInv, NEW w \in Workers, Process(w)
    PROVE  IsFiniteSet(Orphans)' /\ (Cardinality(Orphans) <= faults)'
<1> USE DEF OrphanInv, HolderInv, TypeOK
<1>1. CASE Die(w) /\ faults' = faults + 1
  <2>1. \A j \in Jobs : Orphan(j)' => Orphan(j) \/ j = claim[w].id
    BY <1>1, OrphansOfWorker DEF Die, Forget, dbVars, Holds
  <2> QED  BY <1>1, <2>1, OneMoreOrphan
<1>2. CASE Start(w) \/ Poll(w) \/ LeaveLoop(w) \/ Stop(w) \/ Exit(w)
  <2>1. /\ UNCHANGED <<jobs, faults>>
        /\ \A v \in Workers : phase'[v] # phase[v] => v = w
        /\ \A v \in Workers : claim'[v] # claim[v] => v = w
        /\ UNCHANGED <<phase, claim>> \/ phase[w] \notin Holding
    BY <1>2 DEF Start, Poll, LeaveLoop, EndTick, Forget, Stop, Exit, dbVars, Holding
  <2>2. \A j \in Jobs : Orphan(j)' => Orphan(j)
    BY <2>1 DEF Orphan, Holds
  <2> QED  BY <2>1, <2>2, NoMoreOrphans
<1> QED  BY <1>1, <1>2 DEF Process, KillBySignal, Crash, Fault

LEMMA OrphansClaimStep ==
    ASSUME OrphanInv, NEW w \in Workers, ClaimStep(w)
    PROVE  IsFiniteSet(Orphans)' /\ (Cardinality(Orphans) <= faults)'
<1> USE DEF OrphanInv, HolderInv, TypeOK
<1>1. CASE DatabaseError(w)
  <2>1. \A j \in Jobs : Orphan(j)' => Orphan(j) \/ j = claim[w].id
    BY <1>1, OrphansOfWorker DEF DatabaseError, EndTick, Forget, dbVars, Holds
  <2> QED  BY <1>1, <2>1, OneMoreOrphan DEF DatabaseError, Fault
<1>2. CASE LoseClaimReply(w)
  <2>1. \A j \in Jobs : j # claim[w].id => jobs'[j] = jobs[j]
    BY <1>2 DEF LoseClaimReply, MarkInProgress
  <2>2. \A v \in Workers : v # w => phase'[v] = phase[v] /\ claim'[v] = claim[v]
    BY <1>2 DEF LoseClaimReply, EndTick, Forget
  <2>3. \A j \in Jobs : Orphan(j)' => Orphan(j) \/ j = claim[w].id
    BY <2>1, <2>2, OrphansOfWorker DEF Holds
  <2>4. faults' = faults + 1
    BY <1>2 DEF LoseClaimReply, Fault
  <2> QED  BY <2>3, <2>4, OneMoreOrphan
<1>3. CASE CommitClaim(w)
  <2>1. \A j \in Jobs : j # claim[w].id => jobs'[j] = jobs[j]
    BY <1>3 DEF CommitClaim, MarkInProgress
  <2>2. /\ phase[w] \notin Holding /\ phase'[w] \in Holding
        /\ UNCHANGED <<claim, faults>>
        /\ \A v \in Workers : v # w => phase'[v] = phase[v]
    BY <1>3 DEF CommitClaim, Holding
  <2>3. \A j \in Jobs : Orphan(j)' => Orphan(j)
    BY <2>1, <2>2 DEF Orphan, Holds
  <2> QED  BY <2>2, <2>3, NoMoreOrphans
<1>4. CASE \/ BeginClaim(w) \/ NoJobFound(w)
           \/ \E j \in Jobs : LockJob(w, j) \/ SerializationFailure(w, j)
  <2>1. /\ UNCHANGED <<jobs, faults>>
        /\ \A v \in Workers : v # w => phase'[v] = phase[v] /\ claim'[v] = claim[v]
        /\ phase[w] \notin Holding
    BY <1>4 DEF BeginClaim, NoJobFound, LockJob, SerializationFailure, EndTick, Forget,
                dbVars, Holding
  <2>2. \A j \in Jobs : Orphan(j)' => Orphan(j)
    BY <2>1 DEF Orphan, Holds
  <2> QED  BY <2>1, <2>2, NoMoreOrphans
<1> QED  BY <1>1, <1>2, <1>3, <1>4 DEF ClaimStep

LEMMA OrphansJobStep ==
    ASSUME OrphanInv, NEW w \in Workers, JobStep(w)
    PROVE  IsFiniteSet(Orphans)' /\ (Cardinality(Orphans) <= faults)'
<1> USE DEF OrphanInv, HolderInv, TypeOK
<1>1. CASE BeginFinalize(w) \/ \E outcome \in Returned : Execute(w, outcome)
  <2>1. /\ UNCHANGED <<jobs, claim, faults>>
        /\ \A v \in Workers : phase[v] \in Holding => phase'[v] \in Holding
    BY <1>1 DEF BeginFinalize, Execute, dbVars, Holding
  <2>2. \A j \in Jobs : Orphan(j)' => Orphan(j)
    BY <2>1 DEF Orphan, Holds
  <2> QED  BY <2>1, <2>2, NoMoreOrphans
<1>2. CASE \/ FinalizeSuccess(w)
           \/ \E draw \in 0 .. Draws - 1 : FinalizeFailure(w, draw)
  <2>1. /\ claim[w].id \in Jobs /\ phase[w] = "committing"
        /\ NextRound(w)
    BY <1>2 DEF FinalizeSuccess, FinalizeFailure, ClaimsKnown
  <2>2. /\ \A j \in Jobs : j # claim[w].id => jobs'[j] = jobs[j]
        /\ jobs'[claim[w].id].status # "in_progress"
    <3>1. CASE FinalizeSuccess(w)
      BY <2>1, <3>1 DEF FinalizeSuccess, Row
    <3>2. CASE \E draw \in 0 .. Draws - 1 : FinalizeFailure(w, draw)
      BY <2>1, <3>2 DEF FinalizeFailure, Row
    <3> QED  BY <1>2, <3>1, <3>2
  <2>3. /\ faults' \in Nat /\ faults' >= faults
        /\ \A v \in Workers : v # w => phase'[v] = phase[v] /\ claim'[v] = claim[v]
    BY <2>1 DEF NextRound, Forget, Fault
  <2>4. \A j \in Jobs : Orphan(j)' => Orphan(j)
    BY <2>2, <2>3 DEF Orphan, Holds
  <2> QED  BY <2>3, <2>4, NoMoreOrphans
<1> QED  BY <1>1, <1>2 DEF JobStep

LEMMA OrphansNext ==
    ASSUME OrphanInv, [Next]_vars
    PROVE  IsFiniteSet(Orphans)' /\ (Cardinality(Orphans) <= faults)'
<1>1. CASE Tick \/ (\E i \in Jobs : Enqueue(i)) \/ UNCHANGED vars
  <2>1. /\ UNCHANGED <<phase, claim, faults>>
        /\ \A j \in Jobs : jobs'[j].status = "in_progress" => jobs[j].status = "in_progress"
    BY <1>1 DEF Tick, Enqueue, vars, dbVars, workerVars, OrphanInv, HolderInv, TypeOK
  <2>2. \A j \in Jobs : Orphan(j)' => Orphan(j)
    BY <2>1 DEF Orphan, Holds
  <2> QED  BY <2>1, <2>2, NoMoreOrphans DEF OrphanInv, HolderInv, TypeOK
<1> QED  BY <1>1, OrphansProcess, OrphansClaimStep, OrphansJobStep DEF Next, WorkerStep

(* Jobs are stranded by faults alone, and no fault strands two: a job that  *)
(* is "in_progress" with nobody working on it is one of at most as many as  *)
(* there were crashes, kills, database errors and lost replies.  Stopping,  *)
(* restarting, skipped rows and serialization failures strand none.         *)
THEOREM OrphansCorrect == Spec => []OrphansComeFromFaults
<1>1. Init => OrphanInv
  BY TypesInit, ClaimsInit, NoOrphansAtFirst DEF OrphanInv, HolderInv
<1>2. OrphanInv /\ [Next]_vars => OrphanInv'
  BY TypesNext, ClaimsNext, OrphansNext DEF OrphanInv, HolderInv
<1>3. OrphanInv => OrphansComeFromFaults
  BY DEF OrphanInv, Orphans, OrphansComeFromFaults
<1> QED  BY <1>1, <1>2, <1>3, PTL DEF Spec

=============================================================================
