-------------------------- MODULE JobExecutionProofs --------------------------
(***************************************************************************)
(* What holds of the queue and its connector together, for any jobs,       *)
(* payloads, workers and contents of the feed.                             *)
(***************************************************************************)
EXTENDS JobExecution, QueueConsumerProofs

(* Whatever the executors do, the queue sees a worker that takes its time   *)
(* and reports an outcome.                                                  *)
LEMMA QueueMoves == ExecutionNext => [Next]_vars
<1>1. ASSUME NEW w \in Workers, Return(w) \/ FallBack(w)
      PROVE  Next
  <2>1. \E o \in Returned : Execute(w, o)
    BY <1>1, ExecutionAssumption DEF Return, FallBack, OutcomeOf
  <2> QED
    BY <2>1 DEF Next, WorkerStep, JobStep
<1>2. ASSUME NEW w \in Workers, Perish(w) \/ QueueStep(w)
      PROVE  Next
  BY <1>2 DEF Perish, QueueStep, Next, WorkerStep, Process, JobStep
<1>3. ConnectorStep \/ (\E w \in Workers : ExecutorStep(w)) => UNCHANGED vars
  BY DEF ConnectorStep, ExecutorStep
<1>4. (\E j \in Jobs : QueueFor(j)) \/ Tick => Next
  BY DEF QueueFor, Next
<1> QED
  BY <1>1, <1>2, <1>3, <1>4 DEF ExecutionNext

(* The composition implements the queue: every property of QueueConsumer    *)
(* holds of workers that run the real executors.                            *)
THEOREM ExecutionImplementsQueue == ExecutionSpec => Spec
<1>1. ExecutionInit => Init
  BY DEF ExecutionInit
<1>2. [ExecutionNext]_executionVars => [Next]_vars
  BY QueueMoves DEF executionVars
<1> QED
  BY <1>1, <1>2, PTL DEF ExecutionSpec, Spec

-----------------------------------------------------------------------------
(* The invariant.  A function of records stays one under EXCEPT. *)

Shape ==
    /\ attempt = [a \in Executions |-> [step |-> attempt[a].step, read |-> attempt[a].read,
                                        next |-> attempt[a].next]]
    /\ \A a \in Executions : Step(a) \in Feed!AttemptSteps

Begun(a) == Step(a) # "idle"

(* An execution that has begun is of a number that the row has reached, and *)
(* while the row has not counted it, nobody else can begin another: the row *)
(* is not claimable, and only the worker of this one may hold it.           *)
Numbered(j, r, w) ==
    Begun(<<j, r, w>>) =>
        /\ creation = "created"
        /\ RouteOf[j] = "html_ics_sync"
        /\ r <= jobs[j].retryCount
        /\ r = jobs[j].retryCount =>
              /\ jobs[j].status \in {"in_progress", "completed"}
              /\ \A v \in Workers : Holds(v, j) => v = w
        /\ \A v \in Workers : Begun(<<j, r, v>>) => v = w

(* One that is not over is what its worker is running. *)
UnderWay(j, r, w) ==
    (Begun(<<j, r, w>>) /\ ~Over(<<j, r, w>>)) =>
        phase[w] = "executing" /\ claim[w].id = j /\ claim[w].retryCount = r

AllNumbered == \A j \in Jobs, r \in 0 .. MaxRetries - 1, w \in Workers : Numbered(j, r, w)

AllUnderWay == \A j \in Jobs, r \in 0 .. MaxRetries - 1, w \in Workers : UnderWay(j, r, w)

(* What a worker is about to record is what its execution has done. *)
Reports(w) ==
    (phase[w] \in {"finalizing", "committing"} /\ RouteOf[claim[w].id] = "html_ics_sync") =>
        Over(Run(w)) /\ result[w].outcome = OutcomeOf(Run(w))

AllReports == \A w \in Workers : Reports(w)

(* What is recorded was done. *)
History(j) ==
    RouteOf[j] = "html_ics_sync" =>
        /\ \A r \in 0 .. MaxRetries - 1 :
              r < jobs[j].retryCount =>
                 \E w \in Workers : Over(<<j, r, w>>) /\ ~Succeeded(<<j, r, w>>)
        /\ jobs[j].status = "completed" =>
              \E w \in Workers : Succeeded(<<j, jobs[j].retryCount, w>>)

AllHistory == \A j \in Jobs : History(j)

(* The row is as an execution under way has read it, or as another job has  *)
(* left it.                                                                 *)
ReadOrReplaced(a) ==
    (Begun(a) /\ ~Over(a)) =>
        \/ row = attempt[a].read
        \/ \E b \in Executions : JobOf(b) # JobOf(a) /\ Over(b) /\ row = attempt[b].next

AllReadOrReplaced == \A a \in Executions : ReadOrReplaced(a)

ExecutionInv ==
    /\ Shape /\ AllNumbered /\ AllUnderWay /\ AllReports /\ AllHistory /\ AllReadOrReplaced

LEMMA ExecutionInitInv == ExecutionInit => ExecutionInv
<1> SUFFICES ASSUME ExecutionInit PROVE ExecutionInv
  OBVIOUS
<1>1. /\ \A a \in Executions : attempt[a].step = "idle"
      /\ Shape
  BY DEF ExecutionInit, Feed!FeedInit, Shape, Step, Feed!AttemptSteps
<1>2. \A j \in Jobs, r \in 0 .. MaxRetries - 1, w \in Workers : <<j, r, w>> \in Executions
  BY DEF Executions
<1>3. AllNumbered /\ AllUnderWay /\ AllReadOrReplaced
  BY <1>1, <1>2 DEF AllNumbered, AllUnderWay, AllReadOrReplaced, Numbered, UnderWay,
     ReadOrReplaced, Begun, Step
<1>4. AllReports
  BY DEF ExecutionInit, Init, AllReports, Reports
<1>5. AllHistory
  BY DEF ExecutionInit, Init, AllHistory, History
<1> QED
  BY <1>1, <1>3, <1>4, <1>5 DEF ExecutionInv

(* An execution that a worker is running has a number that the job may have. *)
LEMMA RunIsExecution ==
    ASSUME AttemptInv, NEW w \in Workers, phase[w] \in Holding
    PROVE  /\ claim[w].id \in Jobs
           /\ claim[w].retryCount = jobs[claim[w].id].retryCount
           /\ claim[w].retryCount \in 0 .. MaxRetries - 1
           /\ jobs[claim[w].id].status = "in_progress"
           /\ Run(w) \in Executions
           /\ \A v \in Workers : Holds(v, claim[w].id) => v = w
<1>1. /\ claim[w].id \in Jobs
      /\ claim[w].retryCount = jobs[claim[w].id].retryCount
      /\ jobs[claim[w].id].status = "in_progress"
      /\ \A v \in Workers : Holds(v, claim[w].id) => v = w
  BY DEF AttemptInv, HolderInv, ClaimsKnown, ClaimedRows, Holding, Working, Holds
<1>2. jobs[claim[w].id].retryCount \in 0 .. MaxRetries - 1
  BY <1>1, QueueAssumption DEF AttemptInv, AttemptsAccounted, HolderInv, TypeOK, Row
<1> QED
  BY <1>1, <1>2 DEF Run, Executions

-----------------------------------------------------------------------------
(* Steps of the queue that no execution notices: rows keep their counts and *)
(* what is in progress or completed, workers stay in an executor that has   *)
(* begun, and what they hold they held before.                              *)
LEMMA Unnoticed ==
    ASSUME ExecutionInv, UNCHANGED <<creation, row, attempt>>,
           \A j \in Jobs :
              /\ jobs'[j].retryCount = jobs[j].retryCount
              /\ jobs[j].status \in {"in_progress", "completed"} =>
                    jobs'[j].status = jobs[j].status
              /\ jobs'[j].status = "completed" => jobs[j].status = "completed",
           \A w \in Workers :
              \/ phase'[w] = phase[w] /\ claim'[w] = claim[w] /\ result'[w] = result[w]
              \/ /\ phase'[w] \notin Holding
                 /\ phase[w] = "executing" => ~Begun(Run(w)) \/ Over(Run(w))
              \/ /\ phase[w] = "finalizing" /\ phase'[w] = "committing"
                 /\ claim'[w] = claim[w] /\ result'[w].outcome = result[w].outcome
    PROVE  ExecutionInv'
<1>1. \A a : Step(a)' = Step(a) /\ Begun(a)' = Begun(a) /\ Over(a)' = Over(a)
            /\ Succeeded(a)' = Succeeded(a) /\ OutcomeOf(a)' = OutcomeOf(a)
  BY DEF Step, Begun, Over, Succeeded, OutcomeOf
<1>2. \A w \in Workers, j \in Jobs : Holds(w, j)' => Holds(w, j)
  BY DEF Holds, Holding
<1>3. AllNumbered'
  BY <1>1, <1>2 DEF ExecutionInv, AllNumbered, Numbered
<1>4. AllUnderWay'
  BY <1>1 DEF ExecutionInv, AllUnderWay, UnderWay, Run, Holding
<1>5. ASSUME NEW w \in Workers PROVE Reports(w)'
  <2>1. CASE phase'[w] \in {"finalizing", "committing"}
    <3>1. /\ phase[w] \in {"finalizing", "committing"} /\ claim'[w] = claim[w]
          /\ result'[w].outcome = result[w].outcome
      BY <2>1 DEF Holding
    <3>2. Run(w)' = Run(w)
      BY <3>1 DEF Run
    <3> QED
      BY <1>1, <3>1, <3>2 DEF ExecutionInv, AllReports, Reports
  <2> QED
    BY <2>1 DEF Reports
<1>6. ASSUME NEW j \in Jobs PROVE History(j)'
  BY <1>1 DEF ExecutionInv, AllHistory, History
<1>7. AllReadOrReplaced' /\ Shape'
  BY <1>1 DEF ExecutionInv, AllReadOrReplaced, ReadOrReplaced, Shape
<1> QED
  BY <1>3, <1>4, <1>5, <1>6, <1>7 DEF ExecutionInv, AllReports, AllHistory

(* A worker that takes a job of which no attempt of this number has begun. *)
LEMMA ExecutionTaken ==
    ASSUME ExecutionInv, AttemptInv, NEW w \in Workers, CommitClaim(w),
           UNCHANGED <<creation, row, attempt>>
    PROVE  ExecutionInv'
<1> DEFINE i == claim[w].id
<1>1. i \in Jobs /\ jobs[i].status \in Claimable
  BY DEF CommitClaim, AttemptInv, HolderInv, ClaimsKnown, ClaimedRows
<1>2. /\ phase' = [phase EXCEPT ![w] = "executing"] /\ phase'[w] = "executing"
      /\ \A v \in Workers : v # w => phase'[v] = phase[v]
      /\ claim' = claim /\ result' = result
      /\ \A j \in Jobs : j # i => jobs'[j] = jobs[j]
      /\ jobs'[i].status = "in_progress" /\ jobs'[i].retryCount = jobs[i].retryCount
  BY <1>1 DEF CommitClaim, MarkInProgress, AttemptInv, HolderInv, TypeOK, Row
<1>3. \A a : Step(a)' = Step(a) /\ Begun(a)' = Begun(a) /\ Over(a)' = Over(a)
            /\ Succeeded(a)' = Succeeded(a) /\ OutcomeOf(a)' = OutcomeOf(a)
  BY DEF Step, Begun, Over, Succeeded, OutcomeOf
<1>4. phase[w] = "claiming"
  BY DEF CommitClaim
<1>5. \A v \in Workers, j \in Jobs : j # i => (Holds(v, j)' => Holds(v, j))
  BY <1>2 DEF Holds
<1>6. AllNumbered'
  <2> SUFFICES ASSUME NEW j \in Jobs, NEW r \in 0 .. MaxRetries - 1, NEW v \in Workers
               PROVE  Numbered(j, r, v)'
    BY DEF AllNumbered
  <2>1. Numbered(j, r, v)
    BY DEF ExecutionInv, AllNumbered
  <2>2. CASE j = i
    BY <1>1, <1>2, <1>3, <2>1, <2>2 DEF Numbered, Claimable
  <2>3. CASE j # i
    BY <1>2, <1>3, <1>5, <2>1, <2>3 DEF Numbered
  <2> QED
    BY <2>2, <2>3
<1>7. AllUnderWay'
  BY <1>2, <1>3, <1>4 DEF ExecutionInv, AllUnderWay, UnderWay
<1>8. ASSUME NEW v \in Workers PROVE Reports(v)'
  <2>1. Run(v)' = Run(v)
    BY <1>2 DEF Run
  <2> QED
    BY <1>2, <1>3, <2>1 DEF ExecutionInv, AllReports, Reports
<1>9. ASSUME NEW j \in Jobs PROVE History(j)'
  BY <1>2, <1>3 DEF ExecutionInv, AllHistory, History
<1>10. AllReadOrReplaced' /\ Shape'
  BY <1>3 DEF ExecutionInv, AllReadOrReplaced, ReadOrReplaced, Shape
<1> QED
  BY <1>6, <1>7, <1>8, <1>9, <1>10 DEF ExecutionInv, AllReports, AllHistory

(* A finalizer records what the execution has done, in the row of its job. *)
LEMMA ExecutionRecorded ==
    ASSUME ExecutionInv, AttemptInv, NEW w \in Workers,
           \/ FinalizeSuccess(w)
           \/ \E draw \in 0 .. Draws - 1 : FinalizeFailure(w, draw),
           UNCHANGED <<creation, row, attempt>>
    PROVE  ExecutionInv'
<1>1. phase[w] = "committing"
  BY DEF FinalizeSuccess, FinalizeFailure
<1>2. PICK i \in Jobs, n \in 0 .. MaxRetries - 1 :
        /\ i = claim[w].id /\ n = claim[w].retryCount /\ n = jobs[i].retryCount
        /\ jobs[i].status = "in_progress" /\ jobs[i] \in Row
  BY <1>1, RunIsExecution DEF Holding, AttemptInv, HolderInv, TypeOK
<1>3. /\ phase'[w] \notin Holding
      /\ \A v \in Workers : v # w => /\ phase'[v] = phase[v] /\ claim'[v] = claim[v]
                                     /\ result'[v] = result[v]
      /\ \A j \in Jobs : j # i => jobs'[j] = jobs[j]
  BY <1>2 DEF FinalizeSuccess, FinalizeFailure, NextRound, Forget, Holding, AttemptInv,
     HolderInv, TypeOK
<1>4. \/ /\ result[w].outcome # "failure"
         /\ jobs'[i].status = "completed" /\ jobs'[i].retryCount = n
      \/ /\ result[w].outcome = "failure"
         /\ jobs'[i].status \in {"failed", "retrying"} /\ jobs'[i].retryCount = n + 1
  <2>1. CASE FinalizeSuccess(w)
    BY <1>2, <2>1 DEF FinalizeSuccess, AttemptInv, HolderInv, TypeOK, Row
  <2>2. CASE \E draw \in 0 .. Draws - 1 : FinalizeFailure(w, draw)
    <3>1. PICK draw \in 0 .. Draws - 1 : FinalizeFailure(w, draw)
      BY <2>2
    <3>2. /\ result[w].outcome = "failure"
          /\ \E status \in {"failed", "retrying"} : \E at :
                jobs' = [jobs EXCEPT ![i] = [status |-> status, retryCount |-> n + 1,
                                             nextRunAt |-> at]]
      BY <1>2, <3>1 DEF FinalizeFailure
    <3> QED
      BY <1>2, <3>2 DEF AttemptInv, HolderInv, TypeOK
  <2> QED
    BY <2>1, <2>2
<1>5. \A a : Step(a)' = Step(a) /\ Begun(a)' = Begun(a) /\ Over(a)' = Over(a)
            /\ Succeeded(a)' = Succeeded(a) /\ OutcomeOf(a)' = OutcomeOf(a)
  BY DEF Step, Begun, Over, Succeeded, OutcomeOf
<1>6. \A v \in Workers, j \in Jobs : Holds(v, j)' => Holds(v, j)
  BY <1>3 DEF Holds
<1>7. AllNumbered'
  <2> SUFFICES ASSUME NEW j \in Jobs, NEW r \in 0 .. MaxRetries - 1, NEW v \in Workers
               PROVE  Numbered(j, r, v)'
    BY DEF AllNumbered
  <2>1. Numbered(j, r, v) /\ jobs[j].retryCount \in Nat
    BY DEF ExecutionInv, AllNumbered, AttemptInv, HolderInv, TypeOK, Row
  <2>2. CASE j = i
    BY <1>2, <1>4, <1>5, <1>6, <2>1, <2>2 DEF Numbered
  <2>3. CASE j # i
    BY <1>3, <1>5, <1>6, <2>1, <2>3 DEF Numbered
  <2> QED
    BY <2>2, <2>3
<1>8. AllUnderWay'
  BY <1>1, <1>3, <1>5 DEF ExecutionInv, AllUnderWay, UnderWay
<1>9. ASSUME NEW v \in Workers PROVE Reports(v)'
  <2>1. CASE v = w
    BY <1>3, <2>1 DEF Reports, Holding
  <2>2. CASE v # w
    <3>1. Run(v)' = Run(v)
      BY <1>3, <2>2 DEF Run
    <3> QED
      BY <1>3, <1>5, <2>2, <3>1 DEF ExecutionInv, AllReports, Reports
  <2> QED
    BY <2>1, <2>2
<1>10. ASSUME NEW j \in Jobs PROVE History(j)'
  <2>1. History(j)
    BY DEF ExecutionInv, AllHistory
  <2>2. CASE j # i
    BY <1>3, <1>5, <2>1, <2>2 DEF History
  <2>3. CASE j = i /\ RouteOf[i] = "html_ics_sync"
    <3>1. /\ Over(<<i, n, w>>) /\ result[w].outcome = OutcomeOf(<<i, n, w>>)
      BY <1>1, <1>2, <2>3 DEF ExecutionInv, AllReports, Reports, Run
    <3>2. CASE result[w].outcome # "failure"
      <4>1. Succeeded(<<i, n, w>>)' /\ jobs'[i].retryCount = n
        BY <1>4, <1>5, <3>1, <3>2 DEF OutcomeOf
      <4> QED
        BY <1>2, <1>5, <2>1, <2>3, <4>1 DEF History
    <3>3. CASE result[w].outcome = "failure"
      <4>1. Over(<<i, n, w>>)' /\ ~Succeeded(<<i, n, w>>)'
        BY <1>5, <3>1, <3>3 DEF OutcomeOf
      <4>2. jobs'[i].status # "completed" /\ jobs'[i].retryCount = n + 1
        BY <1>4, <3>3
      <4>3. \A r \in 0 .. MaxRetries - 1 : r < n + 1 => r < n \/ r = n
        BY <1>2
      <4> QED
        BY <1>2, <1>5, <2>1, <2>3, <4>1, <4>2, <4>3 DEF History
    <3> QED
      BY <3>2, <3>3
  <2> QED
    BY <2>2, <2>3 DEF History
<1>11. AllReadOrReplaced' /\ Shape'
  BY <1>5 DEF ExecutionInv, AllReadOrReplaced, ReadOrReplaced, Shape
<1> QED
  BY <1>7, <1>8, <1>9, <1>10, <1>11 DEF ExecutionInv, AllReports, AllHistory

(* The executor returns, the router falls back: the outcome is of the step. *)
LEMMA ExecutionReturned ==
    ASSUME ExecutionInv, AttemptInv, NEW w \in Workers, Return(w) \/ FallBack(w)
    PROVE  ExecutionInv'
<1> DEFINE i == claim[w].id
<1>1. phase[w] = "executing" /\ i \in Jobs
  BY RunIsExecution DEF Return, FallBack, Routed, Execute, Holding
<1>2. /\ phase'[w] = "finalizing"
      /\ \A v \in Workers : v # w => phase'[v] = phase[v] /\ result'[v] = result[v]
      /\ claim' = claim /\ jobs' = jobs
      /\ UNCHANGED <<creation, row, attempt>>
  BY DEF Return, FallBack, Execute, dbVars, feedVars, AttemptInv, HolderInv, TypeOK
<1>3. \A a : Step(a)' = Step(a) /\ Begun(a)' = Begun(a) /\ Over(a)' = Over(a)
            /\ Succeeded(a)' = Succeeded(a) /\ OutcomeOf(a)' = OutcomeOf(a)
  BY <1>2 DEF Step, Begun, Over, Succeeded, OutcomeOf
<1>4. \A v \in Workers, j \in Jobs : Holds(v, j)' => Holds(v, j)
  BY <1>1, <1>2 DEF Holds, Holding
<1>5. AllNumbered'
  BY <1>2, <1>3, <1>4 DEF ExecutionInv, AllNumbered, Numbered
<1>6. AllUnderWay'
  <2> SUFFICES ASSUME NEW j \in Jobs, NEW r \in 0 .. MaxRetries - 1, NEW v \in Workers
               PROVE  UnderWay(j, r, v)'
    BY DEF AllUnderWay
  <2>1. UnderWay(j, r, v) /\ Numbered(j, r, v)
    BY DEF ExecutionInv, AllUnderWay, AllNumbered
  <2>2. CASE v = w
    BY <1>2, <1>3, <2>1, <2>2 DEF UnderWay, Numbered, Return, FallBack, Run
  <2>3. CASE v # w
    BY <1>2, <1>3, <2>1, <2>3 DEF UnderWay
  <2> QED
    BY <2>2, <2>3
<1>7. ASSUME NEW v \in Workers PROVE Reports(v)'
  <2>1. Run(v)' = Run(v)
    BY <1>2 DEF Run
  <2>2. CASE v = w
    <3>1. Return(w) => Over(Run(w)) /\ result'[w].outcome = OutcomeOf(Run(w))
      BY DEF Return, Execute, AttemptInv, HolderInv, TypeOK
    <3>2. FallBack(w) => RouteOf[i] # "html_ics_sync"
      BY DEF FallBack
    <3> QED
      BY <1>2, <1>3, <2>1, <2>2, <3>1, <3>2 DEF Reports
  <2>3. CASE v # w
    BY <1>2, <1>3, <2>1, <2>3 DEF ExecutionInv, AllReports, Reports
  <2> QED
    BY <2>2, <2>3
<1>8. ASSUME NEW j \in Jobs PROVE History(j)'
  BY <1>2, <1>3 DEF ExecutionInv, AllHistory, History
<1>9. AllReadOrReplaced' /\ Shape'
  BY <1>2, <1>3 DEF ExecutionInv, AllReadOrReplaced, ReadOrReplaced, Shape
<1> QED
  BY <1>5, <1>6, <1>7, <1>8, <1>9 DEF ExecutionInv, AllReports, AllHistory

-----------------------------------------------------------------------------
(* What a step of an executor changes: its own record, and the row when it  *)
(* writes.                                                                  *)
LEMMA ExecutorMoves ==
    ASSUME Shape, NEW a \in Executions,
           Feed!Load(a) \/ Feed!Fetch(a) \/ Feed!Write(a) \/ Feed!Abandon(a)
    PROVE  /\ Shape' /\ creation' = creation /\ Begun(a)' /\ ~Over(a)
           /\ \A b \in Executions : b # a => attempt'[b] = attempt[b]
           /\ Begun(a) \/ (creation = "created" /\ attempt'[a].read = row)
           /\ Begun(a) => attempt'[a].read = attempt[a].read
           /\ row' = row \/ (Over(a)' /\ row' = attempt'[a].next)
           /\ Feed!Abandon(a) => Over(a)'
<1>0. Feed!Abandon(a) => Over(a)'
  <2> SUFFICES ASSUME Feed!Abandon(a) PROVE attempt'[a].step = "thrown"
    BY DEF Over, Step
  <2>1. attempt' = [attempt EXCEPT ![a].step = "thrown"]
    BY DEF Feed!Abandon
  <2>2. attempt[a] = [step |-> attempt[a].step, read |-> attempt[a].read,
                      next |-> attempt[a].next]
    BY DEF Shape
  <2>3. attempt'[a] = [attempt[a] EXCEPT !.step = "thrown"]
    BY <2>1 DEF Shape
  <2> QED
    BY <2>2, <2>3
<1>1. CASE Feed!Load(a)
  BY <1>0, <1>1 DEF Shape, Feed!Load, Begun, Over, Step, Feed!AttemptSteps
<1>2. CASE Feed!Fetch(a)
  <2>1. PICK step \in {"thrown", "fetched"}, doc \in Feed!Results(attempt[a].next) :
           attempt' = [attempt EXCEPT ![a].step = step, ![a].next = doc]
    BY <1>2 DEF Feed!Fetch
  <2>2. /\ attempt[a].step = "loaded" /\ row' = row /\ creation' = creation
    BY <1>2 DEF Feed!Fetch
  <2>3. /\ attempt'[a] = [step |-> step, read |-> attempt[a].read, next |-> doc]
        /\ \A b \in Executions : b # a => attempt'[b] = attempt[b]
        /\ attempt' = [b \in Executions |-> attempt'[b]]
    <3>1. /\ attempt = [b \in Executions |-> attempt[b]]
          /\ attempt[a] = [step |-> attempt[a].step, read |-> attempt[a].read,
                           next |-> attempt[a].next]
      BY DEF Shape
    <3> QED
      BY <2>1, <3>1
  <2>4. attempt'[a].step \in {"thrown", "fetched"} /\ attempt'[a].read = attempt[a].read
    BY <2>3
  <2>5. Shape'
    BY <2>3, <2>4 DEF Shape, Step, Feed!AttemptSteps
  <2>6. \A b \in Executions : b # a => attempt'[b] = attempt[b]
    BY <2>3
  <2>7. Begun(a)' /\ Begun(a) /\ ~Over(a)
    BY <2>2, <2>4 DEF Begun, Over, Step
  <2> QED
    BY <1>0, <2>2, <2>4, <2>5, <2>6, <2>7
<1>3. CASE Feed!Write(a)
  BY <1>0, <1>3 DEF Shape, Feed!Write, Begun, Over, Step, Feed!AttemptSteps
<1>4. CASE Feed!Abandon(a)
  BY <1>4 DEF Shape, Feed!Abandon, Begun, Over, Step, Feed!AttemptSteps
<1> QED
  BY <1>1, <1>2, <1>3, <1>4

(* A step of the executor, or the end of one that dies with its worker:     *)
(* either way the worker was the only one to hold the job.                  *)
LEMMA ExecutionMoved ==
    ASSUME ExecutionInv, AttemptInv, NEW w \in Workers, phase[w] = "executing",
           RouteOf[claim[w].id] = "html_ics_sync" \/ Begun(Run(w)),
           \/ Feed!Load(Run(w)) \/ Feed!Fetch(Run(w)) \/ Feed!Write(Run(w))
           \/ Feed!Abandon(Run(w)),
           jobs' = jobs,
           \A v \in Workers : v # w => /\ phase'[v] = phase[v] /\ claim'[v] = claim[v]
                                      /\ result'[v] = result[v],
           \/ phase'[w] = "executing" /\ claim'[w] = claim[w]
           \/ phase'[w] = "down" /\ Feed!Abandon(Run(w))
    PROVE  ExecutionInv'
<1>1. PICK i \in Jobs, n \in 0 .. MaxRetries - 1 :
        /\ i = claim[w].id /\ n = claim[w].retryCount /\ n = jobs[i].retryCount
        /\ jobs[i].status = "in_progress" /\ Holds(w, i)
        /\ \A v \in Workers : Holds(v, i) => v = w
  BY RunIsExecution DEF Holding, Holds
<1>2. PICK a \in Executions : a = Run(w) /\ a = <<i, n, w>>
  BY <1>1, RunIsExecution DEF Holding, Run
<1>3. /\ Shape' /\ creation' = creation /\ Begun(a)' /\ ~Over(a)
      /\ \A b \in Executions : b # a => attempt'[b] = attempt[b]
      /\ Begun(a) \/ (creation = "created" /\ attempt'[a].read = row)
      /\ Begun(a) => attempt'[a].read = attempt[a].read
      /\ row' = row \/ (Over(a)' /\ row' = attempt'[a].next)
      /\ Feed!Abandon(a) => Over(a)'
  <2>1. Feed!Load(a) \/ Feed!Fetch(a) \/ Feed!Write(a) \/ Feed!Abandon(a)
    BY <1>2
  <2> QED
    BY <2>1, ExecutorMoves DEF ExecutionInv
<1>4. \A b \in Executions : b # a => /\ Step(b)' = Step(b) /\ Begun(b)' = Begun(b)
                                    /\ Over(b)' = Over(b) /\ Succeeded(b)' = Succeeded(b)
                                    /\ OutcomeOf(b)' = OutcomeOf(b)
  BY <1>3 DEF Step, Begun, Over, Succeeded, OutcomeOf
<1>5. \A j \in Jobs, r \in 0 .. MaxRetries - 1, v \in Workers :
         <<j, r, v>> \in Executions /\ (<<j, r, v>> = a <=> j = i /\ r = n /\ v = w)
  BY <1>2 DEF Executions
<1>6. \A v \in Workers, j \in Jobs : Holds(v, j)' => Holds(v, j)
  BY DEF Holds, Holding
<1>7. creation = "created" /\ RouteOf[i] = "html_ics_sync"
  <2>1. Begun(a) => Numbered(i, n, w)
    BY DEF ExecutionInv, AllNumbered
  <2> QED
    BY <1>1, <1>2, <1>3, <2>1 DEF Numbered
<1>8. \A v \in Workers : Begun(<<i, n, v>>) => v = w
  <2> SUFFICES ASSUME NEW v \in Workers, Begun(<<i, n, v>>) PROVE v = w
    OBVIOUS
  <2>1. Numbered(i, n, v)
    BY DEF ExecutionInv, AllNumbered
  <2> QED
    BY <1>1, <2>1 DEF Numbered
<1>9. AllNumbered'
  <2> SUFFICES ASSUME NEW j \in Jobs, NEW r \in 0 .. MaxRetries - 1, NEW v \in Workers
               PROVE  Numbered(j, r, v)'
    BY DEF AllNumbered
  <2>1. Numbered(j, r, v)
    BY DEF ExecutionInv, AllNumbered
  <2>2. CASE j = i /\ r = n
    <3>1. \A u \in Workers : Begun(<<j, r, u>>)' => u = w
      BY <1>4, <1>5, <1>8, <2>2
    <3> QED
      BY <1>1, <1>3, <1>6, <1>7, <2>2, <3>1 DEF Numbered
  <2>3. CASE ~(j = i /\ r = n)
    <3>1. \A u \in Workers : Begun(<<j, r, u>>)' = Begun(<<j, r, u>>)
      BY <1>4, <1>5, <2>3
    <3> QED
      BY <1>3, <1>6, <2>1, <3>1 DEF Numbered
  <2> QED
    BY <2>2, <2>3
<1>10. AllUnderWay'
  <2> SUFFICES ASSUME NEW j \in Jobs, NEW r \in 0 .. MaxRetries - 1, NEW v \in Workers
               PROVE  UnderWay(j, r, v)'
    BY DEF AllUnderWay
  <2>1. UnderWay(j, r, v)
    BY DEF ExecutionInv, AllUnderWay
  <2>2. CASE <<j, r, v>> = a
    <3>1. j = i /\ r = n /\ v = w
      BY <1>5, <2>2
    <3> QED
      BY <1>1, <1>2, <1>3, <2>2, <3>1 DEF UnderWay
  <2>3. CASE <<j, r, v>> # a
    <3>1. v = w => ~(Begun(<<j, r, v>>) /\ ~Over(<<j, r, v>>))
      BY <1>1, <1>5, <2>1, <2>3 DEF UnderWay
    <3> QED
      BY <1>4, <1>5, <2>1, <2>3, <3>1 DEF UnderWay
  <2> QED
    BY <2>2, <2>3
<1>11. ASSUME NEW v \in Workers PROVE Reports(v)'
  <2>1. CASE v = w
    BY <2>1 DEF Reports
  <2>2. CASE v # w /\ phase[v] \in {"finalizing", "committing"}
    <3>1. Run(v)' = Run(v) /\ Run(v) \in Executions /\ Run(v) # a
      BY <1>2, <2>2, RunIsExecution DEF Run, Holding
    <3> QED
      BY <1>4, <2>2, <3>1 DEF ExecutionInv, AllReports, Reports
  <2>3. CASE v # w /\ phase[v] \notin {"finalizing", "committing"}
    BY <2>3 DEF Reports
  <2> QED
    BY <2>1, <2>2, <2>3
<1>12. ASSUME NEW j \in Jobs PROVE History(j)'
  <2>1. History(j)
    BY DEF ExecutionInv, AllHistory
  <2>2. jobs[j].status = "completed" => jobs[j].retryCount \in 0 .. MaxRetries - 1
    BY QueueAssumption DEF AttemptInv, HolderInv, TypeOK, Row, AttemptsAccounted
  <2>3. \A r \in 0 .. MaxRetries - 1, v \in Workers :
           (j # i \/ r < n) => /\ Over(<<j, r, v>>)' = Over(<<j, r, v>>)
                             /\ Succeeded(<<j, r, v>>)' = Succeeded(<<j, r, v>>)
    BY <1>4, <1>5
  <2>4. CASE j = i
    BY <1>1, <2>1, <2>3, <2>4 DEF History
  <2>5. CASE j # i
    BY <2>1, <2>2, <2>3, <2>5 DEF History
  <2> QED
    BY <2>4, <2>5
<1>13. ASSUME NEW b \in Executions PROVE ReadOrReplaced(b)'
  <2> SUFFICES ASSUME Begun(b)', ~Over(b)'
               PROVE  \/ row' = attempt'[b].read
                      \/ \E c \in Executions :
                            JobOf(c) # JobOf(b) /\ Over(c)' /\ row' = attempt'[c].next
    BY DEF ReadOrReplaced, JobOf
  <2>1. ReadOrReplaced(b)
    BY DEF ExecutionInv, AllReadOrReplaced
  <2>2. CASE row' = row
    <3>1. \A c \in Executions : Over(c) => Over(c)' /\ attempt'[c] = attempt[c]
      BY <1>3, <1>4
    <3>2. CASE b = a /\ ~Begun(a)
      BY <1>3, <2>2, <3>2
    <3>3. CASE b = a /\ Begun(a)
      BY <1>3, <2>1, <2>2, <3>1, <3>3 DEF ReadOrReplaced
    <3>4. CASE b # a
      BY <1>3, <1>4, <2>1, <2>2, <3>1, <3>4 DEF ReadOrReplaced
    <3> QED
      BY <3>2, <3>3, <3>4
  <2>3. CASE Over(a)' /\ row' = attempt'[a].next
    <3>1. b # a
      BY <2>3
    <3>2. PICK j \in Jobs, r \in 0 .. MaxRetries - 1, v \in Workers : b = <<j, r, v>>
      BY DEF Executions
    <3>3. UnderWay(j, r, v) /\ Begun(b) /\ ~Over(b)
      BY <1>4, <3>1, <3>2 DEF ExecutionInv, AllUnderWay
    <3>4. Holds(v, j) /\ claim[v].id = j /\ claim[v].retryCount = r
      BY <3>2, <3>3 DEF UnderWay, Holds, Holding
    <3>5. j # i
      BY <1>1, <1>2, <3>1, <3>2, <3>4
    <3> QED
      BY <1>2, <2>3, <3>2, <3>5 DEF JobOf
  <2> QED
    BY <1>3, <2>2, <2>3
<1> QED
  BY <1>3, <1>9, <1>10, <1>11, <1>12, <1>13
     DEF ExecutionInv, AllReports, AllHistory, AllReadOrReplaced

(* While the connector comes into being, no execution has begun. *)
LEMMA ConnectorMoved ==
    ASSUME ExecutionInv, ConnectorStep
    PROVE  ExecutionInv'
<1>1. /\ UNCHANGED <<vars, attempt>>
      /\ UNCHANGED <<creation, row>> \/ creation # "created"
  BY DEF ConnectorStep, Feed!TestFeed, Feed!InsertConnector, Feed!Publish
<1>2. UNCHANGED <<jobs, phase, claim, result, attempt>>
  BY <1>1 DEF vars, dbVars, workerVars
<1>3. CASE UNCHANGED <<creation, row>>
  BY <1>2, <1>3, Unnoticed
<1>4. CASE creation # "created"
  <2>1. \A j \in Jobs, r \in 0 .. MaxRetries - 1, w \in Workers : ~Begun(<<j, r, w>>)
    BY <1>4 DEF ExecutionInv, AllNumbered, Numbered
  <2>2. \A a \in Executions : ~Begun(a)
    BY <2>1 DEF Executions
  <2>3. \A a : Step(a)' = Step(a) /\ Begun(a)' = Begun(a) /\ Over(a)' = Over(a)
              /\ Succeeded(a)' = Succeeded(a) /\ OutcomeOf(a)' = OutcomeOf(a)
    BY <1>2 DEF Step, Begun, Over, Succeeded, OutcomeOf
  <2>4. AllNumbered' /\ AllUnderWay'
    BY <2>1, <2>3 DEF AllNumbered, AllUnderWay, Numbered, UnderWay
  <2>5. AllReadOrReplaced' /\ Shape'
    BY <1>2, <2>2, <2>3 DEF ExecutionInv, AllReadOrReplaced, ReadOrReplaced, Shape
  <2>6. ASSUME NEW w \in Workers PROVE Reports(w)'
    BY <1>2, <2>3 DEF ExecutionInv, AllReports, Reports, Run
  <2>7. ASSUME NEW j \in Jobs PROVE History(j)'
    BY <1>2, <2>3 DEF ExecutionInv, AllHistory, History
  <2> QED
    BY <2>4, <2>5, <2>6, <2>7 DEF ExecutionInv, AllReports, AllHistory
<1> QED
  BY <1>1, <1>3, <1>4

(* A worker that dies takes its execution with it. *)
LEMMA ExecutorPerished ==
    ASSUME ExecutionInv, AttemptInv, NEW w \in Workers, Perish(w)
    PROVE  ExecutionInv'
<1>1. /\ jobs' = jobs /\ phase'[w] = "down" /\ phase[w] # "down"
      /\ \A v \in Workers : v # w => /\ phase'[v] = phase[v] /\ claim'[v] = claim[v]
                                     /\ result'[v] = result[v]
  BY DEF Perish, Crash, KillBySignal, Die, Forget, dbVars, AttemptInv, HolderInv, TypeOK
<1>2. CASE phase[w] = "executing" /\ Step(Run(w)) \in {"loaded", "fetched"}
  <2>1. Feed!Abandon(Run(w)) /\ Begun(Run(w))
    BY <1>2 DEF Perish, Begun
  <2> QED
    BY <1>1, <1>2, <2>1, ExecutionMoved
<1>3. CASE ~(phase[w] = "executing" /\ Step(Run(w)) \in {"loaded", "fetched"})
  <2>1. UNCHANGED <<creation, row, attempt>>
    BY <1>3 DEF Perish, feedVars
  <2>2. phase[w] = "executing" => ~Begun(Run(w)) \/ Over(Run(w))
    <3> SUFFICES ASSUME phase[w] = "executing"
                 PROVE  ~Begun(Run(w)) \/ Over(Run(w))
      OBVIOUS
    <3>1. Step(Run(w)) \in Feed!AttemptSteps
      BY RunIsExecution DEF Holding, ExecutionInv, Shape
    <3> QED
      BY <1>3, <3>1 DEF Feed!AttemptSteps, Begun, Over
  <2> QED
    BY <1>1, <2>1, <2>2, Unnoticed DEF Holding
<1> QED
  BY <1>2, <1>3

(* The queue's other steps, in which no execution has a part. *)
LEMMA QueueMoved ==
    ASSUME ExecutionInv, AttemptInv, UNCHANGED feedVars,
           \/ Tick
           \/ \E j \in Jobs : Enqueue(j)
           \/ \E w \in Workers :
                 \/ Start(w) \/ Poll(w) \/ LeaveLoop(w) \/ Stop(w) \/ Exit(w)
                 \/ ClaimStep(w) /\ ~CommitClaim(w)
                 \/ BeginFinalize(w)
    PROVE  ExecutionInv'
<1>0. UNCHANGED <<creation, row, attempt>>
  BY DEF feedVars
<1>1. CASE Tick
  BY <1>0, <1>1, Unnoticed DEF Tick, dbVars, workerVars
<1>2. CASE \E j \in Jobs : Enqueue(j)
  <2>1. PICK j \in Jobs : Enqueue(j)
    BY <1>2
  <2>2. /\ jobs[j].status = "absent" /\ jobs[j].retryCount = 0
        /\ \E at : jobs' = [jobs EXCEPT ![j] = [status |-> "pending", retryCount |-> 0,
                                                nextRunAt |-> at]]
        /\ UNCHANGED <<phase, claim, result>>
    BY <2>1 DEF Enqueue, AttemptInv, NewRowsUntried, workerVars
  <2>3. \A k \in Jobs : /\ jobs'[k].retryCount = jobs[k].retryCount
                        /\ \/ jobs'[k] = jobs[k]
                           \/ jobs[k].status = "absent" /\ jobs'[k].status = "pending"
    BY <2>2 DEF AttemptInv, HolderInv, TypeOK
  <2> QED
    BY <1>0, <2>2, <2>3, Unnoticed
<1>3. ASSUME NEW w \in Workers,
             \/ Start(w) \/ Poll(w) \/ LeaveLoop(w) \/ Stop(w) \/ Exit(w)
             \/ ClaimStep(w) /\ ~LoseClaimReply(w) /\ ~CommitClaim(w)
      PROVE  ExecutionInv'
  <2>1. /\ jobs' = jobs
        /\ \A v \in Workers : v # w => /\ phase'[v] = phase[v] /\ claim'[v] = claim[v]
                                       /\ result'[v] = result[v]
        /\ \/ phase'[w] = phase[w] /\ claim'[w] = claim[w] /\ result'[w] = result[w]
           \/ phase'[w] \notin Holding /\ phase[w] # "executing"
    BY <1>3 DEF Start, Poll, LeaveLoop, Stop, Exit, ClaimStep, BeginClaim, LockJob,
       SerializationFailure, NoJobFound, DatabaseError, EndTick, Forget, dbVars, Holding,
       AttemptInv, HolderInv, TypeOK
  <2> QED
    BY <1>0, <2>1, Unnoticed
<1>4. ASSUME NEW w \in Workers, LoseClaimReply(w)
      PROVE  ExecutionInv'
  <2>1. claim[w].id \in Jobs /\ jobs[claim[w].id].status \in Claimable
    BY <1>4 DEF LoseClaimReply, AttemptInv, HolderInv, ClaimsKnown, ClaimedRows
  <2>2. \A k \in Jobs : /\ jobs'[k].retryCount = jobs[k].retryCount
                        /\ \/ jobs'[k] = jobs[k]
                           \/ /\ jobs[k].status \in Claimable
                              /\ jobs'[k].status = "in_progress"
    BY <1>4, <2>1 DEF LoseClaimReply, MarkInProgress, AttemptInv, HolderInv, TypeOK, Row
  <2>3. /\ \A v \in Workers : v # w => /\ phase'[v] = phase[v] /\ claim'[v] = claim[v]
                                       /\ result'[v] = result[v]
        /\ phase'[w] \notin Holding /\ phase[w] # "executing"
    BY <1>4 DEF LoseClaimReply, EndTick, Forget, Holding, AttemptInv, HolderInv, TypeOK
  <2> QED
    BY <1>0, <2>2, <2>3, Unnoticed DEF Claimable
<1>5. ASSUME NEW w \in Workers, BeginFinalize(w)
      PROVE  ExecutionInv'
  <2>1. /\ jobs' = jobs /\ claim' = claim
        /\ \A v \in Workers : v # w => phase'[v] = phase[v] /\ result'[v] = result[v]
        /\ phase[w] = "finalizing" /\ phase'[w] = "committing"
        /\ result'[w].outcome = result[w].outcome
    BY <1>5 DEF BeginFinalize, dbVars, AttemptInv, HolderInv, TypeOK, Results
  <2> QED
    BY <1>0, <2>1, Unnoticed
<1> QED
  BY <1>1, <1>2, <1>3, <1>4, <1>5

-----------------------------------------------------------------------------
LEMMA ExecutionStepInv ==
    ASSUME ExecutionInv, AttemptInv, [ExecutionNext]_executionVars
    PROVE  ExecutionInv'
<1>1. CASE ConnectorStep
  BY <1>1, ConnectorMoved
<1>2. CASE (\E j \in Jobs : QueueFor(j)) \/ (Tick /\ UNCHANGED feedVars)
  BY <1>2, QueueMoved DEF QueueFor
<1>3. ASSUME NEW w \in Workers, ExecutorStep(w) PROVE ExecutionInv'
  BY <1>3, ExecutionMoved DEF ExecutorStep, Routed, vars, dbVars, workerVars
<1>4. ASSUME NEW w \in Workers, Return(w) \/ FallBack(w) PROVE ExecutionInv'
  BY <1>4, ExecutionReturned
<1>5. ASSUME NEW w \in Workers, Perish(w) PROVE ExecutionInv'
  BY <1>5, ExecutorPerished
<1>6. ASSUME NEW w \in Workers, QueueStep(w) PROVE ExecutionInv'
  <2>0. UNCHANGED feedVars /\ UNCHANGED <<creation, row, attempt>>
    BY <1>6 DEF QueueStep, feedVars
  <2>1. CASE CommitClaim(w)
    BY <2>0, <2>1, ExecutionTaken
  <2>2. CASE FinalizeSuccess(w) \/ \E draw \in 0 .. Draws - 1 : FinalizeFailure(w, draw)
    BY <2>0, <2>2, ExecutionRecorded
  <2>3. CASE \/ Start(w) \/ Poll(w) \/ LeaveLoop(w) \/ Stop(w) \/ Exit(w)
             \/ ClaimStep(w) /\ ~CommitClaim(w)
             \/ BeginFinalize(w)
    BY <2>0, <2>3, QueueMoved
  <2> QED
    BY <1>6, <2>1, <2>2, <2>3 DEF QueueStep
<1>7. CASE UNCHANGED executionVars
  <2>1. UNCHANGED <<creation, row, attempt, jobs, phase, claim, result>>
    BY <1>7 DEF executionVars, feedVars, vars, dbVars, workerVars
  <2> QED
    BY <2>1, Unnoticed
<1> QED
  BY <1>1, <1>2, <1>3, <1>4, <1>5, <1>6, <1>7 DEF ExecutionNext

LEMMA ExecutionInvariance == ExecutionSpec => [](ExecutionInv /\ AttemptInv)
<1>1. ExecutionInit => ExecutionInv
  BY ExecutionInitInv
<1>2. ExecutionInv /\ AttemptInv /\ [ExecutionNext]_executionVars => ExecutionInv'
  BY ExecutionStepInv
<1>3. ExecutionSpec => []AttemptInv
  BY ExecutionImplementsQueue, AttemptInvariant, PTL
<1> QED
  BY <1>1, <1>2, <1>3, PTL DEF ExecutionSpec

(* What the queue counts and what was done to the connector agree, for any  *)
(* jobs, workers and contents, with crashes, signals, rollbacks and lost    *)
(* replies at any point.                                                    *)
THEOREM ExecutionsCorrect == ExecutionSpec => []ExecutionsAccounted
<1>1. ExecutionInv /\ AttemptInv => ExecutionsAccounted
  <2> SUFFICES ASSUME ExecutionInv, AttemptInv, NEW j \in Jobs,
                      RouteOf[j] = "html_ics_sync"
               PROVE  /\ \A r \in 0 .. MaxRetries - 1, v, w \in Workers :
                            Begun(<<j, r, v>>) /\ Begun(<<j, r, w>>) => v = w
                      /\ \A r \in 0 .. MaxRetries - 1, w \in Workers :
                            r > jobs[j].retryCount => ~Begun(<<j, r, w>>)
                      /\ History(j)
    BY DEF ExecutionsAccounted, History, Begun
  <2>1. jobs[j].retryCount \in Nat
    BY DEF AttemptInv, HolderInv, TypeOK, Row
  <2> QED
    BY <2>1 DEF ExecutionInv, AllNumbered, Numbered, AllHistory
<1> QED
  BY <1>1, ExecutionInvariance, PTL

(* A job never writes behind its own back, whatever becomes of the workers  *)
(* that run it: only another job of the connector can be overwritten.       *)
THEOREM NoSelfOvertaking == ExecutionSpec => NeverOvertakesItself
<1>1. ExecutionInv /\ AttemptInv =>
        \A a \in Executions :
          (Step(a) = "fetched" /\ attempt'[a].step # "fetched" /\ row' # row)
          => \/ row = attempt[a].read
             \/ \E b \in Executions :
                   JobOf(b) # JobOf(a) /\ Over(b) /\ row = attempt[b].next
  BY DEF ExecutionInv, AllReadOrReplaced, ReadOrReplaced, Begun, Over
<1> QED
  BY <1>1, ExecutionInvariance, PTL DEF NeverOvertakesItself

(* The composition implements the connector as well: to FeedSync, the jobs  *)
(* that workers run are attempts, each of which happens at most once.       *)
THEOREM ExecutionImplementsFeed == ExecutionSpec => Feed!FeedSpec
<1>1. ExecutionInit => Feed!FeedInit
  BY DEF ExecutionInit
<1>2. AttemptInv /\ [ExecutionNext]_executionVars => [Feed!FeedNext]_(Feed!feedVars)
  <2> SUFFICES ASSUME AttemptInv, [ExecutionNext]_executionVars
               PROVE  Feed!FeedNext \/ UNCHANGED feedVars
    BY DEF feedVars, Feed!feedVars
  <2>1. CASE ConnectorStep
    BY <2>1 DEF ConnectorStep, Feed!FeedNext
  <2>2. ASSUME NEW w \in Workers, ExecutorStep(w) PROVE Feed!FeedNext
    <3>1. Run(w) \in Executions
      BY <2>2, RunIsExecution DEF ExecutorStep, Routed, Holding
    <3> QED
      BY <2>2, <3>1 DEF ExecutorStep, Feed!FeedNext
  <2>3. ASSUME NEW w \in Workers, Perish(w) PROVE Feed!FeedNext \/ UNCHANGED feedVars
    <3>1. phase[w] = "executing" => Run(w) \in Executions
      BY RunIsExecution DEF Holding
    <3> QED
      BY <2>3, <3>1 DEF Perish, Feed!FeedNext
  <2>4. CASE (\E j \in Jobs : QueueFor(j)) \/ (Tick /\ UNCHANGED feedVars)
    BY <2>4 DEF QueueFor
  <2>5. ASSUME NEW w \in Workers, Return(w) \/ FallBack(w) \/ QueueStep(w)
        PROVE  UNCHANGED feedVars
    BY <2>5 DEF Return, FallBack, QueueStep
  <2>6. CASE UNCHANGED executionVars
    BY <2>6 DEF executionVars
  <2>7. CASE ExecutionNext
    BY <2>1, <2>2, <2>3, <2>4, <2>5, <2>7 DEF ExecutionNext
  <2> QED
    BY <2>6, <2>7
<1>3. ExecutionSpec => []AttemptInv
  BY ExecutionImplementsQueue, AttemptInvariant, PTL
<1> QED
  BY <1>1, <1>2, <1>3, PTL DEF ExecutionSpec, Feed!FeedSpec

=============================================================================
