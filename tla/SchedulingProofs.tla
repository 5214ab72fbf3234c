-------------------------- MODULE SchedulingProofs --------------------------
(***************************************************************************)
(* What holds of the scheduling route over the queue, for every set of      *)
(* requests, slots, keys, jobs and workers.  The composition is first shown *)
(* to be a QueueConsumer, which brings over what is proved there; the rest  *)
(* is about what a request's transaction has looked up.                     *)
(***************************************************************************)
EXTENDS Scheduling, QueueConsumerProofs

(* The route inserts a row the way QueueConsumer's environment does.        *)
LEMMA InsertEnqueues ==
    ASSUME TypeOK, NEW r, NEW j, InsertJob(r, j)
    PROVE  Enqueue(j)
<1>1. 0 \in StartDelays /\ now + 0 = now
  BY SchedulingAssumption DEF TypeOK
<1> QED  BY <1>1 DEF InsertJob, NewRow, Enqueue

LEMMA SchedulingSteps ==
    ASSUME TypeOK, [SchedulingNext]_schedulingVars
    PROVE  [Next]_vars
<1>1. ASSUME NEW r \in Requests, NEW j \in Jobs, InsertJob(r, j)
      PROVE  Next
  BY <1>1, InsertEnqueues DEF Next
<1>2. ASSUME NEW r \in Requests,
             CheckPause(r) \/ BeginSchedule(r) \/ ReturnFound(r) \/ ScheduleFails(r)
      PROVE  UNCHANGED vars
  BY <1>2 DEF CheckPause, BeginSchedule, ReturnFound, ScheduleFails
<1> QED  BY <1>1, <1>2 DEF SchedulingNext, schedulingVars, Next

LEMMA SchedulingHolders == SchedulingSpec => []HolderInv
<1>1. SchedulingInit => HolderInv
  BY TypesInit, ClaimsInit DEF SchedulingInit, HolderInv
<1>2. HolderInv /\ [SchedulingNext]_schedulingVars => HolderInv'
  BY SchedulingSteps, TypesNext, ClaimsNext DEF HolderInv
<1> QED  BY <1>1, <1>2, PTL DEF SchedulingSpec

(* Requests, with their races and repetitions, do to the queue's tables     *)
(* what QueueConsumer allows, and nothing else.                             *)
THEOREM SchedulingImplementsQueue == SchedulingSpec => ImplementsQueue
<1>1. SchedulingInit => Init
  BY DEF SchedulingInit
<1>2. HolderInv /\ [SchedulingNext]_schedulingVars => [Next]_vars
  BY SchedulingSteps DEF HolderInv
<1> QED  BY <1>1, <1>2, SchedulingHolders, PTL DEF SchedulingSpec, ImplementsQueue, Spec

(* What the queue guarantees, it guarantees below the route.                *)
COROLLARY ScheduledJobsAreSafe ==
    SchedulingSpec => [](OneHolder /\ AttemptsAccounted /\ BreakerConsistent /\
                         NoFailureUncounted /\ OrphansComeFromFaults)
BY SchedulingImplementsQueue, OneHolderCorrect, AttemptsCorrect, BreakerCorrect,
   FailuresCounted, OrphansCorrect, PTL DEF ImplementsQueue

-----------------------------------------------------------------------------
(* Types *)

RouteTypeOK ==
    /\ request \in [Requests -> [step : Steps, sends : 0 .. MaxSends, seen : SUBSET Jobs,
                                 found : Jobs \cup {NoJob}]]
    /\ keyColumn \in [Jobs -> Keys]
    /\ replies \in [Requests -> SUBSET Jobs]

LEMMA RouteTypesInit == SchedulingInit => RouteTypeOK
BY SchedulingAssumption DEF SchedulingInit, RouteTypeOK, Steps, Keys

LEMMA TypesAnswer ==
    ASSUME RouteTypeOK, NEW r \in Requests, NEW step \in Steps, Answer(r, step)
    PROVE  request' \in [Requests -> [step : Steps, sends : 0 .. MaxSends,
                                      seen : SUBSET Jobs, found : Jobs \cup {NoJob}]]
BY DEF RouteTypeOK, Answer

LEMMA RouteTypesNext ==
    ASSUME RouteTypeOK, [SchedulingNext]_schedulingVars
    PROVE  RouteTypeOK'
<1>1. ASSUME NEW r \in Requests, CheckPause(r)
      PROVE  RouteTypeOK'
  <2> DEFINE step == IF Paused(PairOfSlot[SlotOf[r]]) THEN "paused" ELSE "checked"
             new == [request[r] EXCEPT !.step = step, !.sends = request[r].sends + 1]
  <2>1. request[r].sends + 1 \in 0 .. MaxSends /\ step \in Steps
    BY <1>1, SchedulingAssumption DEF CheckPause, RouteTypeOK, Steps
  <2>2. new \in [step : Steps, sends : 0 .. MaxSends, seen : SUBSET Jobs,
                 found : Jobs \cup {NoJob}]
    BY <2>1 DEF RouteTypeOK
  <2>3. request' = [request EXCEPT ![r] = new]
    BY <1>1 DEF CheckPause, RouteTypeOK
  <2> HIDE DEF new
  <2> QED  BY <1>1, <2>2, <2>3 DEF RouteTypeOK, CheckPause
<1>2. ASSUME NEW r \in Requests, BeginSchedule(r)
      PROVE  RouteTypeOK'
  <2>1. Rows \in SUBSET Jobs /\ Matches(r) \in SUBSET Jobs /\ "deciding" \in Steps
    BY DEF Rows, Matches, SameKey, SameSlot, Steps
  <2>2. PICK found \in Jobs \cup {NoJob} :
           request' = [request EXCEPT ![r].step = "deciding", ![r].seen = Rows,
                                      ![r].found = found]
    BY <1>2, <2>1 DEF BeginSchedule
  <2> DEFINE new == [request[r] EXCEPT !.step = "deciding", !.seen = Rows, !.found = found]
  <2>3. new \in [step : Steps, sends : 0 .. MaxSends, seen : SUBSET Jobs,
                 found : Jobs \cup {NoJob}]
    BY <2>1 DEF RouteTypeOK
  <2>4. request' = [request EXCEPT ![r] = new]
    BY <2>2 DEF RouteTypeOK
  <2> HIDE DEF new
  <2> QED  BY <1>2, <2>3, <2>4 DEF RouteTypeOK, BeginSchedule
<1>3. ASSUME NEW r \in Requests, ReturnFound(r)
      PROVE  RouteTypeOK'
  <2>1. request[r].found \in Jobs /\ "accepted" \in Steps
    BY <1>3 DEF ReturnFound, RouteTypeOK, Steps
  <2> QED  BY <1>3, <2>1, TypesAnswer DEF ReturnFound, RouteTypeOK
<1>4. ASSUME NEW r \in Requests, NEW j \in Jobs, InsertJob(r, j)
      PROVE  RouteTypeOK'
  <2>1. "accepted" \in Steps /\ KeyOf[r] \in Keys
    BY DEF Steps, Keys
  <2> QED  BY <1>4, <2>1, TypesAnswer DEF InsertJob, RouteTypeOK
<1>5. ASSUME NEW r \in Requests, ScheduleFails(r)
      PROVE  RouteTypeOK'
  BY <1>5, TypesAnswer DEF ScheduleFails, RouteTypeOK, Steps
<1>6. CASE UNCHANGED routeVars
  BY <1>6 DEF routeVars, RouteTypeOK
<1> QED  BY <1>1, <1>2, <1>3, <1>4, <1>5, <1>6 DEF SchedulingNext, schedulingVars

(* The requests, the key column and the answers stay in their types, on top *)
(* of the queue's.                                                          *)
THEOREM SchedulingTypes == SchedulingSpec => []SchedulingTypeOK
<1>1. SchedulingInit => RouteTypeOK
  BY RouteTypesInit
<1>2. RouteTypeOK /\ [SchedulingNext]_schedulingVars => RouteTypeOK'
  BY RouteTypesNext
<1>3. HolderInv /\ RouteTypeOK => SchedulingTypeOK
  BY DEF HolderInv, RouteTypeOK, SchedulingTypeOK
<1> QED  BY <1>1, <1>2, <1>3, SchedulingHolders, PTL DEF SchedulingSpec

-----------------------------------------------------------------------------
(* What a transaction knows.  OneActiveRowPerSlot is not inductive: a       *)
(* transaction that has found nothing inserts later, when the rows that it  *)
(* saw have moved on and others have come.  Those it saw in its slot were   *)
(* over, and what is over stays over; those that came since are what        *)
(* SERIALIZABLE looks at.                                                   *)

Over == {"completed", "failed"}

LookupSound(r) ==
    /\ request[r].step # "deciding" => request[r].seen = {} /\ request[r].found = NoJob
    /\ request[r].seen \subseteq Rows
    /\ request[r].found # NoJob =>
          /\ request[r].found \in request[r].seen
          /\ SlotOf[request[r].found] = SlotOf[r] \/ request[r].found \in SameKey(r)
    /\ (request[r].step = "deciding" /\ request[r].found = NoJob) =>
          \A j \in request[r].seen : SlotOf[j] = SlotOf[r] => jobs[j].status \in Over
    /\ \A j \in request[r].seen :
          (KeyOf[r] # NoKey /\ keyColumn[j] = KeyOf[r]) => request[r].found = j

LookupsSound == \A r \in Requests : LookupSound(r)

KeysSound ==
    /\ \A j \in Jobs : jobs[j].status = "absent" => keyColumn[j] = NoKey
    /\ \A j, k \in Jobs :
          (keyColumn[j] # NoKey /\ keyColumn[j] = keyColumn[k]) => j = k

(* An answer names a row of the request's slot or with its key.             *)
AnswersSound ==
    \A r \in Requests : \A j \in replies[r] :
        j \in Rows /\ (SlotOf[j] = SlotOf[r] \/ j \in SameKey(r))

SlotInv ==
    /\ HolderInv /\ RouteTypeOK
    /\ LookupsSound /\ KeysSound /\ AnswersSound /\ OneActiveRowPerSlot

LEMMA SlotInit == SchedulingInit => SlotInv
<1> SUFFICES ASSUME SchedulingInit
             PROVE  SlotInv
  OBVIOUS
<1>1. HolderInv /\ RouteTypeOK
  BY TypesInit, ClaimsInit, RouteTypesInit DEF SchedulingInit, HolderInv
<1>2. LookupsSound
  BY DEF SchedulingInit, LookupsSound, LookupSound
<1>3. KeysSound /\ AnswersSound /\ OneActiveRowPerSlot
  BY DEF SchedulingInit, Init, KeysSound, AnswersSound, OneActiveRowPerSlot, ActiveStatuses
<1> QED  BY <1>1, <1>2, <1>3 DEF SlotInv

(* A worker's step, or a tick, leaves every row where it is, wakes no row   *)
(* that is over, and activates none.                                        *)
LEMMA QueueMovesRows ==
    ASSUME HolderInv, Tick \/ \E w \in Workers : WorkerStep(w), NEW j \in Jobs
    PROVE  /\ jobs'[j].status = "absent" <=> jobs[j].status = "absent"
           /\ jobs[j].status \in Over => jobs'[j].status \in Over
           /\ jobs'[j].status \in ActiveStatuses => jobs[j].status \in ActiveStatuses
<1>1. CASE Tick
  BY <1>1 DEF Tick, dbVars
<1>2. ASSUME NEW w \in Workers, WorkerStep(w)
      PROVE  \/ jobs'[j] = jobs[j]
             \/ jobs[j].status \in Claimable /\ jobs'[j].status = "in_progress"
             \/ /\ jobs[j].status = "in_progress"
                /\ jobs'[j].status \in {"completed", "failed", "retrying"}
  BY <1>2, RowSteps
<1> QED  BY <1>1, <1>2 DEF Over, ActiveStatuses, Claimable

(* What a transaction has seen stays true while others act.                 *)
LEMMA LookupStays ==
    ASSUME RouteTypeOK, NEW r \in Requests, LookupSound(r), request'[r] = request[r],
           \A j \in Rows : jobs'[j].status # "absent" /\ keyColumn'[j] = keyColumn[j],
           \A j \in Rows : jobs[j].status \in Over => jobs'[j].status \in Over
    PROVE  LookupSound(r)'
<1>1. request[r].seen \subseteq Rows /\ Rows \subseteq Rows'
  BY DEF LookupSound, Rows
<1>2. SameKey(r) \subseteq SameKey(r)'
  BY <1>1 DEF SameKey
<1> QED  BY <1>1, <1>2 DEF LookupSound

LEMMA AnswersStay ==
    ASSUME AnswersSound, replies' = replies,
           \A j \in Rows : jobs'[j].status # "absent" /\ keyColumn'[j] = keyColumn[j]
    PROVE  AnswersSound'
<1>1. Rows \subseteq Rows'
  BY DEF Rows
<1> QED  BY <1>1 DEF AnswersSound, SameKey

LEMMA SlotQueueStep ==
    ASSUME SlotInv, Tick \/ \E w \in Workers : WorkerStep(w), UNCHANGED routeVars
    PROVE  LookupsSound' /\ KeysSound' /\ AnswersSound' /\ OneActiveRowPerSlot'
<1> USE DEF SlotInv, routeVars
<1>1. \A j \in Jobs :
          /\ jobs'[j].status = "absent" <=> jobs[j].status = "absent"
          /\ jobs[j].status \in Over => jobs'[j].status \in Over
          /\ jobs'[j].status \in ActiveStatuses => jobs[j].status \in ActiveStatuses
  BY QueueMovesRows
<1>2. \A j \in Rows : jobs'[j].status # "absent" /\ keyColumn'[j] = keyColumn[j]
  BY <1>1 DEF Rows
<1>3. LookupsSound'
  BY <1>1, <1>2, LookupStays DEF LookupsSound, Rows
<1>4. KeysSound'
  BY <1>1 DEF KeysSound
<1>5. AnswersSound'
  BY <1>2, AnswersStay
<1>6. OneActiveRowPerSlot'
  BY <1>1 DEF OneActiveRowPerSlot
<1> QED  BY <1>3, <1>4, <1>5, <1>6

(* The steps of a request that write no row.                                *)
LEMMA SlotLookStep ==
    ASSUME SlotInv, NEW r \in Requests,
           CheckPause(r) \/ BeginSchedule(r) \/ ReturnFound(r) \/ ScheduleFails(r)
    PROVE  LookupsSound' /\ KeysSound' /\ AnswersSound' /\ OneActiveRowPerSlot'
<1> USE DEF SlotInv
<1>1. UNCHANGED <<jobs, keyColumn>>
  BY DEF CheckPause, BeginSchedule, ReturnFound, ScheduleFails, vars, dbVars
<1>2. Rows' = Rows /\ \A q : SameKey(q)' = SameKey(q)
  BY <1>1 DEF Rows, SameKey
<1>3. \A q \in Requests : q # r => request'[q] = request[q]
  BY DEF CheckPause, BeginSchedule, ReturnFound, ScheduleFails, Answer, RouteTypeOK
<1>4. \A q \in Requests : q # r => LookupSound(q)'
  BY <1>1, <1>2, <1>3, LookupStays DEF LookupsSound, Rows
<1>5. LookupSound(r)'
  <2>1. CASE CheckPause(r)
    <3>1. /\ request'[r].step # "deciding" /\ request[r].step # "deciding"
          /\ request'[r].seen = request[r].seen /\ request'[r].found = request[r].found
      BY <2>1 DEF CheckPause, RouteTypeOK, Answered
    <3> QED  BY <3>1 DEF LookupsSound, LookupSound
  <2>2. CASE BeginSchedule(r)
    <3>1. PICK found \in IF Matches(r) = {} THEN {NoJob} ELSE Matches(r) :
             /\ request'[r].step = "deciding" /\ request'[r].seen = Rows
             /\ request'[r].found = found
      <4>1. PICK found \in IF Matches(r) = {} THEN {NoJob} ELSE Matches(r) :
               request' = [request EXCEPT ![r].step = "deciding", ![r].seen = Rows,
                                          ![r].found = found]
        BY <2>2 DEF BeginSchedule
      <4>2. /\ request'[r].step = "deciding" /\ request'[r].seen = Rows
            /\ request'[r].found = found
        BY <4>1 DEF RouteTypeOK
      <4> QED  BY <4>1, <4>2
    <3>2. CASE SameKey(r) # {}
      <4>1. found \in SameKey(r)
        BY <3>1, <3>2 DEF Matches
      <4>2. \A j \in Rows : (KeyOf[r] # NoKey /\ keyColumn[j] = KeyOf[r]) => found = j
        BY <4>1 DEF SameKey, KeysSound, Rows
      <4>3. found \in Rows /\ found # NoJob
        BY <4>1, QueueAssumption DEF SameKey, Rows
      <4> QED  BY <1>1, <1>2, <3>1, <4>1, <4>2, <4>3 DEF LookupSound
    <3>3. CASE SameKey(r) = {}
      <4>1. \A j \in Rows : ~(KeyOf[r] # NoKey /\ keyColumn[j] = KeyOf[r])
        BY <3>3 DEF SameKey
      <4>2. found \in SameSlot(r) \/ (SameSlot(r) = {} /\ found = NoJob)
        BY <3>1, <3>3 DEF Matches
      <4>3. found # NoJob => found \in Rows /\ SlotOf[found] = SlotOf[r]
        BY <4>2 DEF SameSlot
      <4>4. found = NoJob => \A j \in Rows : SlotOf[j] = SlotOf[r] => jobs[j].status \in Over
        <5>1. found = NoJob => SameSlot(r) = {}
          BY <4>2, QueueAssumption DEF SameSlot, Rows
        <5> QED  BY <5>1 DEF SameSlot, Rows, ActiveStatuses, Over, Statuses, Row,
                             HolderInv, TypeOK
      <4> QED  BY <1>1, <1>2, <3>1, <4>1, <4>3, <4>4 DEF LookupSound
    <3> QED  BY <3>2, <3>3
  <2>3. CASE ReturnFound(r) \/ ScheduleFails(r)
    <3>1. /\ request'[r].step # "deciding"
          /\ request'[r].seen = {} /\ request'[r].found = NoJob
      BY <2>3 DEF ReturnFound, ScheduleFails, Answer, RouteTypeOK
    <3> QED  BY <3>1 DEF LookupSound
  <2> QED  BY <2>1, <2>2, <2>3
<1>6. AnswersSound'
  <2>1. CASE ReturnFound(r)
    <3>1. /\ request[r].found \in Rows
          /\ SlotOf[request[r].found] = SlotOf[r] \/ request[r].found \in SameKey(r)
      BY <2>1 DEF ReturnFound, LookupsSound, LookupSound
    <3>2. /\ replies'[r] = replies[r] \cup {request[r].found}
          /\ \A q \in Requests : q # r => replies'[q] = replies[q]
      BY <2>1 DEF ReturnFound, RouteTypeOK
    <3> QED  BY <1>2, <3>1, <3>2 DEF AnswersSound
  <2>2. CASE CheckPause(r) \/ BeginSchedule(r) \/ ScheduleFails(r)
    <3>1. replies' = replies
      BY <2>2 DEF CheckPause, BeginSchedule, ScheduleFails
    <3> QED  BY <1>1, <3>1, AnswersStay DEF Rows
  <2> QED  BY <2>1, <2>2
<1>7. KeysSound' /\ OneActiveRowPerSlot'
  BY <1>1 DEF KeysSound, OneActiveRowPerSlot
<1> QED  BY <1>4, <1>5, <1>6, <1>7 DEF LookupsSound

(* A row is inserted by a transaction that saw nothing alive in its slot,   *)
(* and nothing has come since.                                              *)
LEMMA SlotInsertStep ==
    ASSUME SlotInv, NEW r \in Requests, NEW i \in Jobs, InsertJob(r, i)
    PROVE  LookupsSound' /\ KeysSound' /\ AnswersSound' /\ OneActiveRowPerSlot'
<1> USE DEF SlotInv
<1>1. /\ jobs[i].status = "absent" /\ jobs'[i].status = "pending"
      /\ SlotOf[i] = SlotOf[r] /\ keyColumn'[i] = KeyOf[r]
      /\ \A j \in Jobs : j # i => jobs'[j] = jobs[j] /\ keyColumn'[j] = keyColumn[j]
  BY DEF InsertJob, NewRow, HolderInv, TypeOK, RouteTypeOK
<1>2. \A j \in Rows : jobs'[j] = jobs[j] /\ keyColumn'[j] = keyColumn[j]
  BY <1>1 DEF Rows
<1>3. /\ \A q \in Requests : q # r => request'[q] = request[q]
      /\ request'[r].step # "deciding"
      /\ request'[r].seen = {} /\ request'[r].found = NoJob
  BY DEF InsertJob, Answer, RouteTypeOK
<1>4. \A k \in Jobs : SlotOf[k] = SlotOf[r] => jobs[k].status \notin ActiveStatuses
  <2> SUFFICES ASSUME NEW k \in Jobs, SlotOf[k] = SlotOf[r]
               PROVE  jobs[k].status \notin ActiveStatuses
    OBVIOUS
  <2>1. CASE k \in request[r].seen
    BY <2>1 DEF InsertJob, LookupsSound, LookupSound, Over, ActiveStatuses
  <2>2. CASE k \in Rows \ request[r].seen
    BY <2>2 DEF InsertJob, Serializable
  <2>3. CASE k \notin Rows
    BY <2>3 DEF Rows, ActiveStatuses
  <2> QED  BY <2>1, <2>2, <2>3
<1>5. LookupsSound'
  <2>1. \A q \in Requests : q # r => LookupSound(q)'
    BY <1>2, <1>3, LookupStays DEF LookupsSound, Rows
  <2>2. LookupSound(r)'
    BY <1>3 DEF LookupSound
  <2> QED  BY <2>1, <2>2 DEF LookupsSound
<1>6. KeysSound'
  <2>1. KeyOf[r] # NoKey => \A j \in Jobs : keyColumn[j] # KeyOf[r]
    BY DEF InsertJob, KeyIsFree, KeysSound, Rows
  <2> QED  BY <1>1, <2>1 DEF KeysSound
<1>7. AnswersSound'
  <2>1. /\ replies'[r] = replies[r] \cup {i}
        /\ \A q \in Requests : q # r => replies'[q] = replies[q]
    BY DEF InsertJob, RouteTypeOK
  <2>2. Rows' = Rows \cup {i}
    BY <1>1 DEF Rows
  <2>3. \A q : SameKey(q) \subseteq SameKey(q)'
    BY <1>2, <2>2 DEF SameKey
  <2> QED  BY <1>1, <2>1, <2>2, <2>3 DEF AnswersSound
<1>8. OneActiveRowPerSlot'
  BY <1>1, <1>4 DEF OneActiveRowPerSlot
<1> QED  BY <1>5, <1>6, <1>7, <1>8

LEMMA SlotInvariant == SchedulingSpec => []SlotInv
<1>1. ASSUME SlotInv, [SchedulingNext]_schedulingVars
      PROVE  SlotInv'
  <2>1. HolderInv' /\ RouteTypeOK'
    BY <1>1, SchedulingSteps, TypesNext, ClaimsNext, RouteTypesNext DEF SlotInv, HolderInv
  <2>2. CASE UNCHANGED schedulingVars
    <3>1. UNCHANGED <<jobs, request, keyColumn, replies>>
      BY <2>2 DEF schedulingVars, routeVars, vars, dbVars
    <3> QED  BY <1>1, <2>1, <3>1
             DEF SlotInv, LookupsSound, LookupSound, SameKey, Rows, KeysSound, AnswersSound,
                 OneActiveRowPerSlot
  <2> QED  BY <1>1, <2>1, <2>2, SlotQueueStep, SlotLookStep, SlotInsertStep
           DEF SchedulingNext, SlotInv
<1> QED  BY <1>1, SlotInit, PTL DEF SchedulingSpec

(* Whatever requests race, repeat themselves and fail, and whatever the     *)
(* workers do with the rows meanwhile, a slot has one row at most that      *)
(* wants to run.                                                            *)
THEOREM OneActiveRowCorrect == SchedulingSpec => []OneActiveRowPerSlot
<1>1. SlotInv => OneActiveRowPerSlot
  BY DEF SlotInv
<1> QED  BY <1>1, SlotInvariant, PTL

(* A key stands in one row at most, and a job id that was answered is that  *)
(* of a row of the request's own slot or with its own key.                  *)
THEOREM AnswersCorrect == SchedulingSpec => [](KeysSound /\ AnswersSound)
<1>1. SlotInv => KeysSound /\ AnswersSound
  BY DEF SlotInv
<1> QED  BY <1>1, SlotInvariant, PTL

(* Once the transaction of a request sees a row with its key, that row is   *)
(* the only new answer, however old it is and whatever else the slot has.   *)
THEOREM KeyReplayCorrect == SchedulingSpec => KeyIsReplayed
<1> DEFINE Replayed ==
        \A r \in Requests, j \in Jobs :
            (KeyOf[r] # NoKey /\ keyColumn[j] = KeyOf[r] /\ j \in request[r].seen)
                => replies'[r] \subseteq replies[r] \cup {j}
<1>1. SlotInv /\ [SchedulingNext]_schedulingVars => Replayed
  <2> SUFFICES ASSUME SlotInv, [SchedulingNext]_schedulingVars,
                      NEW r \in Requests, NEW j \in Jobs, KeyOf[r] # NoKey,
                      keyColumn[j] = KeyOf[r], j \in request[r].seen
               PROVE  replies'[r] \subseteq replies[r] \cup {j}
    OBVIOUS
  <2>1. request[r].found = j
    BY DEF SlotInv, LookupsSound, LookupSound
  <2>2. ASSUME NEW q \in Requests, ReturnFound(q)
        PROVE  replies'[r] \subseteq replies[r] \cup {j}
    BY <2>1, <2>2 DEF ReturnFound, SlotInv, RouteTypeOK
  <2>3. ASSUME NEW q \in Requests, NEW k \in Jobs, InsertJob(q, k)
        PROVE  replies'[r] \subseteq replies[r] \cup {j}
    <3>1. q # r
      BY <2>1, <2>3, QueueAssumption DEF InsertJob
    <3> QED  BY <2>3, <3>1 DEF InsertJob, SlotInv, RouteTypeOK
  <2>4. ASSUME NEW q \in Requests, CheckPause(q) \/ BeginSchedule(q) \/ ScheduleFails(q)
        PROVE  replies' = replies
    BY <2>4 DEF CheckPause, BeginSchedule, ScheduleFails
  <2> QED  BY <2>2, <2>3, <2>4 DEF SchedulingNext, schedulingVars, routeVars
<1> QED  BY <1>1, SlotInvariant, PTL DEF SchedulingSpec, KeyIsReplayed

=============================================================================
