----------------------------- MODULE Scheduling -----------------------------
(***************************************************************************)
(* apps/api/src/routes/jobs/schedule.ts: POST /jobs/schedule, composed     *)
(* with the workers of QueueConsumer over the same tables.  A request       *)
(* first reads the pause of its connector/pair, and then, in a SERIALIZABLE *)
(* transaction of its own, looks for a row with its Idempotency-Key, for an *)
(* active row of the same pair, connector and window, or inserts one.       *)
(*                                                                         *)
(* A "slot" is such a combination of pair, connector and window; clients    *)
(* may send a request again, with the same slot and key, once it was        *)
(* answered.  Every request names an existing pair.                         *)
(***************************************************************************)
EXTENDS QueueConsumer

CONSTANTS
    Requests,
    Slots,
    SlotOf,        \* the slot of a request and of a row
    PairOfSlot,
    KeyOf,         \* the Idempotency-Key of a request, or NoKey
    NoKey,
    MaxSends       \* bound: how often one request is sent

ASSUME SchedulingAssumption ==
    /\ Requests \cap Jobs = {}
    /\ SlotOf \in [Requests \cup Jobs -> Slots]
    /\ PairOfSlot \in [Slots -> Pairs]
    /\ \A j \in Jobs : PairOf[j] = PairOfSlot[SlotOf[j]]
    /\ DOMAIN KeyOf = Requests
    /\ 0 \in StartDelays           \* the route's rows are due at once
    /\ MaxSends \in Nat

VARIABLES
    request,     \* where each request stands
    keyColumn,   \* sync_jobs.idempotency_key
    replies      \* history: the job ids answered to a request with 202

routeVars      == <<request, keyColumn, replies>>
schedulingVars == <<vars, routeVars>>

ActiveStatuses == {"pending", "retrying", "in_progress"}

Keys == {KeyOf[r] : r \in Requests} \cup {NoKey}

(* unsent; checked: not paused when looked; deciding: in the transaction,   *)
(* its snapshot taken; accepted 202, paused 409, error 500                  *)
Steps == {"unsent", "checked", "deciding", "accepted", "paused", "error"}

Answered == {"accepted", "paused", "error"}

SchedulingTypeOK ==
    /\ TypeOK
    /\ request \in [Requests -> [step : Steps, sends : 0 .. MaxSends, seen : SUBSET Jobs,
                                 found : Jobs \cup {NoJob}]]
    /\ keyColumn \in [Jobs -> Keys]
    /\ replies \in [Requests -> SUBSET Jobs]

SchedulingInit ==
    /\ Init
    /\ request = [r \in Requests |->
                    [step |-> "unsent", sends |-> 0, seen |-> {}, found |-> NoJob]]
    /\ keyColumn = [j \in Jobs |-> NoKey]
    /\ replies = [r \in Requests |-> {}]

-----------------------------------------------------------------------------
Rows == {j \in Jobs : jobs[j].status # "absent"}

Answer(r, step) ==
    request' = [request EXCEPT ![r].step = step, ![r].seen = {}, ![r].found = NoJob]

(* The pause is read before, and outside of, the transaction. *)
CheckPause(r) ==
    /\ request[r].step \in {"unsent"} \cup Answered
    /\ request[r].sends < MaxSends
    /\ request' = [request EXCEPT
          ![r].step = IF Paused(PairOfSlot[SlotOf[r]]) THEN "paused" ELSE "checked",
          ![r].sends = @ + 1]
    /\ UNCHANGED <<vars, keyColumn, replies>>

SameKey(r) == {j \in Rows : KeyOf[r] # NoKey /\ keyColumn[j] = KeyOf[r]}

SameSlot(r) ==
    {j \in Rows : SlotOf[j] = SlotOf[r] /\ jobs[j].status \in ActiveStatuses}

(* Variant of Matches: any row of the slot, active or not, or of the key. *)
MatchesSlotFirst(r) ==
    IF SameSlot(r) # {} THEN SameSlot(r) ELSE SameKey(r)

(* The key wins over the slot. *)
Matches(r) == IF SameKey(r) # {} THEN SameKey(r) ELSE SameSlot(r)

BeginSchedule(r) ==
    /\ request[r].step = "checked"
    /\ \E found \in IF Matches(r) = {} THEN {NoJob} ELSE Matches(r) :
          request' = [request EXCEPT ![r].step = "deciding", ![r].seen = Rows,
                                     ![r].found = found]
    /\ UNCHANGED <<vars, keyColumn, replies>>

ReturnFound(r) ==
    /\ request[r].step = "deciding"
    /\ request[r].found # NoJob
    /\ replies' = [replies EXCEPT ![r] = @ \cup {request[r].found}]
    /\ Answer(r, "accepted")
    /\ UNCHANGED <<vars, keyColumn>>

(* Variant of Serializable: the transaction runs READ COMMITTED. *)
ReadCommitted(r) == TRUE

(* SERIALIZABLE: an insert commits only if the rows inserted since its      *)
(* snapshot would not have changed what it looked for.                      *)
Serializable(r) ==
    \A j \in Rows \ request[r].seen :
        /\ SlotOf[j] # SlotOf[r]
        /\ KeyOf[r] = NoKey \/ keyColumn[j] # KeyOf[r]

(* The unique index on idempotency_key, which ignores NULLs. *)
KeyIsFree(r) == KeyOf[r] # NoKey => \A j \in Rows : keyColumn[j] # KeyOf[r]

(* Variant of NewRow: the insert counts as a first attempt. *)
NewRowCounted == [status |-> "pending", retryCount |-> 1, nextRunAt |-> now]

(* Variant of NewRow: a status the enum does not have. *)
NewRowQueued == [status |-> "queued", retryCount |-> 0, nextRunAt |-> now]

NewRow == [status |-> "pending", retryCount |-> 0, nextRunAt |-> now]

InsertJob(r, j) ==
    /\ request[r].step = "deciding"
    /\ request[r].found = NoJob
    /\ Serializable(r) /\ KeyIsFree(r)
    /\ jobs[j].status = "absent" /\ SlotOf[j] = SlotOf[r]
    /\ jobs' = [jobs EXCEPT ![j] = NewRow]
    /\ keyColumn' = [keyColumn EXCEPT ![j] = KeyOf[r]]
    /\ replies' = [replies EXCEPT ![r] = @ \cup {j}]
    /\ Answer(r, "accepted")
    /\ UNCHANGED <<stats, openAlerts, logs, streak, now, workerVars, faults>>

(* A serialization failure, a key inserted by somebody else, a lost         *)
(* connection: rollback and 500.                                            *)
ScheduleFails(r) ==
    /\ request[r].step \in {"checked", "deciding"}
    /\ Answer(r, "error")
    /\ UNCHANGED <<vars, keyColumn, replies>>

SchedulingNext ==
    \/ \E r \in Requests :
          \/ CheckPause(r)
          \/ BeginSchedule(r)
          \/ ReturnFound(r)
          \/ \E j \in Jobs : InsertJob(r, j)
          \/ ScheduleFails(r)
    \/ (Tick \/ \E w \in Workers : WorkerStep(w)) /\ UNCHANGED routeVars

SchedulingSpec == SchedulingInit /\ [][SchedulingNext]_schedulingVars

-----------------------------------------------------------------------------
(* Two rows that both want to run never cover the same pair, connector and  *)
(* window, whatever requests race each other and the workers: the lookup of *)
(* active duplicates in schedule.ts:50-63 under SERIALIZABLE.               *)
OneActiveRowPerSlot ==
    \A j, k \in Jobs :
        (/\ j # k /\ SlotOf[j] = SlotOf[k]
         /\ jobs[j].status \in ActiveStatuses) => jobs[k].status \notin ActiveStatuses

(* Once a request's transaction sees a row that carries its key, the answer *)
(* is that row: after it has completed or failed, and even when another row *)
(* of the slot is active by then.                                           *)
KeyIsReplayed ==
    [][\A r \in Requests, j \in Jobs :
          (KeyOf[r] # NoKey /\ keyColumn[j] = KeyOf[r] /\ j \in request[r].seen)
              => replies'[r] \subseteq replies[r] \cup {j}]_schedulingVars

(* The composition inserts rows only the way QueueConsumer expects, so what *)
(* is checked and proved of the queue holds for it.                         *)
ImplementsQueue == Spec

=============================================================================
