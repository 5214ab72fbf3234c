----------------------------- MODULE JobExecution -----------------------------
(***************************************************************************)
(* The queue and the connector its jobs work on, composed: the workers of  *)
(* QueueConsumer run the jobs of one feed connector, and the job router    *)
(* (executors/sync.ts, main.ts) hands each of them to the executor whose   *)
(* steps are those of FeedSync.  What an executor returns is no longer any *)
(* outcome, it is what the document it has written says.                   *)
(*                                                                         *)
(* An execution is one run of a job's executor.  It is named after the job, *)
(* the retries that the claimed row had counted, and the worker.           *)
(***************************************************************************)
EXTENDS QueueConsumer

CONSTANTS
    Versions, KindOf, HeadersOf,    \* as in FeedSync
    RouteOf                         \* what the router makes of a job's payload

VARIABLES feed, clock, creation, tested, row, attempt    \* as in FeedSync

Executions == Jobs \X (0 .. MaxRetries - 1) \X Workers

Feed == INSTANCE FeedSync WITH Attempts <- Executions

ASSUME ExecutionAssumption ==
    /\ RouteOf \in [Jobs -> {"html_ics_sync", "fallback"}]
    /\ {"success", "failure"} \subseteq Returned
    /\ KindOf \in [Versions -> {"events", "empty", "broken"}]
    /\ HeadersOf \in [Versions -> SUBSET {"etag", "lastModified"}]
    /\ "none" \notin Versions

feedVars == <<feed, clock, creation, tested, row, attempt>>

executionVars == <<vars, feedVars>>

ExecutionInit == Init /\ Feed!FeedInit

JobOf(a) == a[1]

Step(a) == attempt[a].step

Over(a) == Step(a) \in {"written", "thrown"}

(* What processJob is running on this worker. *)
Run(w) == <<claim[w].id, claim[w].retryCount, w>>

-----------------------------------------------------------------------------
(* The connector comes into being, and its feed changes. *)

ConnectorStep ==
    /\ \/ Feed!TestFeed \/ Feed!InsertConnector
       \/ \E v \in Versions : Feed!Publish(v)
    /\ UNCHANGED vars

(* The create handler queues a job once the connector is stored; from then  *)
(* on POST /jobs/schedule finds the pair and adds others, with any payload. *)
QueueFor(j) ==
    /\ creation = "created"
    /\ Enqueue(j)
    /\ UNCHANGED feedVars

-----------------------------------------------------------------------------
(* The executor: the router has found one for the payload's type. *)

Routed(w) == phase[w] = "executing" /\ RouteOf[claim[w].id] = "html_ics_sync"

ExecutorStep(w) ==
    /\ Routed(w)
    /\ Feed!Load(Run(w)) \/ Feed!Fetch(Run(w)) \/ Feed!Write(Run(w)) \/ Feed!Abandon(Run(w))
    /\ UNCHANGED vars

Succeeded(a) == Step(a) = "written" /\ attempt[a].next.status = "ok"

(* Variant of OutcomeOf: whoever has written the connector is content. *)
OutcomeOfWrite(a) == IF Step(a) = "written" THEN "success" ELSE "failure"

(* What the executor returns, or processJob makes of what it throws. *)
OutcomeOf(a) == IF Succeeded(a) THEN "success" ELSE "failure"

Return(w) ==
    /\ Routed(w)
    /\ Over(Run(w))
    /\ Execute(w, OutcomeOf(Run(w)))
    /\ UNCHANGED feedVars

(* No executor is registered for the payload's type, or it has none. *)
FallBack(w) ==
    /\ phase[w] = "executing"
    /\ RouteOf[claim[w].id] = "fallback"
    /\ Execute(w, "failure")
    /\ UNCHANGED feedVars

-----------------------------------------------------------------------------
(* An executor dies with its worker, whatever it has read or fetched. *)
Perish(w) ==
    /\ Crash(w) \/ KillBySignal(w)
    /\ IF phase[w] = "executing" /\ Step(Run(w)) \in {"loaded", "fetched"}
       THEN Feed!Abandon(Run(w))
       ELSE UNCHANGED feedVars

(* The queue's other steps leave the connector alone. *)
QueueStep(w) ==
    /\ \/ Start(w) \/ Poll(w) \/ LeaveLoop(w) \/ Stop(w) \/ Exit(w)
       \/ ClaimStep(w)
       \/ BeginFinalize(w) \/ FinalizeSuccess(w)
       \/ \E draw \in 0 .. Draws - 1 : FinalizeFailure(w, draw)
    /\ UNCHANGED feedVars

ExecutionNext ==
    \/ ConnectorStep
    \/ \E j \in Jobs : QueueFor(j)
    \/ Tick /\ UNCHANGED feedVars
    \/ \E w \in Workers :
          ExecutorStep(w) \/ Return(w) \/ FallBack(w) \/ Perish(w) \/ QueueStep(w)

ExecutionSpec == ExecutionInit /\ [][ExecutionNext]_executionVars

-----------------------------------------------------------------------------
(* Properties *)

(* Queue and connector agree on what was done: each attempt that the row    *)
(* counts was executed once, by one worker, is over and has not succeeded;  *)
(* none was executed ahead of its number; and a completed job has validated *)
(* the connector with its last attempt (queue.ts:133, 159-189 and 264,      *)
(* executors/html-ics.ts:129-158).                                          *)
ExecutionsAccounted ==
    \A j \in Jobs :
        RouteOf[j] = "html_ics_sync" =>
            /\ \A r \in 0 .. MaxRetries - 1, v, w \in Workers :
                  (Step(<<j, r, v>>) # "idle" /\ Step(<<j, r, w>>) # "idle") => v = w
            /\ \A r \in 0 .. MaxRetries - 1 :
                  r < jobs[j].retryCount =>
                     \E w \in Workers : Over(<<j, r, w>>) /\ ~Succeeded(<<j, r, w>>)
            /\ \A r \in 0 .. MaxRetries - 1, w \in Workers :
                  r > jobs[j].retryCount => Step(<<j, r, w>>) = "idle"
            /\ jobs[j].status = "completed" =>
                  \E w \in Workers : Succeeded(<<j, jobs[j].retryCount, w>>)

(* A job never undoes its own work: what a write replaces is the document   *)
(* that the execution has read, or what an execution of another job has     *)
(* written since.  Retries, restarts and a job whose first worker was lost  *)
(* never write behind each other's back (executors/html-ics.ts:54 and 129). *)
NeverOvertakesItself ==
    [][\A a \in Executions :
          (Step(a) = "fetched" /\ attempt'[a].step # "fetched" /\ row' # row)
          => \/ row = attempt[a].read
             \/ \E b \in Executions :
                   JobOf(b) # JobOf(a) /\ Over(b) /\ row = attempt[b].next
      ]_executionVars

=============================================================================
