---------------------------- MODULE JobLifecycle ----------------------------
(***************************************************************************)
(* What the job queue promises, without rows, transactions, clocks or      *)
(* circuit breakers: a job is taken by one worker at a time, every finished *)
(* attempt is either the last one or puts the job back, the job gives up    *)
(* after MaxRetries failures, and "done" and "dead" are final.  A worker    *)
(* that is lost with a job leaves it "running" with nobody running it: the  *)
(* queue has no lease that would take such a job back.                      *)
(***************************************************************************)
EXTENDS Integers

CONSTANTS Jobs, Workers, MaxRetries

Nobody == "nobody"

VARIABLES
    state,      \* where each job stands
    failures,   \* how many attempts of it have failed
    runner      \* the worker that is running it

lifecycleVars == <<state, failures, runner>>

States == {"new", "queued", "running", "done", "dead"}

LifecycleTypeOK ==
    /\ state \in [Jobs -> States]
    /\ failures \in [Jobs -> Nat]
    /\ runner \in [Jobs -> Workers \cup {Nobody}]

LifecycleInit ==
    /\ state = [j \in Jobs |-> "new"]
    /\ failures = [j \in Jobs |-> 0]
    /\ runner = [j \in Jobs |-> Nobody]

Submit(j) ==
    /\ state[j] = "new"
    /\ state' = [state EXCEPT ![j] = "queued"]
    /\ UNCHANGED <<failures, runner>>

Take(j, w) ==
    /\ state[j] = "queued"
    /\ \A k \in Jobs : runner[k] # w
    /\ state' = [state EXCEPT ![j] = "running"]
    /\ runner' = [runner EXCEPT ![j] = w]
    /\ UNCHANGED failures

Finish(j) ==
    /\ runner[j] # Nobody
    /\ state' = [state EXCEPT ![j] = "done"]
    /\ runner' = [runner EXCEPT ![j] = Nobody]
    /\ UNCHANGED failures

Fail(j) ==
    /\ runner[j] # Nobody
    /\ failures' = [failures EXCEPT ![j] = @ + 1]
    /\ state' = [state EXCEPT
                    ![j] = IF failures'[j] >= MaxRetries THEN "dead" ELSE "queued"]
    /\ runner' = [runner EXCEPT ![j] = Nobody]

(* The worker is gone; the job stays "running". *)
Lose(j) ==
    /\ runner[j] # Nobody
    /\ runner' = [runner EXCEPT ![j] = Nobody]
    /\ UNCHANGED <<state, failures>>

(* The job was taken, but the worker never learned that it has it. *)
TakeUnseen(j) ==
    /\ state[j] = "queued"
    /\ state' = [state EXCEPT ![j] = "running"]
    /\ UNCHANGED <<failures, runner>>

LifecycleNext ==
    \E j \in Jobs :
        \/ Submit(j)
        \/ \E w \in Workers : Take(j, w)
        \/ Finish(j)
        \/ Fail(j)
        \/ Lose(j)
        \/ TakeUnseen(j)

LifecycleSpec == LifecycleInit /\ [][LifecycleNext]_lifecycleVars

=============================================================================
