---------------------------- MODULE MCJobExecution ----------------------------
(* Values for JobExecution's constants that a .cfg cannot express. *)
EXTENDS JobExecution, TLC

CONSTANTS j1, j2, p1, v1, v2

OnePair == [j \in Jobs |-> p1]

(* The create handler's jobs have priority 1, scheduled ones 0. *)
FirstJobFirst == [j \in Jobs |-> IF j = j1 THEN 1 ELSE 0]

AtOnce == {0}

KindsOfContent == [v \in Versions |-> IF v = v2 THEN "broken" ELSE "events"]

NoHeaders == [v \in Versions |-> {}]

SecondUnroutable == [j \in Jobs |-> IF j = j2 THEN "fallback" ELSE "html_ics_sync"]

WorkerSymmetry == Permutations(Workers)

=============================================================================
