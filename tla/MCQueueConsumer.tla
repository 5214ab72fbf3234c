-------------------------- MODULE MCQueueConsumer --------------------------
(* Values for QueueConsumer's constants that a .cfg cannot express. *)
EXTENDS QueueConsumer, TLC

CONSTANTS j1, j2, j3, p1, w1, w2

OnePair == [j \in Jobs |-> p1]

SamePriority == [j \in Jobs |-> 0]

AtOnce == {0}

WorkerSymmetry == Permutations(Workers)

=============================================================================
