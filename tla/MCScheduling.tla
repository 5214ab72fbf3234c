---------------------------- MODULE MCScheduling ----------------------------
(* Two or three requests for one slot, one of them with an Idempotency-Key. *)
EXTENDS Scheduling, TLC

CONSTANTS j1, j2, j3, p1, s1, r1, r2, k1

OnePair == [j \in Jobs |-> p1]

SamePriority == [j \in Jobs |-> 0]

AtOnce == {0}

OneSlot == [x \in Requests \cup Jobs |-> s1]

PairOfOneSlot == [s \in Slots |-> p1]

FirstHasKey == [r \in Requests |-> IF r = r1 THEN k1 ELSE NoKey]

JobSymmetry == Permutations(Jobs)

=============================================================================
