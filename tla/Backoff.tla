------------------------------ MODULE Backoff ------------------------------
(***************************************************************************)
(* packages/core/src/utils/backoff.ts: how long a failed job waits before  *)
(* its next attempt.  The code computes with floating-point milliseconds;  *)
(* here the jitter ratio is the fraction JitterNum / JitterDen and the     *)
(* value that random() returns is draw / Draws, draw in 0 .. Draws - 1, so *)
(* that every step is exact integer arithmetic.                            *)
(***************************************************************************)
EXTENDS Integers, Sequences

CONSTANTS
    BaseDelay,   \* baseDelayMs: the unit the sequence is multiplied by
    MaxDelay,    \* maxDelayMs: the cap
    JitterNum,   \* jitterRatio = JitterNum / JitterDen
    JitterDen,
    Draws        \* how many values random() is taken to return

ASSUME BackoffAssumption ==
    /\ BaseDelay \in Nat
    /\ MaxDelay \in Nat
    /\ JitterNum \in Nat
    /\ JitterDen \in Nat \ {0}
    /\ JitterNum <= JitterDen
    /\ Draws \in Nat \ {0}

-----------------------------------------------------------------------------
Smaller(a, b) == IF a <= b THEN a ELSE b
Larger(a, b)  == IF a >= b THEN a ELSE b

(* Math.round(num / den) for den > 0: half rounds up. *)
Round(num, den) == (2 * num + den) \div (2 * den)

BackoffSequence == <<1, 2, 4, 8, 16>>

(* Variant of ComputeBaseDelay: the sequence indexed one too far. *)
ComputeBaseDelayShifted(attempt) ==
    LET clamped == Larger(1, Smaller(Len(BackoffSequence), attempt + 1))
    IN  BackoffSequence[clamped] * BaseDelay

(* The sequence for the first five attempts, powers of two after that. *)
ComputeBaseDelay(attempt) ==
    LET clamped == Larger(1, Smaller(Len(BackoffSequence), attempt))
        minutes == IF attempt <= Len(BackoffSequence)
                   THEN BackoffSequence[clamped]
                   ELSE 2 ^ (attempt - 1)
    IN  minutes * BaseDelay

CappedDelay(retryCount) ==
    Smaller(ComputeBaseDelay(Larger(1, retryCount)), MaxDelay)

(* The cap is applied first and the jitter is added to the capped delay.    *)
(* The early return for jitterRatio <= 0 is the case JitterNum = 0.         *)
CalculateBackoffDelay(retryCount, draw) ==
    LET capped == CappedDelay(retryCount)
        scale  == JitterDen * Draws
        offset == capped * JitterNum * (2 * draw - Draws)
    IN  Larger(0, Round(capped * scale + offset, scale))

CalculateNextRunAt(retryCount, now, draw) ==
    now + CalculateBackoffDelay(retryCount, draw)

=============================================================================
