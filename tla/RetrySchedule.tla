--------------------------- MODULE RetrySchedule ---------------------------
(***************************************************************************)
(* The delays one job sees as it fails again and again: each failure adds  *)
(* one to retryCount and draws a new jitter (queue.ts calls                *)
(* calculateNextRunAt with the new count).  Attempts bounds the failures.  *)
(***************************************************************************)
EXTENDS Backoff

CONSTANT Attempts   \* bound: how many failures of one job are followed

ASSUME AttemptsAssumption == Attempts \in Nat

VARIABLES
    retryCount,     \* sync_jobs.retry_count
    delay           \* next_run_at - finishedAt of the last failure

vars == <<retryCount, delay>>

Init == retryCount = 0 /\ delay = 0

Fail(draw) ==
    /\ retryCount < Attempts
    /\ retryCount' = retryCount + 1
    /\ delay' = CalculateBackoffDelay(retryCount', draw)

Next == \E draw \in 0 .. Draws - 1 : Fail(draw)

Spec == Init /\ [][Next]_vars

-----------------------------------------------------------------------------
(* The documented schedule without jitter: 1, 2, 4, 8, 16 ... units, capped. *)
DocumentedDelay(n) == Smaller(BaseDelay * 2 ^ (n - 1), MaxDelay)

(* One jitter ratio of the documented delay, and a rounding. *)
Slack(n) == DocumentedDelay(n) * JitterNum + JitterDen

NotTooShort(n, wait) == -((wait - DocumentedDelay(n)) * JitterDen) <= Slack(n)
NotTooLong(n, wait)  == (wait - DocumentedDelay(n)) * JitterDen <= Slack(n)

(* "while staying within the 30-minute cap" (error-handling-strategy.md:20) *)
(* allows no jitter beyond the cap.  backoff.ts adds it after the cap       *)
(* (33-43), so no upper bound is claimed for a delay that is at the cap.    *)
NearDocumented(n, wait) ==
    NotTooShort(n, wait) /\ (DocumentedDelay(n) < MaxDelay => NotTooLong(n, wait))

(* Whatever random() returns, a retry waits for the documented delay up to  *)
(* one jitter ratio and a rounding (backoff.ts against "1, 2, 4, 8, 16      *)
(* minutes" and "by 10%" in error-handling-strategy.md:19-20); at the cap,  *)
(* for no less than that.  As these ranges do not overlap below the cap, no *)
(* draw makes a later failure wait shorter there.                           *)
DelayNearDocumented == retryCount > 0 => NearDocumented(retryCount, delay)

=============================================================================
