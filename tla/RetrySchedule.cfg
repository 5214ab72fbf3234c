\* backoff.ts's defaults in milliseconds; twelve failures, ten jitter draws.
CONSTANTS
    BaseDelay = 60000
    MaxDelay = 1800000
    JitterNum = 1
    JitterDen = 10
    Draws = 10
    Attempts = 12
SPECIFICATION Spec
INVARIANT DelayNearDocumented
\* The chain stops at Attempts failures.
CHECK_DEADLOCK FALSE
