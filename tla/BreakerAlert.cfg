\* Is there an open alert for every pause?
CONSTANTS
    j1 = j1
    j2 = j2
    j3 = j3
    p1 = p1
    w1 = w1
    w2 = w2
    Jobs = {j1, j2, j3}
    Pairs = {p1}
    Workers = {w1, w2}
    PairOf <- OnePair
    PriorityOf <- SamePriority
    StartDelays <- AtOnce
    Returned = {"success", "partial", "failure"}
    MaxRetries = 3
    Threshold = 2
    PauseTicks = 1
    BaseDelay = 1
    MaxDelay = 2
    JitterNum = 0
    JitterDen = 1
    Draws = 1
    MaxTime = 1
    AllowedFaults = {"crash", "signal", "db_error", "lost_reply"}
    MaxFaults = 0
SPECIFICATION Spec
INVARIANT PauseHasOpenAlert
