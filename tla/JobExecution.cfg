CONSTANTS
    j1 = j1
    j2 = j2
    p1 = p1
    v1 = v1
    v2 = v2
    Jobs = {j1, j2}
    Pairs = {p1}
    Workers = {w1, w2}
    PairOf <- OnePair
    PriorityOf <- FirstJobFirst
    RouteOf <- SecondUnroutable
    StartDelays <- AtOnce
    Returned = {"success", "failure"}
    Versions = {v1}
    KindOf <- KindsOfContent
    HeadersOf <- NoHeaders
    MaxRetries = 2
    Threshold = 2
    PauseTicks = 1
    BaseDelay = 1
    MaxDelay = 2
    JitterNum = 0
    JitterDen = 1
    Draws = 1
    MaxTime = 2
    AllowedFaults = {"crash"}
    MaxFaults = 1
SYMMETRY WorkerSymmetry
SPECIFICATION ExecutionSpec
INVARIANTS
    ExecutionsAccounted
PROPERTIES
    NeverOvertakesItself
