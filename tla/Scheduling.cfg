CONSTANTS
    j1 = j1
    j2 = j2
    j3 = j3
    p1 = p1
    s1 = s1
    r1 = r1
    r2 = r2
    k1 = k1
    NoKey = NoKey
    Jobs = {j1, j2, j3}
    Pairs = {p1}
    Slots = {s1}
    Workers = {"w1"}
    Requests = {r1, r2}
    PairOf <- OnePair
    PriorityOf <- SamePriority
    StartDelays <- AtOnce
    SlotOf <- OneSlot
    PairOfSlot <- PairOfOneSlot
    KeyOf <- FirstHasKey
    Returned = {"success", "partial", "failure"}
    MaxRetries = 2
    Threshold = 2
    PauseTicks = 1
    BaseDelay = 1
    MaxDelay = 2
    JitterNum = 0
    JitterDen = 1
    Draws = 1
    MaxTime = 2
    MaxSends = 2
    AllowedFaults = {"crash"}
    MaxFaults = 1
SYMMETRY JobSymmetry
SPECIFICATION SchedulingSpec
INVARIANTS
    SchedulingTypeOK
    OneActiveRowPerSlot
PROPERTIES
    KeyIsReplayed
    ImplementsQueue
