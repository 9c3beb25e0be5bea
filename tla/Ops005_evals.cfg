CONSTANTS
    e1 = e1
    e2 = e2
    Evaluators = {e1, e2}
    Commands = {c1}
    Reports = {"online", "offline"}
    Beats <- MCBeats
    OfflineAfter = 0
    Hits = 1
    HeapMin = 2
    HeapLast = 2
    RssiWindow = 0
    RssiMin = 2
    LagMax = 0
    LagMin = 1
    FlapWindow = 1
    Flaps = 2
    Grace = 0
    NoMessage = NoMessage
    MaxClock = 1
    MaxMessages = 2
    MaxOperations = 2
    MaxEvals = 2
    MaxFaults = 1
SYMMETRY Symmetry
SPECIFICATION Spec
INVARIANTS
    TypeOK
    OnlyOverlapIsDoubled
    HealedExactlyOnce
    OfflineIsAnnounced
CHECK_DEADLOCK FALSE
