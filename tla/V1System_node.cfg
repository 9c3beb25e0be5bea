SPECIFICATION Spec
CONSTANTS
    n1 = n1
    c1 = c1
    asked = asked
    default = default
    Nodes = {n1}
    Commands = {c1}
    Target <- MCTarget
    Readings = {20}
    Reports = {"online", "degraded", "offline", "asleep"}
    None = None
    Intervals = {asked, default}
    DefaultInterval = default
    OfflineAfter = 1
    Period = 1
    MaxClock = 2
    MaxEvents = 1
    MaxFlight = 2
    MaxRestarts = 1
INVARIANTS TypeOK RunsAtMostOnce OnlySilenceOverrules
PROPERTIES ImplementsLifecycle
