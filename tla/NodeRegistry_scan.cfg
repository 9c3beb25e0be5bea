SPECIFICATION Spec
CONSTANTS
    n1 = n1
    n2 = n2
    Nodes = {n1, n2}
    Reports = {"online", "retired"}
    MaxAhead = 1
    OfflineAfter = 1
    Period = 1
    MaxClock = 6
    MaxInFlight = 1
    MaxRestarts = 1
INVARIANTS TypeOK SilentIsOffline OnlyRacedIsOverwritten
SYMMETRY Symmetry
