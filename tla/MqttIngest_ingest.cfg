SPECIFICATION Spec
CONSTANTS
    n1 = n1
    Nodes = {n1}
    Nobody = Nobody
    Second = 1
    PerSecMax = 1
    BurstMax = 3
    BurstSec = 2
    InvalidMax = 2
    BreachSec = 2
    QuarantineSec = 2
    MqttRetrySec = 1
    ErrorRetrySec = 2
    MaxClock = 7
    MaxMessages = 6
    MaxInbox = 2
CHECK_DEADLOCK FALSE
INVARIANTS
    TypeOK
    PerSecondHolds
    BreachesAreQuarantined
