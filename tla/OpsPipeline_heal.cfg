SPECIFICATION Spec
CONSTANTS
    n1 = n1
    a1 = a1
    a2 = a2
    q1 = q1
    Nodes = {n1}
    Anomalies = {a1, a2}
    Requests = {q1}
    Snapshots <- MCSnapshots
    Unknown = Unknown
    Nothing = Nothing
    Reflex <- MCReflex
    Level <- MCLevel
    AutoMax = 2
    Required = 2
    Suppress <- MCSuppress
    QueueLimit = 10
    WeakRssi = 80
    FlapMin = 1
    FlapSec = 1
    WindowSize = 2
    FlapLog = 1
    QueueMax = 1
    MaxClock = 1
    MaxMishaps = 1
INVARIANTS TypeOK CooldownSeparates ActedOnce NothingForgotten
PROPERTIES OnlyRacedIsReopened OnlyRacedIsCancelled
SYMMETRY Symmetry
