SPECIFICATION FleetSpec
CONSTANTS
    n1 = n1
    n2 = n2
    Nodes = {n1, n2}
    Profile <- MCProfile
    Beats <- MCBeats
    Unknown = Unknown
    Never = Never
    Garbled = Garbled
    None = None
    OfflineAfter = 1
    DayLength = 2
    KeepBeats = 2
    RecentLimit = 2
    AnomalyLimit = 1
    FewBeats = 2
    QueueWindow = 2
    MaxClock = 2
    MaxBeats = 3
    MaxNews = 2
    Anomalies <- MCAnomalies
    FirstSeen <- MCFirstSeen
INVARIANTS FleetTypeOK
PROPERTIES BadNewsNeverImproves 
