SPECIFICATION Spec
CONSTANTS
    n1 = n1
    m1 = m1
    m2 = m2
    m3 = m3
    m4 = m4
    r1 = r1
    r2 = r2
    Nodes = {n1}
    Requests = {r1, r2}
    Messages = {m1, m2, m3, m4}
    None = None
    MessageId <- MCMessageId
    EventId <- MCEventId
    Legacy = {m4}
    Sender <- MCSender
    Posted = {m1, m4}
    Confirmed = {m1}
    Capacity = 2
    Default = default
    Intervals = {default, asked}
    default = default
    asked = asked
    MaxReboots = 1
    MaxChanges = 1
INVARIANTS TypeOK PatchIsKept HelloTellsTheStored SummaryNearlyAdds
SYMMETRY Symmetry
