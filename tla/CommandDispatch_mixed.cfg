SPECIFICATION Spec
CONSTANTS
    c1 = c1
    c2 = c2
    m1 = m1
    h1 = h1
    p1 = p1
    p2 = p2
    Commands = {c1, c2}
    Nodes = {m1, h1}
    Target <- MixedTarget
    MqttNodes = {m1}
    PollNodes = {h1}
    LegacyNodes = {}
    Pollers = {p1, p2}
    PollerNode <- TwoPollers
    Outcomes = {"executed", "error"}
    NoCommand = NoCommand
    MaxClock = 0
    MaxRestarts = 1
INVARIANTS TypeOK DispatchHasRow RecordedWasReported RunIsNotOfferedAgain
