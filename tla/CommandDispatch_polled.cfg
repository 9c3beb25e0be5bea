SPECIFICATION FairSpec
CONSTANTS
    c1 = c1
    c2 = c2
    m1 = m1
    h1 = h1
    p1 = p1
    p2 = p2
    Commands = {c1, c2}
    Nodes = {m1, h1}
    Target <- PolledTarget
    MqttNodes = {m1}
    PollNodes = {h1}
    LegacyNodes = {}
    Pollers = {p1}
    PollerNode <- OnePoller
    Outcomes = {"executed", "error"}
    NoCommand = NoCommand
    MaxClock = 1
    MaxRestarts = 1
INVARIANTS SelectionIsFresh
PROPERTIES ImplementsLifecycle QueuedIsPicked
