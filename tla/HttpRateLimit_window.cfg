SPECIFICATION LimitersSpec
CONSTANTS
    i1 = i1
    i2 = i2
    n1 = n1
    Ips = {i1, i2}
    Proxies = {i1}
    NodeIds = {n1}
    Global = Global
    Bootstrap = Bootstrap
    MaxOf <- SmallMax
    WindowSec = 1
    PerSecond = 2
    MaxClock = 5
    MaxWaiting = 1
INVARIANTS LimitersTypeOK NeverExceedsMax RetryAfterSuffices
