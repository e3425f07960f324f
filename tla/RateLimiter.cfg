CONSTANTS
    busy = busy
    barred = barred
    Clients = {busy, barred}
    Limit <- TwoOrNone
    WindowSeconds = 2
    Second = 2
    MaxTime = 14
SPECIFICATION Spec
INVARIANTS
    TypeOK
    AtMostLimitPerWindow
    RetryAfterIsExact
PROPERTY ImplementsWindow
