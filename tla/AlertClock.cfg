\* A clock that never goes back; the table holds fewer entries than alerts sent.
SPECIFICATION Spec
CONSTANTS
    Zones <- MCTwoZones
    AlertTypes = {leak}
    leak = leak
    ZoneSpan = 4
    MaxSubscriptions = 2
    MaxRecent = 2
    Cooldown = 5
    MinuteSec = 2
    MaxPerMinute = 2
    MaxTime = 8
    WordSpan = 14
    ClockGoesBack = FALSE
INVARIANTS
    TypeOK
    NoRepeatWithinCooldown
    RateLimitIsBacked
    SlidingRateBound
PROPERTIES
    DispatcherAsVerified
    DispatcherAsComponent
    DispatcherAsGhost
