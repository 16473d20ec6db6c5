\* Timestamps in any order.
SPECIFICATION Spec
CONSTANTS
    Zones <- MCZones
    AlertTypes = {leak}
    leak = leak
    ZoneSpan = 4
    MaxSubscriptions = 2
    MaxRecent = 2
    Cooldown = 2
    MinuteSec = 2
    MaxPerMinute = 2
    MaxTime = 4
    WordSpan = 7
    ClockGoesBack = TRUE
INVARIANTS
    DedupSpacing
    DedupIsBacked
PROPERTIES
    ForgottenEntriesAreDead
