\* SYSREQ-WOHL-001: no delay, no dedup, immediate dispatch.
SPECIFICATION Spec
CONSTANTS
    Zones <- MCZones
    leak = leak
    temp = temp
    AlertTypes = {leak, temp}
    Leak = leak
    Configs <- MCConfigs
    MaxLeakZones = 2
    ZoneSpan = 4
    MaxSubscriptions = 4
    MaxRecent = 4
    Cooldown = 3
    MinuteSec = 2
    MaxPerMinute = 2
    MaxTime = 5
    ClockGoesBack = FALSE
INVARIANT
    EveryLeakIsReported
