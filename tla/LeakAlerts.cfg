\* Homes with water, temperature, air and power sensors on one dispatcher.
SPECIFICATION HubSpec
CONSTANTS
    Zones <- MCZones
    AlertTypes <- MCTypes
    Leak = "water_leak"
    Configs <- MCConfigs
    TempValues <- MCTempValues
    AirReadings <- MCAirReadings
    Watts <- MCWatts
    Packets <- MCPackets
    MaxLeakZones = 2
    MaxTempZones = 1
    MaxAirZones = 2
    MaxCircuits = 2
    MaxWatchpoints = 12
    MaxViolations = 2
    U32Max = 23
    I32Min <- MCI32Min
    I32Max = 7
    ZoneSpan = 2
    MaxSubscriptions = 6
    MaxRecent = 1
    Cooldown = 3
    MinuteSec = 2
    MaxPerMinute = 1
    MaxTime = 5
    ClockGoesBack = FALSE
INVARIANTS
    HubTypeOK
    OneReportPerEpisode
    SilenceIsExcused
    StandingExcessIsHeard
    HeardAlertsAreConfigured
PROPERTIES
    TempAsVerified
    TempAsComponent
    AirAsVerified
    AirAsComponent
    PowerAsVerified
    PowerAsComponent
    LeakAsVerified
    LeakAsComponent
