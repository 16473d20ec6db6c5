\* Timestamps in any order; more contacts overdue than one check reports, a
\* contact id listed twice and a contact beyond the table.
SPECIFICATION Spec
CONSTANTS
    Zones <- MCZones
    tooLong = tooLong
    night = night
    DoorOpenTooLong = tooLong
    DoorNight = night
    AlertTypes = {tooLong, night}
    Configs <- MCHomes
    MaxContacts = 3
    MaxAlertsPerCheck = 2
    DaySec = 4
    HourSec = 1
    WordSpan = 16
    FrameTime = 1
    MinorFrames = 2
    ZoneSpan = 4
    MaxSubscriptions = 4
    MaxRecent = 2
    Cooldown = 3
    MinuteSec = 2
    MaxPerMinute = 2
    MaxTime = 4
    ClockGoesBack = TRUE
INVARIANTS
    TypeOK
    TimeoutIsGenuine
    SilenceIsExcused
PROPERTIES
    DoorAsVerified
    DoorAsComponent
