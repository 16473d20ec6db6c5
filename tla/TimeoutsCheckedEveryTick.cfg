\* The comment on the scheduler slots: (every tick).
SPECIFICATION Spec
CONSTANTS
    Zones <- MCZones
    tooLong = tooLong
    night = night
    DoorOpenTooLong = tooLong
    DoorNight = night
    AlertTypes = {tooLong, night}
    Configs <- MCOne
    MaxContacts = 2
    MaxAlertsPerCheck = 2
    DaySec = 4
    HourSec = 1
    WordSpan = 16
    FrameTime = 1
    MinorFrames = 3
    ZoneSpan = 4
    MaxSubscriptions = 4
    MaxRecent = 2
    Cooldown = 2
    MinuteSec = 2
    MaxPerMinute = 3
    MaxTime = 5
    ClockGoesBack = FALSE
INVARIANT
    TimeoutsCheckedEveryTick
