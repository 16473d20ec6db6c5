\* Two water zones, two contacts of one room, two meters; ids apart.
SPECIFICATION Spec
CONSTANTS
    MaxLeakZones = 2
    LeakConfig <- MCWater
    ZoneOf <- MCApart
    Meters <- MCMeters
    Measured <- MCMeasured
    Int16Min <- MCInt16Min
    Int16Max = 1
INVARIANTS
    TypeOK
    CacheMirrorsReadings
    ShowsLeak
