\* The home of default_config: contact 1 and water zone 1 share an endpoint.
SPECIFICATION Spec
CONSTANTS
    MaxLeakZones = 3
    LeakConfig <- MCDefaultWater
    ZoneOf <- MCDefaultDoors
    Meters <- MCNoMeters
    Measured <- MCMeasured
    Int16Min <- MCInt16Min
    Int16Max = 1
INVARIANT
    ShowsLeak
