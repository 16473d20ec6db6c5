\* A reed switch that bounces, and two disturbances of the line; as in the code the
\* banner is not a whole number of packets.
SPECIFICATION Spec
CONSTANTS
    StableTicks = 3
    SequenceSpan = 4
    PacketSize = 3
    BannerSize = 4
    MaxWire = 6
    MaxDisturbances = 2
    MaxMissed = 4
INVARIANTS
    TypeOK
    CommittedIsSettled
    ViewIsCurrent

    
