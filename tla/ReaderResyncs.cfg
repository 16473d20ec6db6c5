\* The comments of the firmware: the hub re-syncs.
SPECIFICATION Spec
CONSTANTS
    StableTicks = 3
    SequenceSpan = 4
    PacketSize = 3
    BannerSize = 4
    MaxWire = 6
    MaxDisturbances = 1
    MaxMissed = 4
INVARIANT
    ReaderResyncs
