\* Every swap is confirmed or rolled back before the next download; two images, so
\* that one can replace the other, and sizes on both sides of the two limits.
SPECIFICATION Spec
CONSTANTS
    i1 = i1
    i2 = i2
    Images = {i1, i2}
    Junk = Junk
    None = None
    MaxImageBytes = 3
    MaxChunkBytes = 2
    MaxSize = 4
    ConfirmFirst = TRUE
INVARIANTS
    TypeOK
    ReadyIsAuthentic
    RunsAuthenticImage
PROPERTIES
    RunningBankUntouched
    ImplementsFirmwareUpdate
