\* A caller free to start a download whenever the core is idle.
SPECIFICATION Spec
CONSTANTS
    i1 = i1
    i2 = i2
    Images = {i1, i2}
    Junk = Junk
    None = None
    MaxImageBytes = 3
    MaxChunkBytes = 2
    MaxSize = 4
    ConfirmFirst = FALSE
INVARIANT RollbackPromotesImage
