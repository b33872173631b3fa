\* SyncFindsAll is what the fuzz test expects; it does not hold.
SPECIFICATION SyncSpec
CONSTANTS
    MaxItem = 8
    Buckets = 2
    \* Room for a split and a skip before it, and no more.
    FrameLimit = 5
CHECK_DEADLOCK FALSE
INVARIANTS
    SyncFindsAll
