CONSTANTS
    Cursors = {c, d}
    Direct = {n}
    MaxFrames = 2
    Capacity = 2
SPECIFICATION FairSpec
INVARIANTS
    FramesAccounted
    SlotIsReleased
    EndIsTrue
PROPERTY NobodyWaitsForEver
CHECK_DEADLOCK FALSE
