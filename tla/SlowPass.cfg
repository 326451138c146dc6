CONSTANTS
    NumCells = 3
    Sizes = {0, 1, 2}
    Counts = {2}
    Capacity = 1
    MaxObjects = 2
SPECIFICATION Spec
INVARIANTS
    IInv
    NoStaleOwner
    AnnouncedBlocksAreRegistered
    QueueIsHandOver
PROPERTIES
    RowsOnlyRetireOnRelease
    KeepsPromise
