CONSTANTS
    NumCells = 3
    Sizes = {1, 2}
    Counts = {2}
    Capacity = 2
    MaxObjects = 2
SPECIFICATION SpecFaults
INVARIANTS
    QueueIsPrivate
CHECK_DEADLOCK FALSE
