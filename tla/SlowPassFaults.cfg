CONSTANTS
    NumCells = 2
    Sizes = {0, 1, 2}
    Counts = {2}
    Capacity = 2
    MaxObjects = 2
SPECIFICATION SpecFaults
INVARIANTS
    QueueHoldsOneMessage
    ForeignRowsAreExplained
PROPERTIES
    CallsReturn
