CONSTANTS
    LONGEST_ADDR = 16
    Sizes = {0, 1, 3, 4}
    MaxCalls = 4
SPECIFICATION Spec
INVARIANTS
    FindMatchesHeap
CHECK_DEADLOCK FALSE
