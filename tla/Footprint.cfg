CONSTANTS
    Addrs = {a1, a2, a3, a4}
    NULL = NULL
    Sizes = {0, 1, 3}
    MaxCalls = 5
SPECIFICATION Spec
INVARIANTS
    NeverUndercounts
    ExactWithoutRealloc
CHECK_DEADLOCK FALSE
