CONSTANTS
    var_size = 5
    PAGE_SIZE = 2
    CACHE_LINE_SIZE = 1
    NEIGBOUR_SIZE = 3
    NEIGBOUR_INS_SIZE = 2
    EPISODE_LEN = 2
    INT_RANGE = 8
    AccessSizes = {2}
    MaxAccesses = 3
    MaxInstructions = 4
SPECIFICATION Spec
INVARIANTS
    LocalityMatchesHistory
    PageCountersMatchVisits
    EpisodesMatchHistory
    OffsetsMatchHistory
CHECK_DEADLOCK FALSE
