CONSTANTS
    NumPages = 3
    Sizes = {1, 3}
    size_align = 2
    MAX_OPEN_FILE_CNT = 4
    MAX_FILE_INDEX_LIMIT = 5
SPECIFICATION Spec
INVARIANTS
    VariablesOwnTheirFiles
    VariablesAreMapped
    NothingLeaks
    NVMallocIInv
PROPERTIES
    ExitRemovesFiles
