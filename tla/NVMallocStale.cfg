CONSTANTS
    NumPages = 4
    Sizes = {1, 3}
    size_align = 2
    MAX_OPEN_FILE_CNT = 3
    MAX_FILE_INDEX_LIMIT = 4
SPECIFICATION Spec
INVARIANTS
    RegisteredVariablesAreLive
