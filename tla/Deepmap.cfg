CONSTANTS
    NumPages = 4
    Sizes = {1, 3}
    size_align = 2
    MAX_OPEN_FILE_CNT = 2
    MAX_FILE_INDEX_LIMIT = 3
    Blocks = {101}
    tmp_array = 102
    Junk = 103
SPECIFICATION SpecDeepmap
INVARIANTS
    HeldBlocksAreVariables
PROPERTIES
    KeepsTheRules
    DestructorRemovesFiles
