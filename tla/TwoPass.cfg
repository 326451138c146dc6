CONSTANTS
    Threads = {t1, t2}
    Vars = {v1, v2, v3}
    LibcVar = libc
    OwnVar = own
    Sizes = {0, 8, 4096}
    MaxCalls = 3
    MaxDepth = 2
    Unnamed = {v3}
    VAR_COUNT_TRANS = 2
SPECIFICATION SpecTwoPass
INVARIANTS
    HeroObjectsListed
    FlagOpenAtRest
    OrphansAreBounded
    HeroObjectsAnnounced
    NamesTellObjects
CHECK_DEADLOCK FALSE
