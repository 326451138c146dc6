CONSTANTS
    Tools <- Variants
    Threads = {0, 1}
    Main = 0
    Sizes = {0, 2}
    Capacity = 3
    IntLimit = 32
    AllocInfo <- MCAllocInfo
    NestedMallocs = 1
    MaxCalls = 3
    MaxEvents = 4
SPECIFICATION Spec
CONSTRAINT ThirdCallBound
INVARIANTS
    TableIsReceived
    NoAccessIsLost
    QueueIsBounded
    TwoThreadsNeverWait
    SepRegistersMain
    MTIInv
