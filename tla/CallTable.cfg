CONSTANTS
    t1 = t1
    t2 = t2
    s1 = s1
    s2 = s2
    s3 = s3
    s4 = s4
    s5 = s5
    None = None
    Threads <- MCThreads
    Sites <- MCSites
    EarlySites <- MCEarlySites
    StringHash <- MCStringHash
    UIntSize = 16
    MAX_HASH_SIZE = 3
SPECIFICATION FairSpec
INVARIANTS
    OneIdPerHash
    EveryEntryIsReachable
    DumpListsVariables
    CallTableIInv
PROPERTIES
    LockIsReleased
