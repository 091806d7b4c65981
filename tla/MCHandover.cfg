SPECIFICATION FairSpec
CONSTANTS
    FREE = FREE
    LOADER = LOADER
    KERNEL = KERNEL
    RESERVED = RESERVED
    Tag <- MCTag
    Unclaimed = Unclaimed
    BufSize = 112
    MaxAddr = 4
    StrLens = {31}
INVARIANTS TypeOK Sorted Coalesced NeverMeet QueriesTellTheMap
PROPERTIES ImplementsMap AddReturns
CHECK_DEADLOCK FALSE
