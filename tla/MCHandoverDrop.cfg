SPECIFICATION Spec
CONSTANTS
    FREE = FREE
    LOADER = LOADER
    KERNEL = KERNEL
    RESERVED = RESERVED
    Tag <- MCTag
    Unclaimed = Unclaimed
    BufSize = 112
    MaxAddr = 3
    StrLens = {}
PROPERTY DropLeavesMapAlone
CHECK_DEADLOCK FALSE
