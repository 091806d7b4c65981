SPECIFICATION Spec
CONSTANTS
    Word = 256
    HalfWord = 16
    NormalBars = 6
    BridgeBars = 2
    Bars <- MCBars
INVARIANTS ReportsTheDevice LeavesTheDeviceAlone
CHECK_DEADLOCK FALSE
