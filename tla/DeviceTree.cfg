SPECIFICATION Spec
CONSTANTS
    MaxTokens = 9
    CellCounts = {2, 3}
INVARIANTS DumpReadsTheTape CellsComeFromTheInnermost
PROPERTY DumpReturns
CHECK_DEADLOCK FALSE
