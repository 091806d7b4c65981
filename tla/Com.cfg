SPECIFICATION Spec
CONSTANTS
    SpinLimit = 2
    FifoDepth = 2
    MaxOut = 3
    MaxIn = 2
    MaxSetups = 3
INVARIANTS BytesInOrder ProbeTellsTheTruth LoopbackStaysInside
PROPERTY CallsReturn
CHECK_DEADLOCK FALSE
