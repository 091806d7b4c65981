SPECIFICATION Spec
CONSTANTS
    FontHeight = 2
    Buffers <- MCBuffers
    Rune <- MCRune
    MaxLines = 3
INVARIANTS DrawsInside ShowsTheRoll
CHECK_DEADLOCK FALSE
