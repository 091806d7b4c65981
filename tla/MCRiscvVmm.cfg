SPECIFICATION Sv39Spec
CONSTANTS
    Levels = 3
    Radix = 2
    Page <- MCPage
    PhysPage <- MCPhysPage
    Sizes <- MCSizes
    Frame = {f1, f2, f3}
    Root = Root
    NoFrame = NoFrame
    Absent = Absent
    Garbage = Garbage
    FreeMayFail = TRUE
INVARIANT Sv39DumpTellsTheMapping
PROPERTIES ImplementsSpace CallsReturn
