SPECIFICATION Spec
CONSTANTS
    Levels = 4
    Radix = 2
    Page <- MCPage
    PhysPage <- MCPhysPage
    Sizes <- MCSizes
    Frame = {f1, f2, f3, f4, f5}
    Root = Root
    NoFrame = NoFrame
    Absent = Absent
    Garbage = Garbage
    FreeMayFail = FALSE
INVARIANTS TablesAreATree NothingLeaks DumpTellsTheMapping
PROPERTY ImplementsSpace
SYMMETRY SameFrames
