SPECIFICATION OwnedSpec
CONSTANTS
    Page <- MCPage
    PhysPage <- MCPhysPage
    Sizes <- MCSizes
    Unmapped = Unmapped
    GlobalPages <- MCGlobalPages
    ActivateKeepsGlobal = TRUE
    Handle = {h1, h2}
    Ranges <- MCRanges
    Null = Null
INVARIANTS StaleOnlyIfOwed NeverFreedTwice HandlesTranslate
PROPERTY ImplementsMem
CHECK_DEADLOCK FALSE
