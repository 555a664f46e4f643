CONSTANTS
    MaxInt = 31
    MaxParts = 4
SPECIFICATION Spec
INVARIANTS
    TilesTheFile
    AdviceWorks
    ReadsBack
    AcceptedTiles
    AcceptedIsRewritable
CHECK_DEADLOCK FALSE
