CONSTANTS
    Byte = {0, 1}
    Right <- MCRight
    MaxAttempts = 4
    MaxStart = 4
    MaxLate = 1
    MaxWait = 7
    Base = 2
    Cap = 6
    ProgressStep = 2
    Second = 3
    Counts <- MCCounts
    Untils <- MCUntils
SPECIFICATION FairSpec
INVARIANTS
    PlacedIsRight
    AgreeToTheByte
    WaitsEscalate
    SeenIsCurrent
    AccountIsHonest
PROPERTIES
    AccountOnlyGrows
    PartEnds
