CONSTANTS
    x = x
    y = y
    p1 = p1
    p2 = p2
    Pulls <- OnePull
    Contents <- MCContents
    Artifacts <- Served
    Inodes = {1, 2, 3}
    Workers = 2
    MaxCrashes = 2
    Zero = Zero
    Torn = Torn
    None = None
SPECIFICATION Spec
INVARIANTS
    DestinationIsWhole
    PlacedIsInPlace
PROPERTIES
    DestinationKept
    ResumeLosesNothing
