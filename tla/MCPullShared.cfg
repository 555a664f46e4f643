CONSTANTS
    x = x
    y = y
    p1 = p1
    p2 = p2
    Pulls <- TwoPulls
    Contents <- MCContents
    Artifacts <- Just
    Inodes = {1, 2, 3, 4}
    Workers = 2
    MaxCrashes = 0
    Zero = Zero
    Torn = Torn
    None = None
SPECIFICATION Spec
INVARIANT
    DestinationIsWhole
