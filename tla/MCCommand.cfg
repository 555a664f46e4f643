CONSTANTS
    x = x
    y = y
    p1 = p1
    Pulls <- OnePull
    Contents <- MCContents
    Artifacts <- Served
    Inodes = {1, 2, 3}
    Workers = 2
    MaxCrashes = 0
    Zero = Zero
    Torn = Torn
    None = None
SPECIFICATION BoundedSpec
INVARIANTS
    StatusTellsWhy
    LastLineIsTheEnd
PROPERTIES
    Interruptible
    StoppedPullsReturn
    CommandEnds
