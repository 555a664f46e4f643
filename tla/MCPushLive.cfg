CONSTANTS
    MaxInt = 127
    MaxParts = 4
    FileSize = 4
    PartSize = 2
    a = a
    b = b
    z = z
    cfg = cfg
    w1 = w1
    w2 = w2
    Contents <- TwoContents
    SizeOf <- TwoSizeOf
    EmptyConfig = cfg
    Workers <- MCWorkers
    Main = main
    MaxAttempts = 2
    MaxEdits = 0
    None = None
SPECIFICATION FairSpec
PROPERTIES
    CancellationUnwinds
    PublishesAtomically
    AccountOnlyGrows
    PushReturns
