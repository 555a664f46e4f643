CONSTANTS
    MaxInt = 127
    MaxParts = 4
    FileSize = 5
    PartSize = 2
    a = a
    b = b
    z = z
    cfg = cfg
    w1 = w1
    w2 = w2
    Contents <- MCContents
    SizeOf <- MCSizeOf
    EmptyConfig = cfg
    Workers <- MCWorkers
    Main = main
    MaxAttempts = 2
    MaxEdits = 1
    None = None
SPECIFICATION Spec
SYMMETRY Alike
INVARIANTS
    ManifestIsWhole
    StoredMatchesDigest
    OneUploaderPerDigest
    CreditIsEarned
    LedgerBalances
