SPECIFICATION FairSpec
CONSTANTS
    g1 = g1
    g2 = g2
    bad = bad
    None = None
    Partial = Partial
    Image <- MCImage2
    Good <- MCGood2
    MaxBoots = 1
    BootsMod = 3
    MaxFaults = 1
    MaxUpdates = 1
INVARIANTS
    TypeOK
    BootSlotComplete
    PowerLossNeverConvicts
    CrashLoopConvicted
    VerifiedNotReverted
    AbortFindsImage
    BadOnTrial
PROPERTIES
    BadImageLeft
