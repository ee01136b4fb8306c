SPECIFICATION Spec
CONSTANTS
    g1 = g1
    g2 = g2
    bad = bad
    None = None
    Partial = Partial
    Image <- MCImage
    Good <- MCGood
    MaxBoots = 2
    BootsMod = 5
    MaxFaults = 0
    MaxUpdates = 1
INVARIANTS
    OwnResetsConvict
