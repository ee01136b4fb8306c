SPECIFICATION FairSpec
CONSTANTS
    Browser = {b1}
    MaxSessions = 2
    TTL = 1
    LockoutMax = 2
    MaxShift = 16
    MaxLogins = 3
    MaxTime = 3
    MaxBoots = 2
    MaxFaults = 1
INVARIANTS
    TypeOK
    EndedStaysEnded
    TtlKept
    BackOffKept
    TokenMatches
PROPERTIES
    SignedOutLeaves
