SPECIFICATION FairSpec
CONSTANTS
    CommitTicks = 4
    TimerTicks = 2
    Attempts = 3
    MaxFaults = 3
INVARIANTS
    TypeOK
    UnbootableOnlyByCut
    MigratorKept
PROPERTIES
    CommitCompletes
    Migrates
CHECK_DEADLOCK FALSE
