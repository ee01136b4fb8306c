SPECIFICATION Spec
CONSTANTS
    CommitTicks = 4
    TimerTicks = 2
    Attempts = 1
    MaxFaults = 0
INVARIANTS
    RollbackStopsInstall
CHECK_DEADLOCK FALSE
