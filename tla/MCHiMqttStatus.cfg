SPECIFICATION Spec
CONSTANTS
    MaxSubs = 1
    OutboxLimit = 2
INVARIANTS
    ConnectedIsOnline
