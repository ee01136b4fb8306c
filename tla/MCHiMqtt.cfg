SPECIFICATION FairSpec
CONSTANTS
    MaxSubs = 2
    OutboxLimit = 2
INVARIANTS
    TypeOK
    AllSubscribed
    OneStateOffline
    OnlineWhenSent
PROPERTIES
    StateRefreshed
