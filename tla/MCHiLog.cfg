SPECIFICATION FairSpec
CONSTANTS
    RetryMax = 5
    MaxEvents = 3
    Producer = {p1, p2}
    Capacity = 2
    MaxLines = 4
INVARIANTS
    TypeOK
    ProducersStopped
    Followed
PROPERTIES
    Reconnects
    LinesSent
CHECK_DEADLOCK FALSE
