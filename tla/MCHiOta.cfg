SPECIFICATION FairSpec
CONSTANTS
    httpd = httpd
    app_main = app_main
    t1 = t1
    t2 = t2
    missing = missing
    e1 = e1
    e2 = e2
    alarm = alarm
    Missing = missing
    Alarm = alarm
    Caller <- MCHttpd
    Task <- MCTask
    Error <- MCError
    QueueSize = 2
    Slots = 2
    Cooldown = 3
    PostTime = 1
INVARIANTS
    TypeOK
    OnlyMissingMuted
PROPERTIES
    OncePerWindow
    MutedOnlyInWindow
    GuardFreed
    FeedbackEnds
