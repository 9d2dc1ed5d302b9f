SPECIFICATION FairSpec
CONSTANTS
    Task = {t1}
    Slot = {s1, s2}
    Pid = {p1, p2}
    NoPid = NoPid
    NoTask = NoTask
    Capacity = 2
    Lease = 2
    Backoff = 1
    Stale = 3
    MaxAttempts = 2
    MaxFaults = 1
    ReclaimStaleLocks = TRUE
    StoreOutage = TRUE
PROPERTIES
    EveryTaskSettles
