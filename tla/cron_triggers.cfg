SPECIFICATION FairSpec
CONSTANTS
    Scheduler = {s1}
    Config <- MCConfig
    NoPlan = NoPlan
    Created = 0
    MaxTime = 3
    MaxRuns = 5
    MaxEvents = 2
CHECK_DEADLOCK FALSE
INVARIANTS
    TypeOK
    OneRunPerInstant
    OverlapOnlyByHand
    RunsItsSchedule
PROPERTIES
    RecordIsKept
    CatchesUp
