SPECIFICATION FairSpec
CONSTANTS
    trigger = trigger
    reply = reply
    meeting = meeting
    Adapter = {trigger, reply, meeting}
    Order <- MCOrder
    Agent = {reply, meeting}
    Capacity <- MCCapacity
    SharedCapacity = 1
    Limit = 2
    Future = {f1, f2}
    None = None
    MaxDue = 1
    MaxFaults = 1
INVARIANTS
    TypeOK
    CapacityKept
    NoLostWake
PROPERTIES
    OwnPoolServed
    ServedInTurn
