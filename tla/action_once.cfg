SPECIFICATION Spec
CONSTANTS
    send = send
    reply = reply
    append = append
    Action = {send, reply, append}
    Readback = {append}
    Reply = {reply}
    Executor = {x1, x2}
    Gone = Gone
    Nobody = Nobody
    Plan <- Repeated
    MaxCalls = 1
SYMMETRY Symmetry
CHECK_DEADLOCK FALSE
INVARIANTS
    TypeOK
    
    ReceiptsAreReal
    InPlanOrder
PROPERTIES
    OnlyCurrentDispatches
    
