SPECIFICATION Spec
CONSTANTS
    send = send
    reply = reply
    append = append
    Action = {append}
    Readback = {append}
    Reply = {}
    Executor = {x1, x2}
    Gone = Gone
    Nobody = Nobody
    Plan <- Single
    MaxCalls = 2
CHECK_DEADLOCK FALSE
INVARIANTS
    EveryEffectOnce
