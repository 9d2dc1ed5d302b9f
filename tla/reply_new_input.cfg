SPECIFICATION Spec
CONSTANTS
    Worker = {w1}
    Nobody = Nobody
    LetGo = LetGo
    MaxAttempts = 2
    MaxInputs = 3
    MaxGenerations = 2
    MaxClaims = 2
PROPERTIES
    NewInputRequeues
