SPECIFICATION Spec
CONSTANTS
    Slot = {c1, c2}
    Deployer = Deployer
    Nobody = Nobody
    LeaseLoss = {c1, c2}
    Deadline = TRUE
INVARIANTS
    NeverRestartOverWork
