SPECIFICATION FairSpec
CONSTANTS
    Slot = {c1, c2, c3, c4}
    Deployer = Deployer
    Nobody = Nobody
    LeaseLoss = {c1, c2}
    Deadline = TRUE
INVARIANTS
    TypeOK
    LocksHeld
    WorkIsLeased
    NoClaimDuringDrain
    NeverRestartOverLeased
PROPERTIES
    ImplementsQuiescence
    ClosedGateDrains
    AdmittedClaimEnds
