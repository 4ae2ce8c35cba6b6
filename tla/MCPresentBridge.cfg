SPECIFICATION Spec
CONSTANTS
    HostBackends = {dlss}
    OwnBackends = {fsr}
    Off = off
    None = none
    Callers = {}
    MaxGeneration = 2
    MaxCreated = 2
INVARIANTS
    BridgeInv
    ResultIsTruth
PROPERTIES
    DestroyedAfterDrain
CHECK_DEADLOCK FALSE
