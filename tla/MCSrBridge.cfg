SPECIFICATION Spec
CONSTANTS
    Choices = {fsr}
    Views = {main}
    NoChoice = none
    MaxInstances = 2
    Slots = 2
    MaxFrame = 2
    MaxGeneration = 2
    MaxTick = 8
    Recovers = FALSE
INVARIANTS
    SrInv
    ContinuesHistory
    OwnImages
    NothingFreedInUse
PROPERTIES
    FenceRises
    WaitsEnd
CHECK_DEADLOCK FALSE
