SPECIFICATION Spec
CONSTANTS
    Choices = {fsr}
    Views = {main}
    NoChoice = none
    MaxInstances = 1
    Slots = 2
    MaxFrame = 3
    MaxGeneration = 1
    MaxTick = 9
    Recovers = TRUE
INVARIANTS
    NothingFreedInUse
CHECK_DEADLOCK FALSE
