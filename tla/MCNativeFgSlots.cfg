SPECIFICATION Spec
CONSTANTS
    Slots = 2
    Ahead = 2
    MaxId = 3
    MaxSerial = 4
    MaxGeneration = 1
INVARIANTS
    SlotsInv
    WritesAreAlone
    SubmittedBeforeWaiting
CHECK_DEADLOCK FALSE
