SPECIFICATION Spec
CONSTANTS
    Slots = 2
    Ahead = 2
    MaxId = 4
    MaxSerial = 5
    MaxGeneration = 1
INVARIANTS
    WaitsEnd
CHECK_DEADLOCK FALSE
