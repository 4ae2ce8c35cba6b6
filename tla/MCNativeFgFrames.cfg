SPECIFICATION Spec
CONSTANTS
    Ring = 2
    Tokens = 2
    Skip = 1
    InFlight = 2
    MaxFrame = 3
    MaxSwitches = 1
INVARIANTS
    FramesInv
    TokensReturn
    OneWaitPerPause
    GeneratesWhatItBegan
PROPERTIES
    JoinExact
    JoinReturns
CHECK_DEADLOCK FALSE
