SPECIFICATION Spec
CONSTANTS
    Capacity = 2
    MaxId = 3
    MaxGeneration = 3
    MaxReads = 1
INVARIANTS
    SessionInv
    OnePhysicalChain
    StatusIsTrue
PROPERTIES
    ContextOutlivesReads
    OwnerSpec
CHECK_DEADLOCK FALSE
