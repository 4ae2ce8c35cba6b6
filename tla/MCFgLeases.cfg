SPECIFICATION FairSpec
CONSTANTS
    Capacity = 2
    MaxId = 4
INVARIANTS
    IInv
    ReadsAreLeased
PROPERTIES
    PromiseSpec
    LeaseRetires
CHECK_DEADLOCK FALSE
