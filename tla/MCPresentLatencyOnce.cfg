SPECIFICATION Spec
CONSTANTS
    HostBackends = {dlss}
    OwnBackends = {fsr}
    Off = off
    None = none
    Callers = {game}
    MaxGeneration = 2
    MaxCreated = 1
INVARIANT
    LatencyOnce
CHECK_DEADLOCK FALSE
