SPECIFICATION SteadySpec
CONSTANTS
    HostBackends = {dlss}
    OwnBackends = {fsr}
    Off = off
    None = none
    Callers = {game}
    MaxGeneration = 2
    MaxCreated = 2
INVARIANTS
    Published
    LatencyOnce
    CallsShareLifetime
    MarkersKeepTheirSession
PROPERTIES
    RequestServed
