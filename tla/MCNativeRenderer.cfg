CONSTANTS
    Renderers = {r1, r2}
    NoRenderer = none
    Capacity = 3
    MaxRefusals = 1
    MaxReads = 1
    Pauses = {"disable"}
SPECIFICATION Spec
INVARIANTS RendererInv UnloadSafe HooksOffIsDrained LeaseOutlivesScope UniformOutlivesDraws InsideOpenScopes HookCallsAlone
PROPERTY ShutdownEnds
CHECK_DEADLOCK FALSE
