CONSTANTS
    Channels = {c1, c2}
    Conditions <- MCConditions
    InitEvents = 1
SPECIFICATION Spec
INVARIANTS
    KernelMirror
    CapacityBound
    OnlyWithdrawnIsStale
PROPERTIES
    NoStarvation
    QuitStops
CHECK_DEADLOCK FALSE
