CONSTANTS
    Services = {s1, s2}
    WarmupOnActivate = TRUE
    UnloadOnDeactivate = TRUE
    MaxGeneration = 2
    MaxExits = 0

SPECIFICATION Spec

CHECK_DEADLOCK FALSE

PROPERTIES
    UnloadFollowsLastDeactivation
