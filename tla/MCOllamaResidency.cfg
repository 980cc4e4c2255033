CONSTANTS
    Services = {s1, s2}
    WarmupOnActivate = TRUE
    UnloadOnDeactivate = TRUE
    MaxGeneration = 3
    MaxExits = 1

SPECIFICATION Spec

\* With the last activation of the bound used up nobody begins again.
CHECK_DEADLOCK FALSE

INVARIANTS
    CountMatchesServices
PROPERTIES
    DisturbedDelaySendsNothing
    NoUnloadWhileActive
