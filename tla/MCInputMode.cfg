CONSTANTS
    Services = {s1, s2}
    LateCallbacks = FALSE
    MaxPresses = 2

SPECIFICATION Spec

\* With all presses of the bound done nobody presses a key again.
CHECK_DEADLOCK FALSE

INVARIANTS
    AgreesWhenQuiet
    OffMeansNothingTyped
    PressObeyedOnce
PROPERTIES
    ModesConverge
