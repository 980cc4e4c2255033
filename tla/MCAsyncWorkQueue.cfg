CONSTANTS
    Queues = {1, 2}
    MaxId = 3

SPECIFICATION Spec

INVARIANTS
    PendingCoversWork
    NoLostWakeup

PROPERTIES
    ShutdownReturns
    ImplementsJobService
