CONSTANTS
    Text = {a, b}
    NoText = NoText
    MaxId = 3
    MaxSessions = 2
    MaxEntries = 1

SPECIFICATION Spec

\* With all sessions of the bound over nobody activates the service again.
CHECK_DEADLOCK FALSE

INVARIANTS
    TypeOK
    PendingMatchesRequest
    CacheProvenance
    NoCancelledAnswer
    RequestIsAnswerable
    NoLostDispatch
    TranslationTabIsCurrent
PROPERTIES
    WaitEnds
