CONSTANTS
    Letters = {"a", "n"}
    MaxKeys = 4

SPECIFICATION Spec

INVARIANTS
    NothingTypedIsLost
    NothingLeftOver
    WrittenOnceInOrder
PROPERTIES
    TypingKeepsWhatIsHeld
    EnterCommitsWhatIsShown
