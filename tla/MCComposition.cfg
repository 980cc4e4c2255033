CONSTANTS
    MaxRomaji = 2
    MaxKeys = 4
    MaxQueue = 3

SPECIFICATION Spec

\* With no preedit and nothing waiting after the last letter nothing is left to do.
CHECK_DEADLOCK FALSE

INVARIANTS
    
    NothingTwice
    ShownIsThePreedit
