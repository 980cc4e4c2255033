CONSTANTS
    Letters = {"k"}
    MaxKeys = 2

SPECIFICATION Spec

PROPERTIES
    SymbolLosesNothing
