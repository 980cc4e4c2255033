CONSTANTS
    Letters = {"a"}
    MaxKeys = 2

SPECIFICATION Spec

INVARIANTS
    PreviewIsWhole
