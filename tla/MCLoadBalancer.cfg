CONSTANTS
    b1 = b1
    b2 = b2
    b3 = b3
    b4 = b4
    NoBackend = NoBackend
    Backend <- MCBackend
SPECIFICATION LBSpec
INVARIANTS
    LBTypeOK
    CursorInBounds
    NoDuplicate
    RotationInvariant
PROPERTY ImplementsPool
