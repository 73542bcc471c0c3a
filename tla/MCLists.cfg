SPECIFICATION Spec
CONSTANTS
    Blocks = {b1, b2, b3, b4, b5, b6}
    NULL = NULL
    MaxFiles = 3
    MaxLost = 2
SYMMETRY BlockSymmetry
INVARIANT TypeOK
INVARIANT Owned
INVARIANT FreesOnce
INVARIANT Accounted
