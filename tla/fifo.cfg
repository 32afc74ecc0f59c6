SPECIFICATION Spec
CONSTANTS
    Size = 3
    Byte = {a, b}
    MaxLen = 3
    Context <- BothContexts
INVARIANT Exclusive
PROPERTY AtomicQueue
SYMMETRY ByteSymmetry
