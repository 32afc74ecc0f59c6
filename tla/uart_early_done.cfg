SPECIFICATION Spec
CONSTANTS
    Capacity = 2
    Chunk = 2
    MaxLen = 3
    MaxBytes = 6
INVARIANT DoneMeansSent
CHECK_DEADLOCK FALSE
