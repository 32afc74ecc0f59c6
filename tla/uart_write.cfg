SPECIFICATION PSpec
CONSTANTS
    Capacity = 2
    Chunk = 2
    MaxLen = 3
    MaxBytes = 8
    MaxStray = 1
    PendingCapacity = 2
INVARIANTS InOrder PatientDoneMeansSent ClockFollows 
PROPERTIES EverythingLeaves TransferEnds
CHECK_DEADLOCK FALSE
