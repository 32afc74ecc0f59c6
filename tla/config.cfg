SPECIFICATION Spec
CONSTANTS
    Value <- Bits
    Words = 2
    Default <- Zeros
    Signature <- TwoSignatures
    SigModulus = 4
    Junk = Junk
    MaxSaves = 3
    MaxFaults = 2
INVARIANT SaveRepairs
PROPERTIES Durable NeverMixed
CHECK_DEADLOCK FALSE
