SPECIFICATION Spec
CONSTANTS
    zero = zero
    one = one
    m1 = m1
    ItemCount = 1
    Zero = zero
    Value = {zero, one}
    Message = {m1}
    MaxSends = 1
    MaxSets = 2
    MaxJoins = 1
    MaxDownlinks = 1
    MaxFaults = 1
INVARIANTS DoneMeansAccepted ValueKept
PROPERTY Served
CHECK_DEADLOCK FALSE
