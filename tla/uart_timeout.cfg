SPECIFICATION ReadSpec
CONSTANTS
    Capacity = 2
    Infinity = 7
    MaxTick = 3
    Timeouts <- TwoAndInfinity
PROPERTY TimeoutIsDuration
