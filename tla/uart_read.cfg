SPECIFICATION ReadSpec
CONSTANTS
    Capacity = 2
    Infinity = 7
    MaxTick = 3
    Timeouts <- Both
INVARIANT WakeupKept
PROPERTIES ReportsInProgress DataReported
