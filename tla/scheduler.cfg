SPECIFICATION FairSpec
CONSTANTS
    MaxTasks = 3
    Infinity = 3
    MaxTick = 1
    MaxCalls = 2
    Delay <- SomeDelays
INVARIANTS Reachable SpinServesAll
PROPERTY Served
