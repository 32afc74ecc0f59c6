SPECIFICATION DSpec
CONSTANTS
    Driver <- AllDrivers
    MaxPolls = 2
    MaxChanges = 2
    InitCommands = 2
    WifiTimeout = 2
    SocketTimeout = 2
    MaxAsks = 3
    MaxDisconnects = 1
    MaxMessages = 1
    MaxWifiFaults = 1
INVARIANTS DeviceReady NeverStuck SuccessIsTrue
PROPERTIES OnDemand Answered AlarmReported Settling
CHECK_DEADLOCK FALSE
