SPECIFICATION Spec
CONSTANTS
    ChannelCount = 3
    MaxHolders = 1
    MaxLost = 2
INVARIANTS AwakeWhileBusy NeverWedged
PROPERTY Answered
