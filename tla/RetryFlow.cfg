CONSTANTS
    Wrap = 16
    FirstWait = 3
    MaxWait = 8
    ScanEvery = 2
    OffTime = 1
    FreshSession = TRUE
    Idle = Idle
SPECIFICATION Spec
INVARIANTS CycleInTime
PROPERTIES CycleAfterWait
