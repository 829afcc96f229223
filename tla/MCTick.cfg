CONSTANTS
    Half = 8
    MaxTime = 25
    Delta = 6
    IrqStages = 5
    Restore = 1
SPECIFICATION TickLiveSpec
INVARIANT TicksKeepTime
PROPERTIES ReadIsConsistent InterruptsAreServed
