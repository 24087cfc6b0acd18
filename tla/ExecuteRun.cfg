\* Two strategies, one that holds the ticker; two sessions; two faults.
CONSTANTS
    s1 = s1
    s2 = s2
    NoSignal = NoSignal
    Strategies <- InOrder
    InitHeld = {s1}
    Ratio = 2
    MaxSession = 2
    MaxFaults = 2
SPECIFICATION FairSpec
INVARIANTS
    ExecuteInv
    TradesAreReal
    AlertsAreExplained
    RefusedWasSplit
    SplitsRepeatByFailures
PROPERTIES
    NothingIsUndone
    FillsAreRecorded
