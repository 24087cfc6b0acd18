\* One strategy that holds the ticker, one session, one run that ends early.
CONSTANTS
    s1 = s1
    s2 = s2
    NoSignal = NoSignal
    Strategies <- InOrder
    InitHeld = {s1}
    Ratio = 2
    MaxSession = 1
    MaxFaults = 1
SPECIFICATION Spec
INVARIANTS
    SplitOncePerSession
