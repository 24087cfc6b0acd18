\* Repeated attempts of the signal of a session, rescored or with revised prices.
CONSTANTS
    s1 = s1
    a = a
    b = b
    None = None
    Strategy = {s1}
    Ticker = {a, b}
    Manifest = {"m1", "m2"}
    Version = {1, 2}
    Input <- Repeated
    MaxSession = 2
    MaxAttempts = 3
    MaxFaults = 2
SPECIFICATION Spec
INVARIANTS
    WorkflowInv
    SignalIsBacked
    IndexIsBacked
    OneSignalPerRun
    AckedIsPushed
    GreenMeansValid
CHECK_DEADLOCK FALSE
