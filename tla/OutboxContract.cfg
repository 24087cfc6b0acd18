\* A send function that raises when delivery is uncertain; writes that fail or tear.
CONSTANTS
    Worker = {r1, r2}
    SendOutcome <- RaisingOutcome
    WriteFault = {"lost", "late", "partial", "whole"}
    MaxFaults = 3
SPECIFICATION FairSpec
INVARIANTS
    HistoryReduces
    ConfirmedIsDelivered
PROPERTIES
    RepeatedRunsConfirm
