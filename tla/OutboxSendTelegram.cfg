\* The send function of the deployed reporter.
CONSTANTS
    Worker = {r1, r2}
    SendOutcome <- SendTelegramOutcome
    WriteFault = {"lost", "late"}
    MaxFaults = 1
SPECIFICATION Spec
INVARIANTS
    ConfirmedIsDelivered
