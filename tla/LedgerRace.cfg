\* Two collectors of one session; failed writes, crashes, a damaged index.
CONSTANTS
    k1 = k1
    k2 = k2
    k3 = k3
    jul = jul
    aug = aug
    MonthOf <- Sessions
    None = None
    Month = {jul, aug}
    Worker = {w1, w2}
    Key = {k1}
    Content = {c1, c2}
    WriteFault = {"lost", "late"}
    IndexFault = {"absent", "corrupt", "stale"}
    MaxFaults = 2
SPECIFICATION Spec
SYMMETRY Symmetric
INVARIANTS
    LookupsComplete
    CompletedIsFinal
    LegalHistory
PROPERTIES
    TerminalIsFinal
    ImplementsMachine
