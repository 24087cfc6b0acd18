\* Collectors of sessions in two months share the index; one crash, failed save or
\* torn append.
CONSTANTS
    k1 = k1
    k2 = k2
    k3 = k3
    jul = jul
    aug = aug
    MonthOf <- Sessions
    None = None
    Month = {jul, aug}
    Worker = {w1, w2}
    Key = {k1, k3}
    Content = {c1}
    WriteFault = {"lost", "late", "partial", "whole"}
    IndexFault = {}
    MaxFaults = 1
SPECIFICATION Spec
SYMMETRY Symmetric
INVARIANTS
    HistoryInv
PROPERTIES
    IndexKeepsEntries
    CorruptFailsClosed
