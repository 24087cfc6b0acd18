\* Two collectors that wait for each other and finish what others left.
CONSTANTS
    k1 = k1
    k2 = k2
    k3 = k3
    jul = jul
    aug = aug
    MonthOf <- Sessions
    None = None
    Month = {jul, aug}
    Worker = {w1, w2}
    Key = {k1}
    Content = {c1, c2}
    WriteFault = {"lost"}
    IndexFault = {"corrupt"}
    MaxFaults = 1
SPECIFICATION FairSpec
PROPERTIES
    EveryRunEnds
    ObservationsEnd
