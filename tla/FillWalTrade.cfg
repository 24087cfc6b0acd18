\* A buy next to the pyramid fill of a partial position, two sessions, prices that
\* move between runs, one crash anywhere.
CONSTANTS
    buyX = buyX
    sellX = sellX
    sellY = sellY
    pyrY = pyrY
    x = x
    y = y
    NoOrder = NoOrder
    Ticker = {x, y}
    TickerOf <- MCTickerOf
    ActionOf <- MCActionOf
    SessionOf <- MCSessionOf
    NoMark = 0
    CooldownDays = 5
    InitHeld = {y}
    Order = {buyX, pyrY}
    InitPartial = {y}
    Mark = {1, 2}
    MaxSession = 2
    MaxCrash = 1
SPECIFICATION FairSpec
INVARIANTS
    ExecutedIsApplied
    PersistedIsApplied
PROPERTIES
    SaveIsAnnounced
    ImplementsSettlement
    OrdersEnd
