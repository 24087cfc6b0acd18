\* One order, prices that move between runs.
CONSTANTS
    buyX = buyX
    sellX = sellX
    sellY = sellY
    pyrY = pyrY
    x = x
    y = y
    NoOrder = NoOrder
    Ticker = {x, y}
    TickerOf <- MCTickerOf
    ActionOf <- MCActionOf
    SessionOf <- MCSessionOf
    NoMark = 0
    CooldownDays = 5
    InitHeld = {y}
    Order = {buyX}
    InitPartial = {}
    Mark = {1, 2}
    MaxSession = 1
    MaxCrash = 1
SPECIFICATION Spec
INVARIANTS
    UnsavedIsRetried
