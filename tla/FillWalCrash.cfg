\* A buy and the sale of the same ticker across two sessions and repeated crashes.
CONSTANTS
    buyX = buyX
    sellX = sellX
    sellY = sellY
    pyrY = pyrY
    x = x
    y = y
    NoOrder = NoOrder
    Ticker = {x, y}
    TickerOf <- MCTickerOf
    ActionOf <- MCActionOf
    SessionOf <- MCSessionOf
    NoMark = 0
    CooldownDays = 5
    InitHeld = {y}
    Order = {buyX, sellX}
    InitPartial = {}
    Mark = {1}
    MaxSession = 2
    MaxCrash = 3
SPECIFICATION Spec
INVARIANTS
    AppliedAtMostOnce
    AppliedIsAccounted
    LedgerAlwaysLoads
    SettlementInv
PROPERTIES
    TerminalIsFinal
