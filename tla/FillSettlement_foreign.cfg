SPECIFICATION Spec
CONSTANTS
    buy = buy
    sell = sell
    w1 = w1
    w2 = w2
    Orders = {buy}
    Workers = {w1, w2}
    ReduceOnly = {}
    EmptyTradeLimit = 3
    ForeignTrades = 1
    Qty <- MCQtyLive
    Side <- MCSideLive
SYMMETRY Symmetry
INVARIANT NoOverfill
CHECK_DEADLOCK FALSE
