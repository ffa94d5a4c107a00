SPECIFICATION Spec
CONSTANTS
    buy = buy
    sell = sell
    w1 = w1
    w2 = w2
    Orders = {sell}
    Workers = {w1, w2}
    ReduceOnly = {sell}
    EmptyTradeLimit = 3
    ForeignTrades = 0
    Qty <- MCQtyOne
    Side <- MCSideOne
SYMMETRY Symmetry
INVARIANTS TypeOK NoOverfill UnsettledIsRetried
PROPERTIES PositionFollowsFills FilledNeverFallsBack
CHECK_DEADLOCK FALSE
