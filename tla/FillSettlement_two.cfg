SPECIFICATION Spec
CONSTANTS
    buy = buy
    sell = sell
    w1 = w1
    w2 = w2
    Orders = {buy, sell}
    Workers = {w1}
    ReduceOnly = {}
    EmptyTradeLimit = 1
    ForeignTrades = 0
    Qty <- MCQtyTwo
    Side <- MCSideTwo
PROPERTIES ImplementsLedger
CHECK_DEADLOCK FALSE
