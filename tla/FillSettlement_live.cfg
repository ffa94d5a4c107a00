SPECIFICATION FairSpec
CONSTANTS
    buy = buy
    sell = sell
    w1 = w1
    w2 = w2
    Orders = {buy}
    Workers = {w1, w2}
    ReduceOnly = {}
    EmptyTradeLimit = 1
    ForeignTrades = 0
    Qty <- MCQtyLive
    Side <- MCSideLive
PROPERTIES FilledOrdersSettle
CHECK_DEADLOCK FALSE
