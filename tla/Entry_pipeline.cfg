SPECIFICATION EntrySpec
CONSTANTS
    ValidD = {0, 1}
    ValidH = {0, 1}
    Symbols = {"BTCUSDT", "ETHUSDT"}
    Months = {4, 5}
    MaxTradesPerBar = 1
    QualityFloor = 10
    SmallSample = 1
    Candidates <- MCCandidates
    Events <- MCEvents
    Environments <- MCEnvironments
    MaxBaseline = 1
    MaxEvents = 2
INVARIANTS NoLookAhead AttributionAddsUp ChecksAgree FilesTellStatus
PROPERTIES RunEnds
CHECK_DEADLOCK FALSE
