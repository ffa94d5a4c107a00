CONSTANTS
  Signals <- MCSignals
  Quotes <- MCQuotes
  Settings <- MCSettings
  MaxBars = 3
  MaxQuotes = 3
  MaxRows = 4
SPECIFICATION AllSpec
INVARIANTS
  EngineTypeOK
  EngineNoPathInsideAQuote
  EngineWindowModeTradesAreReal
  MinuteLoopIsPaired
  LogReadersPairUp
  StreamIsTheTape
PROPERTIES
  EngineStopOnlyTightens
  EngineOrderSizesFollowTheBar
  EngineReplayEnds
