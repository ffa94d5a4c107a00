CONSTANTS
  Signals <- MCSignals
  Quotes <- MCQuotes
  Settings <- MCSettings
  MaxBars = 3
  MaxQuotes = 3
  MaxRows = 4
SPECIFICATION AllSpec
INVARIANT EngineLogIsPaired
