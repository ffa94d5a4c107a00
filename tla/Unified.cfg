SPECIFICATION UnifiedSpec
CONSTANTS
  MaxHold = 3
  TrailStart = 9
  MatchWindow = 2
  Step = 1
  PullbackWindow = 2
  PullbackGrid <- MCPullbackGrid
  Candidates <- MCCandidates
  Tolerance = 5
  SpeedSpan = 2
  SpeedBars = 2
  Hour = 3
  AtrBars = 3
  Lookback = 6
  Sma = 2
  MonthBack = 40
  ForwardStart = 200
  WideTrail = 15
  UnionHold = 5
  MinTrain = 2
  T3Late = 2
  QualityLate = 2
  GoodSum = 400000
  FloorSum = 100000
  ForwardSum = 50000
  MildLoss = 20000
  HardLoss = 200000
  Environments <- MCEnvironments
INVARIANTS FilledFeaturesArePointInTime ForwardIsFrozen WindowsPartition WorseFillsNeverPay
CHECK_DEADLOCK FALSE
