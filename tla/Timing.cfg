SPECIFICATION TimingSpec
CONSTANTS
    Interval = 1
    MaxHold = 3
    TrailStart = 9
    MatchWindow = 2
    DefaultParams <- MCDefaultParams
    Layer1 <- MCLayer1
    Layer2 <- MCLayer2
    Scan <- MCScan
    Environments <- MCEnvironments
    Step = 1
    PullbackWindow = 2
    PullbackGrid <- MCPullbackGrid
    Candidates <- MCCandidates
    FeatureTiming <- MCFeatureTiming
    Tolerance = 5
    KnownSum = 30
    PreEnvironments <- MCPreEnvironments
    CacheStart = 0
    CacheEnd = 100
    Target = 7
    Enough = 4
    GoFloor = 0
    GoStrong = 10
    GoLower = 0
    Drift = 1
    Degraded = 5000
    PathEnvironments <- MCPathEnvironments
    VolumeBars = 3
    HalfHour = 9
    MinVolatility = 3
    Day = 30
    Pattern = 3
    Consistency = 4
    Minute = 2
    MinSeconds = 5
    Period = 2
    HourOf <- MCHourOf
    ExpectedRows = 45
    Strong = 350
    MarginalSum = 310
    RefineEnvironments <- MCRefineEnvironments
INVARIANTS TimingIsCausal ProtectedTradesPay SearchKeepsBest ProgramsAgree ChosenLearnerIsBest PoolIsTheOneReported OneTreeIsJudged FeaturesArePointInTime ChecksRepeatTheArm
CHECK_DEADLOCK FALSE
