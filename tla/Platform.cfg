CONSTANTS
  Exceptions <- MourningDays
  YearRanges <- Ranges
  AskedAt = {1, 36}
  MappingOffers <- ReusedId
  QuotePayloads <- SmallQuotes
  BarPayloads <- SmallBars
  CostAnswers = {1, 9}
  MaxSpend = 5
  FeedSessions <- TwoSessions
  Timeframe = 2
  JumpRatio = 2
  DeadAfter = 2
  MaxPayloads = 2
  MaxRequestsSent = 4
  MaxRestarts = 1
  RestartWindow = 2
  DrainTimeout = 2
  MaxWork = 1
  MaxServiceTime = 5
  MaxFailures = 4
  BucketBounds <- Decades
  Latencies <- SomeLatencies
  MaxSamples = 5
  CpuReadings <- SomeReadings
  Files <- SmallFiles
  Settings <- SmallSettings
  MaxSettings = 2
  MaxLoads = 2
  Window = 3
  Observations <- TwoSeries
  Minutes = {1, 2}
  MaxObservations = 5
  Touches <- SomeTouches
  StalenessBudget = 1
  RejectCrossed = TRUE
  MaxQuoteTime = 2
  MaxQuotes = 3
  Symbols = {a, b}
  DefaultWatchlist = {a}
  Requests = {r1, r2}
  MaxRequestCount = 3
  MaxFrames = 2
  ApprovedOrders <- SomeApproved
  SymbolOf <- KnownSymbols
  AllowFractional = FALSE
  MaxWire = 2
  Universe = {1, 2, 3}
  MarketProxy = 1
  SectorOf <- TwoSectors
  CrossConfigs <- BothCross
  LogPrices = {1, 2, 4}
  BarVolumes = {1}
  MaxBarTime = 2
  MaxBars = 2
  MaxRows = 2
  Marks = {2, 3}
  Slips = {1}
  Quantities = {1, 2}
  InitialCash = 12
  MaxFills = 3
  MaxRecords = 4
  MaxMarkTime = 3
  AssetCount = 3
  Problems <- SmallProblems
  MaxIterations = 12
  Foci = {"calendar", "history", "live feed", "supervisor", "histogram", "resources",
          "configuration", "estimators", "quotes", "market feed", "codec", "features", "matrix",
          "performance", "optimizer", "models", "vendor bars", "scores", "trades"}
  FirstPipeline = p1
  OtherPipeline = p2
  Pipelines = {p1, p2}
  Rows = {1, 2, 3, 4}
  BadRows = {4}
  Columns = 1
  TrainSets <- TwoSelections
  FoldPlans <- SmallFolds
  DamagedBlocks = {"parameters"}
  VendorRows <- TwoSymbols
  BarRanges <- SomeRanges
  Clocks = {5, 8}
  EndDelay = 2
  PageLimit = 3
  MaxPages = 4
  ScoredCases <- SomeJudged
  Buckets = 2
  MaxScored = 4
  TradeOffers <- SomeTrades
  Horizons <- TwoHorizons
  MaxTrades = 3
SPECIFICATION PlatformSpec
SYMMETRY EitherRequest
CHECK_DEADLOCK FALSE
INVARIANTS
  MarketDataIsSound
  ServiceIsSupervised
  ConfigurationDecides
  FeaturesAreOfTheirBar
  QuotesAreCurrent
  VenueWorksWhatWasApproved
  NumbersFollowRecords
  DrawdownFollowsCurve
  AnswersKeepLimits
  PredictionsAreOutOfSample
