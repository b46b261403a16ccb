CONSTANTS
  i1 = i1
  i2 = i2
  Instruments = {i1, i2}
  Terms = {plain}
  plain = plain
  Prices = {1}
  Costs = {0}
  MaxId = 2
  Quantities = {1, 2}
  DecisionTimes = {1}
  FillTimes = {1, 2}
  Configs = {0, 1, 2}
  RequireMatching = TRUE
  DailyReset = TRUE
  PersistEvery = 2
  MaxEvents = 3
  MaxSequence = 4
  MaxLives = 3
  ManualQty = {2}
  AutoQty = 1
  SignalEvery = 2
  KeptOutcomes = 2
  MaxRequests = 3
  MaxBars = 3
  MaxSubmits = 3
  p1 = p1
  Parents = {p1}
  ParentQty = {3, 4}
  Algos = {"immediate", "twap", "vwap", "pov", "iceberg", "adaptive"}
  Profile <- UnevenProfile
  TwapSlices = 2
  WindowEnd = 4
  OpenTimes = {1, 2, 3, 4}
  Volumes = {0, 2, 8}
  RateDiv = 2
  Display = 2
  MinClip = 1
  MaxNow = 5
  MaxChildren = 3
  Versions = {1, 2}
  Contents <- DatasetContents
  Seeds = {0, 1}
  param = param
  ParamNames = {param}
  MaxTransitions = 3
  MaxExperiments = 1
  Panels <- SmallPanels
  Horizons = {0, 1, 3}
  SplitConfigs <- SmallSplits
  Boundaries = {0, 9}
  e1 = e1
  ExperimentIds = {e1}
  f1 = f1
  f2 = f2
  Fingerprints = {f1, f2}
  MaxRunEvents = 2
  MaxRuns = 4
  c1 = c1
  c2 = c2
  Components = {c1, c2}
  Critical = {c1}
  StalenessTimeout = 1
  FailuresBeforeUnhealthy = 2
  FailureThreshold = 2
  RatePercent = 50
  RateSamples = 3
  BreakerWindow = 3
  OpenDuration = 2
  ProbesToClose = 2
  AlertKeys = {1, 2, 3}
  MaxActive = 2
  MaxOpsTime = 4
  MaxReports = 2
  MaxInFlight = 3
  Strategies = {root, first, second, third}
  Root = root
  Names = {1, 2}
  SectorOf <- OneSector
  Forecasts <- SmallForecasts
  Ensembles <- SmallEnsembles
  EnsembleMethods = {"weighted_average", "voting"}
  Cost = 1
  SizingMethods = {"fixed", "kelly"}
  FixedSize = 6
  KellyCap = 3
  PositionCap = 5
  SectorCap = 7
  GrossCap = 8
  NetCap = 6
  Lot = 2
  DriftFloor = 2
  TradeFloor = 1
  TurnoverCap = 8
  RebalanceEvery = 2
  Cooldown = 1
  SignalHorizon = 1
  MaxForecastAge = 1
  CloseAt = 3
  MaxInstant = 4
  m1 = m1
  m2 = m2
  m3 = m3
  q1 = q1
  q2 = q2
  Manifests = {m1, m3}
  QuestionOf <- TwoQuestions
  r1 = r1
  RunIds = {r1}
  Budgets = {0, 1}
  MaxLedgerCalls = 5
  RankedIds = {1, 2, 3}
  MetricNames = {"sharpe", "drawdown"}
  MetricWeights <- SharpeWeighsTwice
  Directions <- DrawdownIsLower
  Customs <- OwnSharpe
  Measures <- SharpeAndDrawdown
  Limits = {0, 2}
  SavedStates <- OddStates
  MaxDamage = 2
  OrderSizes = {1, 6}
  MarkPrices = {1, 2}
  Deposit = 2
  BuyingPower = 3
  AllowShort = TRUE
  VenueLimit = 7
  RejectEvery = 2
  MaxVenueOrders = 3
SPECIFICATION ServicesSpec
SYMMETRY EitherInstrument
CHECK_DEADLOCK FALSE
INVARIANTS
  BookIsConsistent
  NoOverfill
  LittleIsLost
  SessionIsSound
  ParentNeverExceeded
  HostKeepsItsWord
  NoFutureIsSeen
  StoredStateIsGenuine
  RegistriesKeepOrder
  DecisionsAreSound
  
  CompliantWhenOpened
PROPERTIES
  TerminalAbsorbing
  OrdersImmutable
  FillsConserveProjection
  RecoveryKeepsState
  OperationsShieldTrading
