CONSTANTS
  i1 = i1
  Instruments <- OneInstrument
  MaxId = 2
  Quantities = {2}
  DecisionTimes <- Decisions
  FillTimes <- Fills
  Terms <- IocOnly
  Prices <- AnyPrice
  Costs = {1}
  Limits <- WideLimits
  Bars <- ThinBars
  Quotes <- NoQuotes
  FeedDelays = {0}
  Latencies = {0}
  DecisionSkews = {0}
  Slips = {0, 1}
  ParticipationDiv = 2
  SplitRatios = {}
  Dividends = {}
  PortfolioAllowsShort = TRUE
  InitialCash = 100
  MaxTime = 3
  MaxEvents = 3
SPECIFICATION CoreSpec
CHECK_DEADLOCK FALSE
INVARIANTS
  LiveMeansAtVenue
