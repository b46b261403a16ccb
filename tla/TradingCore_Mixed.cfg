CONSTANTS
  i1 = i1
  Instruments <- OneInstrument
  MaxId = 2
  Quantities = {2}
  DecisionTimes <- Decisions
  FillTimes <- Fills
  Terms <- RestingTerms
  Prices <- AnyPrice
  Costs = {1}
  Limits <- LongOnly
  Bars <- FlatBars
  Quotes <- SomeQuotes
  FeedDelays = {0, 1}
  Latencies = {0, 2}
  DecisionSkews = {0, 1}
  Slips = {0}
  ParticipationDiv = 2
  SplitRatios = {2}
  Dividends = {1}
  PortfolioAllowsShort = FALSE
  InitialCash = 100
  MaxTime = 3
  MaxEvents = 4
SPECIFICATION CoreSpec
CHECK_DEADLOCK FALSE
INVARIANTS
  PortfolioMatchesOrders
