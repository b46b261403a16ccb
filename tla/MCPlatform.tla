----------------------------- MODULE MCPlatform -----------------------------
(***************************************************************************)
(* The parts around trading that share no state with one another, side by  *)
(* side for TLC as in MCServices: the initial state picks the part in      *)
(* focus, only that part moves, and the others keep their initial state.   *)
(* Below, the small instances of each part.                                *)
(***************************************************************************)
EXTENDS Platform, TLC

CONSTANTS
  Foci,           \* the parts a run looks at
  FirstPipeline,  \* two pipelines that exchange a stored one
  OtherPipeline

VARIABLE focus

platformVars == <<focus, calendarVars, historicalVars, supervisionVars, configVars, estimatorVars,
                  quoteVars, marketFeedVars, codecVars, featureVars, performanceVars, optimizerVars,
                  modelVars, vendorBarsVars, evaluationVars, qualityVars>>

-----------------------------------------------------------------------------
(* MarketCalendar and HistoricalFeed.                                      *)

\* Two days of national mourning, and years with every rule of the calendar: leap
\* years, observed days, a New Year's Day on a Saturday, the first Juneteenth; one
\* range is empty.
MourningDays == {[date |-> DateOf(2018, 12, 5), kind |-> "closed"],
                 [date |-> DateOf(2025, 1, 9), kind |-> "closed"]}
Ranges == {<<2010, 2010>>, <<2021, 2022>>, <<2024, 2025>>, <<2012, 2011>>, <<2007, 2008>>}

\* A vendor id handed from one ticker to another, and a window that overlaps.
ReusedId ==
  LET Entitled(ticker, id, from, to) == [ticker |-> ticker, vendor |-> id, from |-> from, to |-> to]
  IN  {Entitled(1, 7, 1, 4), Entitled(2, 7, 4, 20), Entitled(1, 8, 3, 20)}

\* In order, out of order, a record without a time, an unmapped id, a crossed and an
\* empty book.
SmallQuotes ==
  LET Raw(id, at, bid, ask) == [vendor |-> id, at |-> at, bid |-> bid, ask |-> ask]
      early == Raw(7, 4, 1, 2)
      late == Raw(7, 8, 2, 2)
  IN  {<<early>>, <<early, late>>, <<late, early>>, <<early, Raw(7, Absent, 1, 2)>>,
       <<Raw(9, 3, 1, 2), early>>, <<Raw(7, 3, 2, 1), late>>, <<Raw(7, 3, 0, 1), early>>,
       <<Raw(7, 2, 1, 1), early>>}

\* Pairs with repetitions, jumps, dead bars and two sessions; malformed records.
SmallBars ==
  LET Raw(id, at, close, volume) == [vendor |-> id, at |-> at, close |-> close, volume |-> volume]
      raws == {Raw(7, 2, 2, 0), Raw(8, 2, 2, 0), Raw(7, 4, 5, 0), Raw(7, 8, 2, 1), Raw(7, 10, 2, 0)}
  IN  {<<raw, other>> : raw \in raws, other \in raws} \cup
      {<<Raw(7, 2, 0, 1)>>, <<Raw(7, Absent, 2, 1)>>, <<Raw(7, 11, 2, 1)>>,
       <<Raw(7, 8, 2, 1), Raw(8, 9, 4, 1), Raw(7, 10, 5, 1)>>}

TwoSessions == <<[open |-> 2, close |-> 7], [open |-> 8, close |-> 13]>>

-----------------------------------------------------------------------------
(* ConfigLayers and ServiceSupervision.                                    *)

\* Nothing; the same lines with other kinds; no month to hold out; a shortened session
\* and no money to spend; an unlocked holdout without a reason; a key nobody knows.
SmallFiles ==
  {<<>>,
   "boundary" :> Value("string", "2024-09-01") @@ "months" :> Value("integer", "6"),
   "boundary" :> Value("date", "2024-09-01") @@ "months" :> Value("integer", "6"),
   "boundary" :> Value("string", "2024-09-01") @@ "months" :> Value("integer", "0"),
   "tag" :> Value("string", "7") @@ "regular_close" :> Value("string", "13:00:00")
     @@ "spend" :> Value("integer", "0"),
   "seed" :> Value("string", "7") @@ "unlocked" :> Value("boolean", "true"),
   "seeed" :> Value("integer", "7")}

SmallSettings ==
  {[key |-> "boundary", text |-> "2024-12-01"], [key |-> "tag", text |-> "7"],
   [key |-> "seed", text |-> "0"],
   [key |-> "unlocked", text |-> "true"], [key |-> "justification", text |-> "paper"]}

\* Upper bounds of three buckets.
Decades == <<1, 3, 10>>

\* One is negative, one lies beyond every bucket.
SomeLatencies == {-1, 0, 2, 5, 30}
SomeReadings == {NotAvailable, 1, 2}

-----------------------------------------------------------------------------
(* Estimators, features, quotes and the venue's wire.                      *)

\* Signs that differ, and a bar without volume.
TwoSeries == {[x |-> 3, y |-> -1, volume |-> 2], [x |-> 1, y |-> 2, volume |-> 0]}

\* The ends of the universe, and the middle.
TwoSectors == [i \in Universe |-> i % 2]

\* The defaults but for quantiles that cut among three; and what they leave out.
DefaultCross == [winsorize |-> TRUE, lower |-> 25, upper |-> 75, neutral |-> FALSE, complete |-> TRUE]
BothCross == {DefaultCross,
              [winsorize |-> FALSE, lower |-> 1, upper |-> 99, neutral |-> TRUE, complete |-> FALSE]}

\* Normal, locked and crossed.
SomeTouches == {[bid |-> 4, ask |-> 5], [bid |-> 5, ask |-> 5], [bid |-> 6, ask |-> 5]}

\* Of the four orders two are amended, to another quantity or type, which gives one
\* price and drops another; one has no known symbol, and one asks for what the venue
\* does not take.
SomeApproved ==
  LET Ord(id, inst, side, type, tif, quantity, limit, stop) ==
        [id |-> id, instrument |-> inst, side |-> side, type |-> type, tif |-> tif,
         quantity |-> quantity, limit |-> limit, stop |-> stop]
  IN  {Ord(1, "i1", "Buy", "Limit", "Day", 2, 5, 0), Ord(1, "i1", "Buy", "Stop", "Day", 4, 0, 6),
       Ord(2, "i1", "Sell", "Market", "ImmediateOrCancel", 2, 0, 0),
       Ord(2, "i1", "Sell", "Limit", "ImmediateOrCancel", 2, 4, 0),
       Ord(3, "i2", "Buy", "Market", "Day", 2, 0, 0),
       Ord(4, "i1", "Sell", "StopLimit", "GoodTillCancel", 3, 4, 5)}
KnownSymbols == "i1" :> "SPY"
EitherRequest == Permutations(Requests)

-----------------------------------------------------------------------------
(* Problems of the optimizers: every method under limits that bind, singly *)
(* and together; the last asks for more cash than there is.                *)

Plain == [direction |-> "LongOnly", minPosition |-> 0, maxPosition |-> 5000, gross |-> 10000,
          net |-> 10000, maxSector |-> 10000, minTrade |-> 0, reserve |-> 0, maxShare |-> Unit,
          maxTurnover |-> 0, sectors |-> <<1, 1, 2>>, current |-> <<0, 0, 0>>,
          vols |-> <<1, 2, 4>>, signals |-> <<3, -1, 2>>, returns |-> <<3, 1, 2>>,
          method |-> "equal_weight"]
SmallProblems ==
  {[Plain EXCEPT !.method = m, !.direction = d, !.minPosition = IF d = "LongOnly" THEN 0 ELSE -5000,
      !.maxSector = s, !.reserve = r, !.maxShare = c, !.maxTurnover = t, !.current = w, !.minTrade = f] :
    m \in {"equal_weight", "inverse_volatility", "signal_weighted", "mean_variance", "minimum_variance"},
    d \in {"LongOnly", "LongShort", "DollarNeutral"}, s \in {4000, 10000}, r \in {0, 2000},
    c \in {4000, Unit}, t \in {0, 1500}, w \in {<<0, 0, 0>>, <<3000, 1000, 4000>>}, f \in {0, 1000}}
  \union {[Plain EXCEPT !.reserve = Unit]}

-----------------------------------------------------------------------------
(* Models: a fold with too few rows, an empty one, one with a refused row, *)
(* and test rows that cannot be predicted.                                 *)
TwoSelections == {{1, 2, 3}, {2, 3}}
SmallFolds ==
  LET Of(train, test) == [train |-> train, test |-> test]
  IN  {<<Of({1, 2}, {3}), Of({1}, {2}), Of({1, 2, 3}, {4})>>, <<Of({}, {1})>>,
       <<Of({3, 4}, {1}), Of({2, 3}, {1})>>}
\* Of one kind; of two that are told apart; of two with the same magic number.
PipelinePairs ==
  {<<Unfitted("logistic", TRUE), Unfitted("logistic", TRUE)>>,
   <<Unfitted("linear", FALSE), Unfitted("logistic", TRUE)>>,
   <<Unfitted("linear", FALSE), Unfitted("baseline", FALSE)>>}

-----------------------------------------------------------------------------
(* Vendor bars, scores and executed trades.                                *)

\* Symbol after symbol, the second with a gap.
TwoSymbols ==
  LET Row(symbol, from) == [symbol |-> symbol, from |-> from]
  IN  <<Row(1, 3), Row(1, 4), Row(1, 5), Row(1, 6), Row(2, 3), Row(2, 4), Row(2, 6)>>
\* The last is empty.
SomeRanges == LET From(begin, end) == [begin |-> begin, end |-> end]
              IN  {From(2, 4), From(2, 8), From(4, 6), From(6, 6)}

\* Ties, a prediction outside of the unit interval on either side, a zero outcome.
SomeJudged ==
  LET Of(period, prediction, outcome) ==
        [period |-> period, prediction |-> prediction, outcome |-> outcome]
  IN  {Of(1, -4, -1), Of(1, 6, 1), Of(1, 6, -1), Of(1, 24, 1), Of(2, 13, 0), Of(2, 24, 1)}

\* Bought and sold, with and without benchmarks and an edge, of children decided one
\* after the other, of one that was not decided; two instruments, both sides and no
\* fill, which are refused.
SomeTrades ==
  LET Filled(side, quantity, price, at, decided) ==
        [instrument |-> 1, side |-> side, quantity |-> quantity, price |-> price,
         at |-> at, decided |-> decided]
      bought == [fills |-> <<Filled("Buy", 2, 4, 3, 1), Filled("Buy", 1, 5, 2, 1)>>,
                 decision |-> <<3>>, arrival |-> <<4>>, best |-> <<6>>, worst |-> <<2>>,
                 sought |-> 4, realized |-> <<3>>, expected |-> <<4>>]
      sold == [bought EXCEPT !.fills = <<Filled("Sell", 3, 2, 4, 1)>>, !.decision = <<4>>,
                             !.arrival = <<3>>, !.best = <<1>>, !.worst = <<3>>, !.realized = <<1>>]
  IN  {bought, sold,
       [bought EXCEPT !.decision = <<>>, !.best = <<>>, !.realized = <<>>],
       [bought EXCEPT !.arrival = <<>>, !.realized = <<1>>],
       [bought EXCEPT !.fills[2].decided = 2], [sold EXCEPT !.fills[1].decided = 0, !.sought = 0],
       [bought EXCEPT !.fills[2].instrument = 2], [bought EXCEPT !.fills[1].side = "Sell"],
       [bought EXCEPT !.fills = <<>>]}
TwoHorizons == <<1, 2>>

-----------------------------------------------------------------------------
\* Parts with several initial states have one when they are not looked at.
PlatformInit ==
  /\ focus \in Foci
  /\ CalendarInit
  /\ HistoricalInit
  /\ SupervisionInit
  /\ EstimatorsInit
  /\ QuoteInit
  /\ FeedInit
  /\ CodecInit
  /\ EvaluationInit
  /\ QualityInit
  /\ IF focus = "vendor bars" THEN VendorBarsInit
     ELSE entitled = [feed |-> "sip", realtime |-> FALSE] /\ VendorBarsInit
  /\ IF focus = "performance" THEN PerformanceInit
     ELSE marked = [at |-> 1, price |-> 2] /\ PerformanceInit
  /\ IF focus = "optimizer" THEN OptimizerInit ELSE problem = Plain /\ OptimizerInit
  /\ IF focus = "features" THEN FeatureInit ELSE stageConfig = DefaultCross /\ FeatureInit
  /\ IF focus = "configuration" THEN ConfigInit ELSE file = <<>> /\ ConfigInit
  /\ IF focus = "models"
     THEN ModelInit /\ <<pipelines[FirstPipeline], pipelines[OtherPipeline]>> \in PipelinePairs
     ELSE ups = {} /\ pipelines = [p \in Pipelines |-> Unfitted("linear", TRUE)] /\ ModelInit

OthersStandStill ==
  /\ UNCHANGED focus
  /\ IF focus = "calendar" THEN TRUE ELSE UNCHANGED calendarVars
  /\ IF focus \in {"history", "live feed"} THEN TRUE ELSE UNCHANGED historicalVars
  /\ IF focus \in {"supervisor", "histogram", "resources"} THEN TRUE ELSE UNCHANGED supervisionVars
  /\ IF focus = "configuration" THEN TRUE ELSE UNCHANGED configVars
  /\ IF focus = "estimators" THEN TRUE ELSE UNCHANGED estimatorVars
  /\ IF focus = "quotes" THEN TRUE ELSE UNCHANGED quoteVars
  /\ IF focus = "market feed" THEN TRUE ELSE UNCHANGED marketFeedVars
  /\ IF focus = "codec" THEN TRUE ELSE UNCHANGED codecVars
  /\ IF focus \in {"features", "matrix"} THEN TRUE ELSE UNCHANGED featureVars
  /\ IF focus = "performance" THEN TRUE ELSE UNCHANGED performanceVars
  /\ IF focus = "optimizer" THEN TRUE ELSE UNCHANGED optimizerVars
  /\ IF focus = "models" THEN TRUE ELSE UNCHANGED modelVars
  /\ IF focus = "vendor bars" THEN TRUE ELSE UNCHANGED vendorBarsVars
  /\ IF focus = "scores" THEN TRUE ELSE UNCHANGED evaluationVars
  /\ IF focus = "trades" THEN TRUE ELSE UNCHANGED qualityVars

\* Where the sets' values count, they start from the same bar, and only the first
\* one gets quotes and a bar again.
FirstBarsAlike ==
  \A i \in Universe :
    LET bars == barsOf'[i]
    IN  /\ bars # <<>> => bars[1] = [close |-> 2, volume |-> 1, at |-> 1]
        /\ i > 1 => /\ sets'[i].end = Len(bars)
                    /\ \A k \in DOMAIN bars : bars[k].at = k

\* The matrix reads the time of a set and not its price; two sets will do.
FlatBars ==
  \A i \in Universe : /\ Len(barsOf'[i]) <= 1
                      /\ \A k \in DOMAIN barsOf'[i] : barsOf'[i][k].close = 1
                      /\ i > 2 => sets'[i] = sets[i]

PlatformNext ==
  \/ focus = "calendar"      /\ CalendarNext    /\ OthersStandStill
  \/ focus = "history"       /\ HistoricalNext  /\ OthersStandStill
  \/ focus = "live feed"     /\ LiveFeedNext    /\ OthersStandStill
  \/ focus = "supervisor"    /\ SupervisorNext  /\ OthersStandStill
  \/ focus = "histogram"     /\ HistogramNext   /\ OthersStandStill
  \/ focus = "resources"     /\ ResourcesNext   /\ OthersStandStill
  \/ focus = "configuration" /\ ConfigNext      /\ OthersStandStill
  \/ focus = "estimators"    /\ EstimatorsNext  /\ OthersStandStill
  \/ focus = "quotes"        /\ QuoteNext       /\ OthersStandStill
  \/ focus = "market feed"   /\ FeedNext        /\ OthersStandStill
  \/ focus = "codec"         /\ CodecNext       /\ OthersStandStill
  \/ focus = "features"      /\ ((SetStep /\ FirstBarsAlike) \/ StageStep) /\ OthersStandStill
  \/ focus = "matrix"        /\ ((SetStep /\ FlatBars) \/ MatrixStep) /\ OthersStandStill
  \/ focus = "performance"   /\ PerformanceNext /\ OthersStandStill
  \/ focus = "optimizer"     /\ OptimizerNext   /\ OthersStandStill
  \/ focus = "models"        /\ ModelNext       /\ OthersStandStill
  \/ focus = "vendor bars"   /\ VendorBarsNext  /\ OthersStandStill
  \/ focus = "scores"        /\ EvaluationNext  /\ OthersStandStill
  \/ focus = "trades"        /\ QualityNext     /\ OthersStandStill

PlatformSpec == PlatformInit /\ [][PlatformNext]_platformVars
=============================================================================
