------------------------------ MODULE Platform ------------------------------
(***************************************************************************)
(* What the parts around trading promise.  They share no state with one    *)
(* another: each property is of one part, or joins those of two that hand  *)
(* their results to the same reader.                                       *)
(***************************************************************************)
EXTENDS MarketCalendar, HistoricalFeed, ConfigLayers, ServiceSupervision, RollingEstimators,
        QuoteRouting, MarketFeed, VenueCodec, FeaturePipeline, PerformanceBook, WeightOptimizer,
        ModelPipeline, VendorBars, Evaluation, ExecutionQuality

(* What the parts promise together.                                        *)

\* MarketCalendar, HistoricalFeed and VendorBars: the sessions are the exchange's,
\* stored and live data are replayed in order, without a gap or a repetition that the
\* report does not name, and a vendor's answer is whole.
MarketDataIsSound ==
  CalendarFollowsRules /\ ReplayIsSound /\ CleanReportMeansCleanData
  /\ LiveFeedMatchesDecoded /\ BarsAreWholeOrNone

\* ServiceSupervision: restarts are bounded, a drain ends, and the percentiles
\* describe the samples.
ServiceIsSupervised == SupervisorHoldsBack /\ QuantilesFollowSamples

\* ConfigLayers: the last layer decides, and two runs that differ hash apart.
ConfigurationDecides == LayersDecide /\ HashTellsRunsApart

\* QuoteRouting and MarketFeed: orders are priced on the newest quote, and what a
\* client watches is what the vendor was asked for.
QuotesAreCurrent == RoutedQuoteIsCurrent /\ WatchedSymbolsReachVendor

\* RollingEstimators, PerformanceBook, ExecutionQuality and Evaluation keep running
\* numbers: they are what the observations, the fills and marks, the trades and the
\* predictions give when they are computed anew, in whatever order these are listed.
NumbersFollowRecords ==
  EstimatesMatchWindow /\ ResultIsExplained /\ TradesAreMeasured /\ ScoresAreHonest
=============================================================================
