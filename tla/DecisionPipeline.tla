-------------------------- MODULE DecisionPipeline --------------------------
(***************************************************************************)
(* The trading strategy built into the program: prediction, signal,        *)
(* filter, size, target, rebalance (src/pipeline/trading_pipeline.cpp with *)
(* src/signal, src/sizing and src/construction).  It is an IStrategy: the  *)
(* engine hands it one bar at a time, after the orders resting at the      *)
(* venue have been matched against that bar, and the session boundaries.   *)
(*                                                                         *)
(* Prices are one and equity is constant, so a weight, a notional and a    *)
(* number of shares are the same integer.  Confidence, volatility,         *)
(* liquidity and spread are one condition a bar meets or does not; what a  *)
(* round trip costs is the constant Cost.  The risk gate behind submit()   *)
(* (RiskGate) takes an order or refuses it.                                *)
(***************************************************************************)
EXTENDS Integers, FiniteSets, FiniteSetsExt, Functions

CONSTANTS Names,            \* instruments: numbers, because a std::map is walked in order
          SectorOf,         \* cfg_.sectors
          Forecasts,        \* the prediction stores considered: [Names -> SUBSET forecasts]
          Ensembles,           \* the generators considered: sets of [weight, scale, floor]
          EnsembleMethods,  \* of {"weighted_average", "voting"}
          Cost,             \* CostEstimate::total
          SizingMethods,    \* of {"fixed", "kelly"}
          FixedSize,        \* what the methods that do not look at the edge ask for
          KellyCap,         \* kelly_cap
          PositionCap, SectorCap, GrossCap, NetCap,      \* ExposureLimits
          Lot, DriftFloor, TradeFloor, TurnoverCap,      \* RebalanceConfig
          RebalanceEvery, Cooldown, SignalHorizon, MaxForecastAge,
          CloseAt,          \* the instant a session closes; the next bar is another day's
          MaxInstant        \* bound

ASSUME PipelineIsNumeric ==
  /\ Names \subseteq Nat /\ IsFiniteSet(Names)
  /\ {Cost, FixedSize, KellyCap, PositionCap, SectorCap, GrossCap, NetCap} \subseteq Nat
  /\ {DriftFloor, TradeFloor, TurnoverCap, Cooldown, SignalHorizon, MaxForecastAge} \subseteq Nat
  /\ {Lot, RebalanceEvery, MaxInstant} \subseteq Nat \ {0}

\* Ensembles are vectors of members, and a store is read from a file.
ASSUME ForecastsAreNumeric ==
  /\ Forecasts \subseteq [Names -> SUBSET [at: Nat, value: Int]]
  /\ \A members \in Ensembles :
       IsFiniteSet(members) /\ members \subseteq [weight: Nat, scale: Int, floor: Nat]

VARIABLES instant,     \* the clock, in bars
          printed,     \* instruments whose bar of this instant has been seen
          matched,     \* the one whose bar the venue has matched and the strategy not seen
          inSession,
          forecasts,   \* by_instrument_: a set of [at, value] for each instrument
          generator,   \* the generator and the sizer: [members, method, sizing]
          held,        \* position by instrument
          resting,     \* signed quantity of its orders still at the venue
          latest,      \* latest_signals_
          accepted,    \* last_accepted_
          sinceRebalance, \* bars_since_rebalance_
          plan         \* history: the last rebalance

pipelineVars == <<instant, printed, matched, inSession, forecasts, generator, held, resting,
                  latest, accepted, sinceRebalance, plan>>

Never == -1

\* What update_state() makes of the bars seen so far, volatility, relative volume
\* and spread, lies within the filters' bounds or not.
MarketConditions == BOOLEAN

\* Signal: direction, net edge, decision, expiry; seen is history.
SignalRecords == [side: {-1, 0, 1}, edge: Nat, asOf: Nat, expires: Nat, seen: Nat]

Magnitude(x) == IF x < 0 THEN -x ELSE x
Side(x) == IF x > 0 THEN 1 ELSE IF x < 0 THEN -1 ELSE 0
\* std::trunc to the lot: toward zero.
ToLot(x) == Side(x) * ((Magnitude(x) \div Lot) * Lot)
Limited(x, limit) == Min({x, Max({0, limit})})

-----------------------------------------------------------------------------
(* Prediction and signal.                                                  *)

\* Slip: the forecast nearest in time.
Nearest(name, now) ==
  LET Gap(f) == Magnitude(f.at - now)
  IN  {f \in forecasts[name] : \A g \in forecasts[name] : Gap(f) <= Gap(g)}

\* predict_at(): the latest forecast at or before the decision.
Available(name, now) ==
  LET past == {f \in forecasts[name] : f.at <= now}
  IN  {f \in past : \A g \in past : g.at <= f.at}

\* interpret(): below the entry threshold, or exactly zero, is no view.
View(member, value) ==
  LET raw == value * member.scale
  IN  IF raw = 0 \/ Magnitude(raw) < member.floor THEN 0 ELSE raw

\* EnsembleSignalGenerator::generate(): each member speaks on the same input.
\* Voting takes the direction of the heavier side and the mean of all views.
Combined(value) ==
  LET weighted == [m \in generator.members |-> m.weight * View(m, value)]
      long == [m \in generator.members |-> IF View(m, value) > 0 THEN m.weight ELSE 0]
      short == [m \in generator.members |-> IF View(m, value) < 0 THEN m.weight ELSE 0]
      mean == SumFunction(weighted)
      votes == SumFunction(long) - SumFunction(short)
  IN  [side |-> Side(IF generator.method = "voting" THEN votes ELSE mean),
       weightedReturn |-> mean]

\* Signal::create: the edge is what is left of the expected move's magnitude
\* after costs; a flat signal has none.
SignalFrom(forecast, now) ==
  LET said == Combined(forecast.value)
      weight == SumFunction([m \in generator.members |-> m.weight])
      left == Magnitude(said.weightedReturn) - Cost * weight
  IN  [side |-> said.side, edge |-> IF said.side = 0 THEN 0 ELSE Max({0, left}), asOf |-> now,
       expires |-> IF said.side = 0 THEN now + 1 ELSE now + SignalHorizon,
       seen |-> forecast.at]

\* is_actionable(): costs leave something of the move.
Actionable(signal) == signal.edge > 0

\* SignalFilterChain::evaluate().  A flat signal is not a trade and passes; the
\* age of a feature is measured after update_state() has set it to now, and is
\* always zero, so that max_feature_age refuses nothing.
Passes(name, signal, forecast, fit) ==
  \/ signal.side = 0
  \/ /\ instant - forecast.at <= MaxForecastAge
     /\ Actionable(signal)
     /\ fit
     /\ accepted[name] # Never => instant - accepted[name] >= Cooldown

-----------------------------------------------------------------------------
(* Sizing.                                                                 *)

\* raw_weight_for(): Kelly follows the edge up to its own cap; the others do not.
Asked(signal) == IF generator.sizing = "kelly" THEN Limited(signal.edge, KellyCap) ELSE FixedSize

\* PositionSizer::size(): the caps in their order, each against what the
\* instruments sized before this one have claimed, then the lot.
SizedFrom(name, signal, claimed) ==
  LET single == Limited(Asked(signal), PositionCap)
      sector == Limited(single, SectorCap - claimed.sector[SectorOf[name]])
      gross == Limited(sector, GrossCap - claimed.gross)
      net == IF Magnitude(claimed.net + signal.side * gross) > NetCap
             THEN Limited(gross, NetCap - Magnitude(claimed.net)) ELSE gross
  IN  IF ~Actionable(signal) THEN 0 ELSE ToLot(signal.side * net)

Nowhere == [sector |-> [s \in {SectorOf[n] : n \in Names} |-> 0], gross |-> 0, net |-> 0]

\* Slip: every instrument is sized as if it were the only one.
ClaimNothing(claimed, name, target) == claimed

Claim(claimed, name, target) ==
  [sector |-> [claimed.sector EXCEPT ![SectorOf[name]] = @ + Magnitude(target)],
   gross |-> claimed.gross + Magnitude(target), net |-> claimed.net + target]

Targeted(signals) == {n \in Names : signals[n] # {} /\ \A s \in signals[n] : instant <= s.expires}

\* One turn of the loop of rebalance() over latest_signals_, after those of the
\* instruments before this one: the target, and what all of them claim.
TurnOf(upto, name, signals, flatten) ==
  LET before == {m \in Names : m < name}
      claimed == IF before = {} THEN Nowhere ELSE upto[Max(before)].claimed
      signal == CHOOSE s \in signals[name] : TRUE
      target == IF flatten \/ name \notin Targeted(signals) THEN 0 ELSE SizedFrom(name, signal, claimed)
  IN  [target |-> target, claimed |-> Claim(claimed, name, target)]

\* The loop, in instrument order.
TargetsOf(signals, flatten) ==
  LET Upto[n \in Names] == TurnOf(Upto, n, signals, flatten)
  IN  [n \in Names |-> Upto[n].target]

-----------------------------------------------------------------------------
(* Rebalancing.                                                            *)

\* Slip: the whole target is ordered.
DeltaIsTarget(name, targets) == targets[name]

\* Orders resting at the venue are not counted: the portfolio knows only fills.
Delta(name, targets) == targets[name] - held[name]

\* RebalanceEngine::plan() (Partial): what is too small to be worth trading is
\* left alone, and a held instrument nobody targets is closed.
Traded(name, targets) ==
  LET delta == Delta(name, targets)
  IN  IF delta = 0 \/ Magnitude(delta) < DriftFloor \/ Magnitude(delta) < TradeFloor
      THEN 0 ELSE ToLot(delta)

Turnover(targets) == SumFunction([n \in Names |-> Magnitude(Traded(n, targets))])

\* rebalance(): a plan over the turnover limit trades nothing.  Each order is
\* taken by the risk gate or refused.
Rebalance(signals, flatten) ==
  LET targets == TargetsOf(signals, flatten)
      wanted == {n \in Names : Traded(n, targets) # 0}
      refusedPlan == Turnover(targets) > TurnoverCap
  IN  \E taken \in SUBSET wanted :
        /\ refusedPlan => taken = {}
        /\ resting' = [n \in Names |-> resting[n] + IF n \in taken THEN Traded(n, targets) ELSE 0]
        /\ plan' = [targets |-> targets,
                    settled |-> taken = wanted /\ \A n \in Names : resting[n] = 0]

-----------------------------------------------------------------------------
(* What the engine calls.                                                  *)

\* on_start(); the engine starts inside a session.
PipelineInit ==
  /\ instant = 1 /\ printed = {} /\ matched = {} /\ inSession = TRUE
  /\ forecasts \in Forecasts
  /\ generator \in [members: Ensembles, method: EnsembleMethods, sizing: SizingMethods]
  /\ held = [n \in Names |-> 0] /\ resting = [n \in Names |-> 0]
  /\ latest = [n \in Names |-> {}] /\ accepted = [n \in Names |-> Never]
  /\ sinceRebalance = 0
  /\ plan = [targets |-> [n \in Names |-> 0], settled |-> FALSE]

\* The venue matches the instrument's resting orders against its bar before the
\* strategy sees it: not at all, in part (an order larger than its share of the
\* volume), or whole.
Matched(name) ==
  /\ inSession /\ matched = {} /\ name \notin printed
  /\ \E filled \in {0, ToLot(Side(resting[name]) * (Magnitude(resting[name]) \div 2)), resting[name]} :
       /\ held' = [held EXCEPT ![name] = @ + filled]
       /\ resting' = [resting EXCEPT ![name] = @ - filled]
  /\ matched' = {name} /\ printed' = printed \cup {name}
  /\ UNCHANGED <<instant, inSession, forecasts, generator, latest, accepted, sinceRebalance, plan>>

\* on_bar() without a forecast, or with a signal the filters refuse.
NothingToSay(name) ==
  /\ matched = {name} /\ matched' = {}
  /\ \/ Available(name, instant) = {}
     \/ \E f \in Available(name, instant), fit \in MarketConditions :
          ~Passes(name, SignalFrom(f, instant), f, fit)
  /\ UNCHANGED <<instant, printed, inSession, forecasts, generator, held, resting, latest,
                 accepted, sinceRebalance, plan>>

\* on_bar() with a signal that passes: it replaces the instrument's last one, and
\* every RebalanceEvery-th such bar, of whatever instrument, rebalances the book.
SignalTaken(name) ==
  /\ matched = {name} /\ matched' = {}
  /\ \E f \in Available(name, instant), fit \in MarketConditions :
       LET signal == SignalFrom(f, instant)
       IN  /\ Passes(name, signal, f, fit)
           /\ latest' = [latest EXCEPT ![name] = {signal}]
  /\ accepted' = [accepted EXCEPT ![name] = instant]
  /\ IF sinceRebalance + 1 >= RebalanceEvery
     THEN Rebalance(latest', FALSE) /\ sinceRebalance' = 0
     ELSE sinceRebalance' = sinceRebalance + 1 /\ UNCHANGED <<resting, plan>>
  /\ UNCHANGED <<instant, printed, inSession, forecasts, generator, held>>

\* on_session_close(): target zero everywhere.  The orders wait at the venue for
\* the next market event of their instrument.
SessionCloses ==
  /\ inSession /\ matched = {} /\ instant = CloseAt
  /\ inSession' = FALSE
  /\ Rebalance(latest, TRUE)
  /\ latest' = [n \in Names |-> {}]
  /\ UNCHANGED <<instant, printed, matched, forecasts, generator, held, accepted, sinceRebalance>>

\* on_session_open()
SessionOpens ==
  /\ ~inSession /\ instant < MaxInstant
  /\ inSession' = TRUE /\ instant' = instant + 1 /\ printed' = {}
  /\ latest' = [n \in Names |-> {}] /\ sinceRebalance' = 0
  /\ UNCHANGED <<matched, forecasts, generator, held, resting, accepted, plan>>

NextInstant ==
  /\ inSession /\ matched = {} /\ instant # CloseAt /\ instant < MaxInstant
  /\ instant' = instant + 1 /\ printed' = {}
  /\ UNCHANGED <<matched, inSession, forecasts, generator, held, resting, latest, accepted,
                 sinceRebalance, plan>>

PipelineNext ==
  \/ \E name \in Names : Matched(name) \/ NothingToSay(name) \/ SignalTaken(name)
  \/ SessionCloses \/ SessionOpens \/ NextInstant

PipelineSpec == PipelineInit /\ [][PipelineNext]_pipelineVars

-----------------------------------------------------------------------------
PipelineTypeOK ==
  /\ instant \in 1..MaxInstant /\ inSession \in BOOLEAN /\ sinceRebalance \in 0..(RebalanceEvery - 1)
  /\ matched \subseteq printed /\ printed \subseteq Names
  /\ {held, resting} \subseteq [Names -> Int]
  /\ \A n \in Names : latest[n] \subseteq SignalRecords /\ Cardinality(latest[n]) <= 1
  /\ accepted \in [Names -> Nat \cup {Never}]

\* No signal stands on a forecast made after its decision, and none on one that a
\* newer forecast, already there, had replaced.
NoHindsight ==
  \A n \in Names : \A s \in latest[n] :
    /\ s.seen <= s.asOf
    /\ \A f \in forecasts[n] : f.at <= s.asOf => f.at <= s.seen

\* However the signals arrived, the book a rebalance asks for respects every limit
\* at once: "without this a set of individually-compliant positions can
\* collectively breach the gross limit" (the loop of rebalance()).
TargetsWithinLimits ==
  LET sizes == [n \in Names |-> Magnitude(plan.targets[n])]
      InSector(s) == {n \in Names : SectorOf[n] = s}
  IN  /\ \A n \in Names : sizes[n] <= PositionCap
      /\ SumFunctionOnSet(sizes, Names) <= GrossCap
      /\ Magnitude(SumFunctionOnSet(plan.targets, Names)) <= NetCap
      /\ \A s \in {SectorOf[n] : n \in Names} : SumFunctionOnSet(sizes, InSector(s)) <= SectorCap

\* A rebalance that found nothing in flight and whose orders were all taken ends,
\* however its fills arrive, at its targets, up to what is too small to trade:
\* "a target is a desired END STATE, never an increment" (rebalance.hpp).
SettledPlanReachesTarget ==
  plan.settled =>
    \A n \in Names : Magnitude(held[n] + resting[n] - plan.targets[n]) < Max({DriftFloor, TradeFloor, Lot})

\* The decisions of a pipeline: well typed, without hindsight, within the limits, and
\* carried out.
DecisionsAreSound ==
  PipelineTypeOK /\ NoHindsight /\ TargetsWithinLimits /\ SettledPlanReachesTarget
=============================================================================
