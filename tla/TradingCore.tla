---------------------------- MODULE TradingCore -----------------------------
(***************************************************************************)
(* The engine's dispatch loop (src/engine/engine.cpp) over the order       *)
(* manager, the simulated venue (src/execution/broker.cpp), the portfolio  *)
(* (src/portfolio/portfolio.cpp) and the risk gate.  One thread runs it;   *)
(* what is interesting is the order of its steps.  An event is handled in  *)
(* phases:                                                                 *)
(*                                                                         *)
(*   matching     on_market visits the pending orders, oldest first        *)
(*   dispatching  each fill goes to the OMS, then the portfolio            *)
(*   strategy     the strategy submits and cancels through the Sink        *)
(*   idle         between two events                                       *)
(*   failed       a step returned an error: the run is over                *)
(*                                                                         *)
(* Ids are drawn with next_id() at the moment of submission, so ascending  *)
(* ids are the insertion order of BrokerSimulator::pending_, and that      *)
(* vector is a function from ids here.  Prices and quantities are small    *)
(* integers; statistics, journal and equity curve are not modelled.        *)
(***************************************************************************)
EXTENDS OrderManager, RiskGate, FiniteSetsExt

CONSTANTS Bars,                 \* what a bar says: [close, volume]
          Quotes,               \* what a quote says: [bid, ask, bidSize, askSize]
          FeedDelays,           \* receive_time - exchange_time of an event
          Latencies,            \* decision_to_arrival of the latency model
          DecisionSkews,        \* decision_time of an order - the clock
          Slips,                \* adverse ticks a fill pays on top of the touch
          ParticipationDiv,     \* max_participation_rate = 1 / ParticipationDiv
          SplitRatios,          \* ratio of a split event
          Dividends,            \* amount per share of a dividend event
          PortfolioAllowsShort, \* PortfolioConfig::allow_short
          InitialCash,
          MaxTime, MaxEvents    \* bounds on exchange time and on events_processed

ASSUME TermsHaveFields ==
  Terms \subseteq [kind: {"market", "limit", "stop", "stop_limit"},
                   tif: {"day", "ioc", "fok", "gtc"}, limit: Nat, stop: Nat]

\* What the feed and the venue's models can say.  Prices are positive, sizes
\* and delays are not negative, and no slippage exceeds the price it is taken from.
ASSUME FeedIsNatural ==
  /\ Bars \subseteq [close: Nat \ {0}, volume: Nat]
  /\ Quotes \subseteq [bid: Nat \ {0}, ask: Nat \ {0}, bidSize: Nat, askSize: Nat]
  /\ FeedDelays \subseteq Nat /\ Latencies \subseteq Int
ASSUME SlipsBelowPrices ==
  /\ Slips \subseteq Nat
  /\ \A slip \in Slips : (\A b \in Bars : slip <= b.close) /\ (\A q \in Quotes : slip <= q.bid)
ASSUME MoneyIsWhole ==
  /\ ParticipationDiv \in Nat \ {0} /\ MaxTime \in Nat
  /\ SplitRatios \subseteq Int /\ Dividends \subseteq Int /\ InitialCash \in Int
ASSUME DecisionTimesCovered ==
  \A t \in 0..MaxTime, delay \in FeedDelays, skew \in DecisionSkews :
    t + delay + skew \in DecisionTimes

VARIABLES clock,     \* the simulated clock: receive time of the last event
          exch,      \* exchange time of the event being handled
          events,    \* RunSummary::events_processed
          phase, active, \* where the handler is, and the instrument it is about
          market,    \* Engine::state_ and last_update_, per instrument seen
          marks,     \* Portfolio::marks_
          pending,   \* BrokerSimulator::pending_
          todo,      \* pending orders on_market has still to visit
          budget,    \* remaining_participation
          fills,     \* fills on_market returned, not yet dispatched
          position, cash, turnover, peak,
          splitShares, dividendCash \* history: what corporate actions added

engineVars == <<clock, exch, events, phase, active>>
marketVars == <<market, marks>>
venueVars  == <<pending, todo, budget, fills>>
bookVars   == <<position, cash, turnover, splitShares, dividendCash>>
coreVars   == <<omsVars, engineVars, marketVars, venueVars, bookVars, peak>>

-----------------------------------------------------------------------------
(* The venue's view of one order.                                          *)

OrderOf(id) == records[id].order
IsStop(o) == o.terms.kind \in {"stop", "stop_limit"}
Want(id) == OrderOf(id).qty - pending[id].filled

\* state.has_quote ? state.touch(side) : state.bid
Touch(inst, side) ==
  IF market[inst].hasQuote /\ side = Buy THEN market[inst].ask ELSE market[inst].bid

DisplayedSize(inst, side) ==
  IF side = Buy THEN market[inst].askSize ELSE market[inst].bidSize

\* A stop is dormant until the touch trades through its stop price, and stays
\* triggered from then on.
TriggerMet(o) ==
  IF o.side = Buy THEN Touch(o.inst, o.side) >= o.terms.stop
                  ELSE Touch(o.inst, o.side) <= o.terms.stop

\* Slip: an order can fill on the event it was submitted on.
ArrivedAtOnce(id) == OrderOf(id).inst = active

Arrived(id) == OrderOf(id).inst = active /\ exch >= pending[id].arrival

Triggered(id) == pending[id].triggered \/ (IsStop(OrderOf(id)) /\ TriggerMet(OrderOf(id)))

Awake(id) == IsStop(OrderOf(id)) => Triggered(id)

\* is_marketable_against
Marketable(o) ==
  \/ o.terms.kind \in {"market", "stop"}
  \/ IF o.side = Buy THEN Touch(o.inst, o.side) <= o.terms.limit
                     ELSE Touch(o.inst, o.side) >= o.terms.limit

Least(a, b) == IF a < b THEN a ELSE b

\* What remains after the displayed size (quotes) has capped the order.
DisplayCapped(id) ==
  LET o == OrderOf(id)
  IN  IF market[o.inst].hasQuote
      THEN Least(Want(id), DisplayedSize(o.inst, o.side)) ELSE Want(id)

\* The participation cap.  It applies only while some budget is left.
CapApplies(id) == budget > 0 /\ budget < DisplayCapped(id)

Allowed(id) == IF CapApplies(id) THEN budget ELSE DisplayCapped(id)

\* Nothing displayed at the touch, or nothing traded in the interval; the
\* engine leaves volume_known at its default of true.
Liquid(id) ==
  /\ DisplayCapped(id) > 0
  /\ CapApplies(id) \/ market[OrderOf(id).inst].volume > 0

Executable(id) == Arrived(id) /\ Awake(id) /\ Marketable(OrderOf(id)) /\ Liquid(id)

\* Slip: fill-or-kill treated like any other order.
NeverKilled(id) == FALSE

\* Fill-or-kill: anything short of the full remaining quantity kills it.
Killed(id) == OrderOf(id).terms.tif = "fok" /\ Allowed(id) < Want(id)

Without(f, id) == [k \in DOMAIN f \ {id} |-> f[k]]
With(f, id, v) == [k \in DOMAIN f \cup {id} |-> IF k = id THEN v ELSE f[k]]

BudgetAfter(q) == IF budget > q THEN budget - q ELSE 0

\* Slips: a completed order stays at the venue; an immediate-or-cancel
\* remainder rests.
CompletedStays(id, q) ==
  IF OrderOf(id).terms.tif = "ioc"
  THEN Without(pending, id)
  ELSE [pending EXCEPT ![id].filled = @ + q, ![id].triggered = Triggered(id)]
RemainderRests(id, q) ==
  IF q = Want(id)
  THEN Without(pending, id)
  ELSE [pending EXCEPT ![id].filled = @ + q, ![id].triggered = Triggered(id)]

\* What is left of a pending order after a fill: gone when complete, and gone
\* when its remainder was immediate-or-cancel.
AfterExecution(id, q) ==
  IF q = Want(id) \/ OrderOf(id).terms.tif = "ioc"
  THEN Without(pending, id)
  ELSE [pending EXCEPT ![id].filled = @ + q, ![id].triggered = Triggered(id)]

-----------------------------------------------------------------------------
(* The portfolio.                                                          *)

\* MarkMode::Liquidation: longs to the bid, shorts to the ask.
MarkFor(inst, qty) == IF qty < 0 THEN marks[inst].ask ELSE marks[inst].bid

PositionValue(inst) ==
  IF inst \in DOMAIN marks THEN position[inst] * MarkFor(inst, position[inst]) ELSE 0

NetExposure == MapThenSumSet(PositionValue, Instruments)
GrossExposure == MapThenSumSet(LAMBDA i : Abs(PositionValue(i)), Instruments)
Equity == cash + NetExposure

\* Slips: cash charged on the requested quantity; a sale that costs cash.
CashOnRequested(f) == -(f.price * OrderOf(f.id).qty * SignOf(f.side)) - f.cost
\* Fill::cash_delta
CashDelta(f) == -(f.price * f.qty * SignOf(f.side)) - f.cost

\* Slip: the sign of the side is lost.
PositionUnsigned(f) == f.qty

\* Fill::signed_quantity, what Position::apply adds.
PositionDelta(f) == SignOf(f.side) * f.qty

\* What Sink::submit tells the risk gate.
RiskContext(inst) ==
  LET seen == inst \in DOMAIN market
      m == market[inst]
  IN [age      |-> IF seen THEN clock - m.updated ELSE Limits.maxStaleness + 1,
      ref      |-> IF ~seen THEN 0 ELSE IF m.hasQuote THEN (m.bid + m.ask) \div 2 ELSE m.bid,
      peak     |-> peak,  turnover |-> turnover, equity |-> Equity,
      gross    |-> GrossExposure, net |-> NetExposure, cash |-> cash,
      position |-> position[inst], inFlight |-> ExposureOf(records, inst)]

-----------------------------------------------------------------------------
(* An event arrives.                                                       *)

\* ReplaySource::next: exchange times never fall, receive times never precede
\* them, and the clock moves to the receive time.
EventArrives ==
  /\ phase = "idle"
  /\ events < MaxEvents
  /\ events' = events + 1
  /\ exch' \in {exch, exch + 1} /\ exch' <= MaxTime
  /\ \E d \in FeedDelays : clock' = exch' + d
  /\ clock' >= clock

\* The head of on_market: everything pending is to be visited, and one
\* participation budget is set aside for all of it.
StartMatching(volume) ==
  /\ phase' = "matching"
  /\ todo' = DOMAIN pending
  /\ budget' = volume \div ParticipationDiv
  /\ UNCHANGED <<pending, fills>>

Bar ==
  /\ EventArrives
  /\ \E inst \in Instruments, b \in Bars :
       LET seen == inst \in DOMAIN market
           quoted == seen /\ market[inst].hasQuote
           touch == IF quoted
                    THEN market[inst]
                    ELSE [bid |-> b.close, ask |-> b.close, bidSize |-> 0, askSize |-> 0,
                          hasQuote |-> FALSE, volume |-> 0, updated |-> 0]
       IN  /\ active' = inst
           /\ market' = With(market, inst,
                             [touch EXCEPT !.volume = b.volume, !.updated = exch'])
           /\ marks' = With(marks, inst, [bid |-> b.close, ask |-> b.close])
           /\ StartMatching(b.volume)
  /\ UNCHANGED <<omsVars, bookVars, peak>>

Quote ==
  /\ EventArrives
  /\ \E inst \in Instruments, q \in Quotes :
       LET volume == IF inst \in DOMAIN market THEN market[inst].volume ELSE 0
       IN  /\ active' = inst
           /\ market' = With(market, inst,
                             [bid |-> q.bid, ask |-> q.ask, bidSize |-> q.bidSize,
                              askSize |-> q.askSize, hasQuote |-> TRUE,
                              volume |-> volume, updated |-> exch'])
           /\ marks' = With(marks, inst, [bid |-> q.bid, ask |-> q.ask])
           /\ StartMatching(volume)
  /\ UNCHANGED <<omsVars, bookVars, peak>>

\* A trade print, or a session close: the strategy is called and nothing else.
TradeOrClose ==
  /\ EventArrives
  /\ phase' = "strategy"
  /\ UNCHANGED <<omsVars, active, marketVars, venueVars, bookVars, peak>>

\* A session open resets the turnover of the day before the strategy is called.
SessionOpen ==
  /\ EventArrives
  /\ phase' = "strategy"
  /\ turnover' = 0
  /\ UNCHANGED <<omsVars, active, marketVars, venueVars, position, cash, splitShares,
                 dividendCash, peak>>

HigherPeak(equity) == IF equity > peak THEN equity ELSE peak

\* Portfolio::apply_split scales the position and its marks; neither the
\* engine's market state nor any order is told.
Split ==
  /\ EventArrives
  /\ \E inst \in Instruments, r \in SplitRatios :
       /\ position' = [position EXCEPT ![inst] = @ * r]
       /\ splitShares' = [splitShares EXCEPT ![inst] = @ + position[inst] * (r - 1)]
       /\ marks' = IF inst \notin DOMAIN marks THEN marks
                   ELSE [marks EXCEPT ![inst].bid = @ \div r, ![inst].ask = @ \div r]
  /\ UNCHANGED <<omsVars, phase, active, market, venueVars, cash, turnover, dividendCash>>
  /\ peak' = HigherPeak(Equity')

Dividend ==
  /\ EventArrives
  /\ \E inst \in Instruments, amount \in Dividends :
       /\ cash' = cash + amount * position[inst]
       /\ dividendCash' = dividendCash + amount * position[inst]
  /\ UNCHANGED <<omsVars, phase, active, marketVars, venueVars, position, turnover,
                 splitShares>>
  /\ peak' = HigherPeak(Equity')

-----------------------------------------------------------------------------
(* on_market, one pending order at a time.  The want <= 0 branch of the    *)
(* loop is left out: a completed order has left pending_ (VenueAgrees).    *)

Visit(id) ==
  /\ phase = "matching"
  /\ id \in todo
  /\ \A k \in todo : id <= k
  /\ todo' = todo \ {id}

Skip(id) ==
  /\ Visit(id)
  /\ ~Executable(id)
  /\ pending' = IF Arrived(id) THEN [pending EXCEPT ![id].triggered = Triggered(id)]
                ELSE pending
  /\ UNCHANGED <<omsVars, engineVars, marketVars, budget, fills, bookVars, peak>>

Kill(id) ==
  /\ Visit(id)
  /\ Executable(id) /\ Killed(id)
  /\ pending' = Without(pending, id)
  /\ UNCHANGED <<omsVars, engineVars, marketVars, budget, fills, bookVars, peak>>

Execute(id) ==
  /\ Visit(id)
  /\ Executable(id) /\ ~Killed(id)
  /\ LET o == OrderOf(id)
         q == Allowed(id)
     IN  /\ \E slip \in Slips, cost \in Costs :
              fills' = With(fills, id,
                            [id |-> id, inst |-> o.inst, side |-> o.side, qty |-> q,
                             time |-> exch, cost |-> cost,
                             price |-> Touch(o.inst, o.side) + SignOf(o.side) * slip])
         /\ budget' = BudgetAfter(q)
         /\ pending' = AfterExecution(id, q)
  /\ UNCHANGED <<omsVars, engineVars, marketVars, bookVars, peak>>

MatchingDone ==
  /\ phase = "matching" /\ todo = {}
  /\ phase' = "dispatching"
  /\ UNCHANGED <<omsVars, clock, exch, events, active, marketVars, venueVars, bookVars, peak>>

-----------------------------------------------------------------------------
(* dispatch_fills.                                                         *)

OldestFill(id) ==
  /\ phase = "dispatching"
  /\ id \in DOMAIN fills
  /\ \A k \in DOMAIN fills : id <= k

\* Portfolio::apply refuses a fill that would leave a short position.
ShortRefusedByPortfolio(f) ==
  ~PortfolioAllowsShort /\ position[f.inst] + PositionDelta(f) < 0

OmsAccepts(f) == FillMatches(records, f) /\ FillReturnsOk(records, f)

DispatchFill(id) ==
  /\ OldestFill(id)
  /\ LET f == fills[id]
     IN  /\ OmsAccepts(f) /\ ~ShortRefusedByPortfolio(f)
         /\ records' = FillBooked(records, f)
         /\ position' = [position EXCEPT ![f.inst] = @ + PositionDelta(f)]
         /\ cash' = cash + CashDelta(f)
         /\ turnover' = turnover + f.price * f.qty
         /\ fills' = Without(fills, id)
  /\ UNCHANGED <<next, engineVars, marketVars, pending, todo, budget, splitShares,
                 dividendCash, peak>>

\* Slip: the refused fill is skipped and the run goes on.
DispatchSkipsRefused(id) ==
  /\ OldestFill(id)
  /\ ShortRefusedByPortfolio(fills[id])
  /\ records' = FillBooked(records, fills[id])
  /\ fills' = Without(fills, id)
  /\ UNCHANGED <<next, engineVars, marketVars, pending, todo, budget, bookVars, peak>>

\* Either refusal ends the run and drops the fills behind it.  When it is the
\* portfolio's, the OMS has already booked the fill.
DispatchRefused(id) ==
  /\ OldestFill(id)
  /\ LET f == fills[id]
     IN  /\ ~OmsAccepts(f) \/ ShortRefusedByPortfolio(f)
         /\ records' = IF FillMatches(records, f) THEN FillBooked(records, f) ELSE records
  /\ phase' = "failed"
  /\ fills' = [k \in {} |-> 0]
  /\ UNCHANGED <<next, clock, exch, events, active, marketVars, pending, todo, budget,
                 bookVars, peak>>

DispatchDone ==
  /\ phase = "dispatching" /\ DOMAIN fills = {}
  /\ phase' = "strategy"
  /\ UNCHANGED <<omsVars, clock, exch, events, active, marketVars, venueVars, bookVars, peak>>

-----------------------------------------------------------------------------
(* The strategy's turn: any number of submits and cancels through the Sink.*)

\* Sink::submit for an order whose id was just drawn with next_id().  A
\* refusal by the gate leaves only the id behind.
StrategySubmit(o) ==
  /\ phase = "strategy" /\ next <= MaxId
  /\ o.parent = NoOrder
  /\ next' = next + 1
  /\ LET id == next
         approved == RiskApproves(o, RiskContext(o.inst))
         sent(state) == [Submitted(records, id, o) EXCEPT ![id].state = state]
     IN  \/ /\ ~approved
            /\ UNCHANGED <<records, pending>>
         \/ /\ approved /\ o.decision > clock \* the venue refuses: decided in the future
            /\ records' = sent("rejected")
            /\ UNCHANGED pending
         \/ /\ approved /\ o.decision <= clock
            /\ records' = sent("working")     \* new, pending_new, working
            /\ \E l \in Latencies :
                 pending' = With(pending, id,
                                 [arrival |-> clock + (IF l > 0 THEN l ELSE 1),
                                  filled |-> 0, triggered |-> FALSE])
  /\ UNCHANGED <<engineVars, marketVars, todo, budget, fills, bookVars, peak>>

\* Sink::cancel: the venue first, then the OMS.  The venue refuses an order it
\* is not working, and then nothing changes.
StrategyCancel(id) ==
  /\ phase = "strategy"
  /\ id \in DOMAIN pending
  /\ pending' = Without(pending, id)
  /\ records' = Transitioned(records, id, "cancelled")
  /\ UNCHANGED <<next, engineVars, marketVars, todo, budget, fills, bookVars, peak>>

StrategyReturns ==
  /\ phase = "strategy"
  /\ phase' = "idle"
  /\ peak' = HigherPeak(Equity)
  /\ UNCHANGED <<omsVars, clock, exch, events, active, marketVars, venueVars, bookVars>>

CoreInit ==
  /\ OmsInit
  /\ clock = 0 /\ exch = 0 /\ events = 0
  /\ phase = "idle" /\ active \in Instruments
  /\ market = [i \in {} |-> 0] /\ marks = [i \in {} |-> 0]
  /\ pending = [i \in {} |-> 0] /\ fills = [i \in {} |-> 0]
  /\ todo = {} /\ budget = 0
  /\ position = [i \in Instruments |-> 0] /\ splitShares = [i \in Instruments |-> 0]
  /\ cash = InitialCash /\ peak = InitialCash
  /\ turnover = 0 /\ dividendCash = 0

CoreNext ==
  \/ Bar \/ Quote \/ TradeOrClose \/ SessionOpen \/ Split \/ Dividend
  \/ \E id \in todo : Skip(id) \/ Kill(id) \/ Execute(id)
  \/ MatchingDone
  \/ \E id \in DOMAIN fills : DispatchFill(id) \/ DispatchRefused(id)
  \/ DispatchDone
  \/ \E inst \in Instruments, side \in Sides, q \in Quantities, t \in Terms,
        skew \in DecisionSkews :
       StrategySubmit([inst |-> inst, side |-> side, qty |-> q, parent |-> NoOrder,
                       decision |-> clock + skew, terms |-> t])
  \/ \E id \in DOMAIN pending : StrategyCancel(id)
  \/ StrategyReturns

CoreSpec == CoreInit /\ [][CoreNext]_coreVars

-----------------------------------------------------------------------------
(* Invariants.                                                             *)

CoreTypeOK ==
  /\ BookTypeOK
  /\ phase \in {"idle", "matching", "dispatching", "strategy", "failed"}
  /\ exch <= clock
  /\ todo \subseteq DOMAIN pending
  /\ DOMAIN pending \subseteq DOMAIN records
  /\ DOMAIN marks = DOMAIN market
  /\ budget \in Nat
  /\ \A id \in DOMAIN fills : fills[id] \in [id: {id}, inst: Instruments, side: Sides,
                                             qty: Nat, time: 0..MaxTime, price: Nat, cost: Costs]
  /\ position \in [Instruments -> Int] /\ cash \in Int

Undelivered(id) == IF id \in DOMAIN fills THEN fills[id].qty ELSE 0

\* Between on_market and dispatch_fills the venue and the OMS count fills at
\* different moments.  Counting what is still in the vector of fills, an order
\* the venue is working has the same filled quantity in both books, is live in
\* the OMS, and has something left to fill - through partial fills, caps,
\* cancels and kills.
VenueAgrees ==
  phase # "failed" =>
    \A id \in DOMAIN pending :
      /\ id \in Live(records)
      /\ pending[id].filled = records[id].filled + Undelivered(id)
      /\ pending[id].filled < OrderOf(id).qty

\* Every fill the venue hands back is one the OMS accepts: for a live order,
\* within its quantity, later than its decision.  The error return of
\* apply_fill in dispatch_fills is never taken.
FillsAcceptable == \A id \in DOMAIN fills : OmsAccepts(fills[id])

\* The venue and the OMS agree about every order, and the variables are typed.
VenueMatchesBook == CoreTypeOK /\ VenueAgrees /\ FillsAcceptable

\* The portfolio is explained by the OMS.  The position is the signed sum of what
\* the OMS booked, plus what splits added; cash is explained by its notional and
\* cost columns, to the unit: fills reach both books or, the run having failed,
\* the OMS only, and none is charged twice, on the requested quantity, or with
\* the wrong sign.
PositionExplained ==
  \A i \in Instruments : position[i] = SignedFilled(records, i) + splitShares[i]

CashExplained ==
  cash = InitialCash + dividendCash
         - SumFunction([id \in DOMAIN records |->
                          SignOf(OrderOf(id).side) * records[id].notional + records[id].cost])

PortfolioMatchesOrders == phase # "failed" => PositionExplained /\ CashExplained

\* A fill-or-kill order fills in full or not at all, however many events it
\* waits for and whatever shares its interval's budget; an immediate-or-cancel
\* order with a fill is not at the venue any more, so that its remainder can
\* never fill at a later event.
TimeInForceHonoured ==
  /\ \A id \in DOMAIN records :
       OrderOf(id).terms.tif = "fok" => records[id].filled \in {0, OrderOf(id).qty}
  /\ \A id \in DOMAIN pending :
       OrderOf(id).terms.tif = "ioc" => pending[id].filled = 0

\* As long as the strategy only ever sent one side, no burst of orders takes the
\* position, with everything in flight, past the position limit that each order
\* was checked against: not even valued at the cheapest bar of the feed.
OneSidedBurstWithinLimit ==
  \A side \in Sides :
    (\A id \in DOMAIN records : OrderOf(id).side = side) =>
      \A i \in DOMAIN marks : \E b \in Bars :
        Abs(position[i] + ExposureOf(records, i)) * b.close <= Limits.maxPositionNotional

\* While nothing is being handled, what the risk gate counts as in flight is
\* what the venue is really working (Working: live at the venue).
LiveMeansAtVenue ==
  phase \in {"idle", "strategy"} => Live(records) \subseteq DOMAIN pending

\* One participation budget bounds everything filled in an interval.
BudgetShared ==
  phase = "dispatching" =>
    MapThenSumSet(LAMBDA id : fills[id].qty, DOMAIN fills)
      <= market[active].volume \div ParticipationDiv
=============================================================================
