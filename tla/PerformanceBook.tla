-------------------------- MODULE PerformanceBook --------------------------
(***************************************************************************)
(* How a run's result is explained: the position's average cost            *)
(* (src/portfolio/position.cpp), the journal's round trips                 *)
(* (src/accounting/journal.cpp), the equity curve and its drawdowns        *)
(* (src/analytics/drawdown.cpp), and the decompositions of its profit      *)
(* (src/attribution/pnl.cpp, src/analytics/attribution.cpp).  One          *)
(* instrument: the journal and the portfolio keep each one apart.  Prices, *)
(* costs and profits are multiplied by Scale, which every average of at    *)
(* most four fills of one or two shares divides.                           *)
(***************************************************************************)
EXTENDS Integers, Sequences, FiniteSets, SequencesExt

CONSTANTS Marks,           \* prices of the market
          Slips,           \* how far from it an order fills, against the trader
          Quantities,
          InitialCash,
          MaxFills, MaxRecords, MaxMarkTime  \* bounds: fills, fills and points, marks

Scale == 5040
FillCost == 1              \* commission and fee of a fill

ASSUME PerformanceAssumption ==
  /\ Marks \subseteq Nat \ {0} /\ Slips \subseteq Nat
  /\ Quantities \subseteq {1, 2} /\ MaxFills <= 4 /\ InitialCash \in Int

VARIABLES marked,          \* [time, price]: the last mark
          booked,          \* Journal::fills_
          holding,         \* Position, and the portfolio's cash
          equityCurve,     \* Portfolio::curve_
          drawdown         \* DrawdownTracker

performanceVars == <<marked, booked, holding, equityCurve, drawdown>>

Total(s, Of(_)) == FoldLeft(LAMBDA sum, e : sum + Of(e), 0, s)
Size(q) == IF q < 0 THEN 0 - q ELSE q
Smaller(a, b) == IF a < b THEN a ELSE b
Larger(a, b) == IF a > b THEN a ELSE b
SameSide(held, delta) == held = 0 \/ (held > 0) = (delta > 0)
Sign(q) == IF q > 0 THEN 1 ELSE -1

-----------------------------------------------------------------------------
(* Position::apply() and Portfolio::apply().                               *)

NoHolding == [quantity |-> 0, average |-> 0, realized |-> 0, costs |-> 0, cash |-> InitialCash]

\* Slip: a reversal keeps the average of the side it left.
AverageKept(average, price) == average

\* The part that reverses through zero opens at the fill's price.
AverageReversed(average, price) == price * Scale

Applied(h, f) ==
  LET after == h.quantity + f.delta
      closing == Smaller(Size(f.delta), Size(h.quantity))
      paid == [h EXCEPT !.quantity = after, !.costs = @ + FillCost,
                        !.cash = @ - f.delta * f.price - FillCost]
  IN  IF SameSide(h.quantity, f.delta)
      THEN [paid EXCEPT !.average = (@ * h.quantity + f.price * Scale * f.delta) \div after]
      ELSE [paid EXCEPT
              !.realized = @ + (f.price * Scale - h.average) * closing * Sign(h.quantity),
              !.average = CASE after = 0 -> 0
                            [] Size(f.delta) > Size(h.quantity) -> AverageReversed(@, f.price)
                            [] OTHER -> @]

\* With a mark of the last price (mark_last).
Equity(h, price) == h.cash + h.quantity * price
Unrealized(h, price) == h.quantity * (price * Scale - h.average)

-----------------------------------------------------------------------------
(* Journal::match_trades().                                                *)

NothingOpen == [quantity |-> 0, average |-> 0, opened |-> 0, costs |-> 0, trades |-> <<>>]

\* What a close leaves of the entry's costs.
CostsLeft(costs, closing, quantity) == costs - (costs * closing) \div quantity

Matched(open, f) ==
  LET after == open.quantity + f.delta
      held == Size(open.quantity)
      closing == Smaller(Size(f.delta), held)
      trade == [quantity |-> closing, opened |-> open.opened, closed |-> f.at,
                gross |-> (f.price * Scale - open.average) * closing * Sign(open.quantity),
                costs |-> (open.costs * closing) \div held + FillCost * Scale]
      closed == [open EXCEPT !.quantity = after, !.trades = Append(@, trade),
                             !.costs = CostsLeft(@, closing, held)]
  IN  IF SameSide(open.quantity, f.delta)
      THEN [open EXCEPT !.quantity = after, !.costs = @ + FillCost * Scale,
              !.opened = IF open.quantity = 0 THEN f.at ELSE @,
              !.average = (@ * open.quantity + f.price * Scale * f.delta) \div after]
      ELSE CASE Size(f.delta) > held ->
                  [closed EXCEPT !.average = f.price * Scale, !.opened = f.at, !.costs = 0]
             [] after = 0 -> [closed EXCEPT !.average = 0, !.costs = 0]
             [] OTHER -> closed

OpenAndTrades == FoldLeft(Matched, NothingOpen, booked)
Trades == OpenAndTrades.trades

-----------------------------------------------------------------------------
(* TradeAnalyzer::analyze(): results by trade and the runs of them.        *)

NoTrades == [wins |-> 0, losses |-> 0, scratches |-> 0, profit |-> 0, loss |-> 0,
             winRun |-> 0, lossRun |-> 0, longestWins |-> 0, longestLosses |-> 0]

Judged(s, trade) ==
  LET net == trade.gross - trade.costs
  IN  CASE net > 0 -> [s EXCEPT !.wins = @ + 1, !.profit = @ + net, !.winRun = @ + 1, !.lossRun = 0,
                                !.longestWins = Larger(@, s.winRun + 1)]
        [] net < 0 -> [s EXCEPT !.losses = @ + 1, !.loss = @ - net, !.lossRun = @ + 1, !.winRun = 0,
                                !.longestLosses = Larger(@, s.lossRun + 1)]
        [] OTHER -> [s EXCEPT !.scratches = @ + 1, !.winRun = 0, !.lossRun = 0]

Statistics == FoldLeft(Judged, NoTrades, Trades)

-----------------------------------------------------------------------------
(* DrawdownTracker.  A drawdown is a fraction: what is lost of the peak.   *)

None == [lost |-> 0, of |-> 1]
Deeper(a, b) == a.lost * b.of > b.lost * a.of
NoEpisode == [peakTime |-> 0, peak |-> 0, troughTime |-> 0, trough |-> 0, recovered |-> 0]
EmptyTracker == [peak |-> 0, peakTime |-> 0, current |-> None, worst |-> None, underwater |-> 0,
                 longest |-> 0, episodes |-> <<>>, inEpisode |-> FALSE, active |-> NoEpisode,
                 begun |-> FALSE]

\* Slip: a curve that is back at its peak has not recovered.
AbovePeak(d, equity) == ~d.begun \/ equity > d.peak

AtPeak(d, equity) == ~d.begun \/ equity >= d.peak

\* update(): a new high closes the episode; below the peak one opens or deepens.
TrackedAt(d, at, equity) ==
  LET current == IF d.peak > 0 THEN [lost |-> d.peak - equity, of |-> d.peak] ELSE None
      opened == [peakTime |-> d.peakTime, peak |-> d.peak, troughTime |-> at, trough |-> equity,
                 recovered |-> 0]
      deepened == [d.active EXCEPT !.troughTime = at, !.trough = equity]
  IN  IF AtPeak(d, equity)
      THEN [d EXCEPT !.peak = equity, !.peakTime = at, !.current = None, !.underwater = 0,
                     !.begun = TRUE, !.inEpisode = FALSE,
                     !.episodes = IF d.inEpisode THEN Append(@, [d.active EXCEPT !.recovered = at])
                                  ELSE @]
      ELSE [d EXCEPT !.current = current, !.underwater = @ + 1,
                     !.longest = Larger(@, d.underwater + 1), !.inEpisode = TRUE,
                     !.active = CASE ~d.inEpisode -> opened
                                  [] d.inEpisode /\ equity < d.active.trough -> deepened
                                  [] OTHER -> @,
                     !.worst = IF Deeper(current, @) THEN current ELSE @]

\* rolling_max_drawdown(): the peak is the window's own.
RollingStep(s, point) ==
  LET peak == Larger(s.peak, point.equity)
      here == [lost |-> peak - point.equity, of |-> peak]
  IN  [peak |-> peak, worst |-> IF peak > 0 /\ Deeper(here, s.worst) THEN here ELSE s.worst]

RollingDrawdown(curve, window) ==
  LET n == Len(curve)
      first == IF n >= window THEN n + 1 - window ELSE 1
  IN  FoldLeft(RollingStep, [peak |-> -1, worst |-> None], SubSeq(curve, first, n)).worst

-----------------------------------------------------------------------------
(* PnlAttributor::decompose_series().                                      *)

\* Slip: every period looks at all fills again.
WindowOfAll(cursor) == 0

WindowFrom(cursor) == cursor

\* decompose_period(), of the fills in its window; both ends belong to it.
Decomposed(begin, end, window) ==
  LET inside == SelectSeq(window, LAMBDA f : begin.at <= f.at /\ f.at <= end.at)
  IN  [realized |-> end.realized - begin.realized,
       unrealized |-> end.unrealized - begin.unrealized,
       costs |-> 0 - FillCost * Scale * Len(inside),
       slippage |-> 0 - Scale * Total(inside, LAMBDA f : f.delta * (f.price - f.arrival))]

Periods ==
  LET Step(s, k) ==
        LET end == equityCurve[k + 1]
            upTo == Len(SelectSeq(booked, LAMBDA f : f.at <= end.at))
            next == Larger(s.cursor, upTo)
        IN  [cursor |-> next,
             taken |-> Append(s.taken,
               Decomposed(equityCurve[k], end, SubSeq(booked, WindowFrom(s.cursor) + 1, next)))]
  IN  FoldLeft(Step, [cursor |-> 0, taken |-> <<>>], [k \in 1..Len(equityCurve) - 1 |-> k]).taken

\* net_pnl() of aggregate(): gross and every cost.
Gross(period) == period.realized + period.unrealized
Net(period) == Gross(period) + period.costs + period.slippage

-----------------------------------------------------------------------------
PerformanceInit ==
  /\ marked \in [at : {1}, price : Marks] /\ booked = <<>> /\ holding = NoHolding
  /\ equityCurve = <<>> /\ drawdown = EmptyTracker

HasRoom == Len(booked) + Len(equityCurve) < MaxRecords

MarkMoved ==
  /\ marked.at < MaxMarkTime
  /\ \E price \in Marks : marked' = [at |-> marked.at + 1, price |-> price]
  /\ UNCHANGED <<booked, holding, equityCurve, drawdown>>

\* Portfolio::apply() and Journal::record_fill(); the engine matches trades at the end.
Books(side, quantity, slip) ==
  LET f == [delta |-> side * quantity, price |-> marked.price + side * slip,
            arrival |-> marked.price, at |-> marked.at]
  IN  /\ Len(booked) < MaxFills /\ HasRoom /\ f.price > 0
      /\ booked' = Append(booked, f) /\ holding' = Applied(holding, f)
      /\ UNCHANGED <<marked, equityCurve, drawdown>>

\* Portfolio::snapshot(); the analysis feeds the points to the tracker in order.
TakeSnapshot ==
  LET point == [at |-> marked.at, equity |-> Equity(holding, marked.price),
                realized |-> holding.realized, unrealized |-> Unrealized(holding, marked.price)]
  IN  /\ HasRoom
      /\ equityCurve' = Append(equityCurve, point)
      /\ drawdown' = TrackedAt(drawdown, point.at, point.equity)
      /\ UNCHANGED <<marked, booked, holding>>

PerformanceNext ==
  \/ MarkMoved \/ TakeSnapshot
  \/ \E side \in {-1, 1}, quantity \in Quantities, slip \in Slips : Books(side, quantity, slip)

PerformanceSpec == PerformanceInit /\ [][PerformanceNext]_performanceVars

-----------------------------------------------------------------------------
\* The result is explained once: round trips sum to the portfolio's realized profit
\* and, with what is open, to every cost; equity is the cash put in plus profit less
\* costs; the periods of the curve sum to its change, each fill charged in one; and
\* the runs and results of the trades account for all of them (journal.cpp,
\* position.cpp, pnl.cpp, attribution.cpp).
ResultIsExplained ==
  LET first == equityCurve[1]
      last == equityCurve[Len(equityCurve)]
      within == SelectSeq(booked, LAMBDA f : first.at <= f.at /\ f.at <= last.at)
      NetOf(t) == t.gross - t.costs
      Winning == {k \in DOMAIN Trades : NetOf(Trades[k]) > 0}
      WinRuns == {n \in 0..Len(Trades) :
                    \E from \in 0..Len(Trades) - n : from + 1..from + n \subseteq Winning}
  IN  /\ Total(Trades, LAMBDA t : t.gross) = holding.realized
      /\ Total(Trades, LAMBDA t : t.costs) + OpenAndTrades.costs = Scale * Len(booked) * FillCost
      /\ OpenAndTrades.quantity = Total(booked, LAMBDA f : f.delta)
      /\ Scale * (Equity(holding, marked.price) - InitialCash)
           = holding.realized + Unrealized(holding, marked.price) - Scale * holding.costs
      /\ equityCurve # <<>> =>
           /\ Total(Periods, LAMBDA p : p.costs) = 0 - Scale * FillCost *
                (IF Len(equityCurve) > 1 THEN Len(within) ELSE 0)
           /\ (\A k \in DOMAIN booked : booked[k].at \notin {first.at, last.at}) =>
                Total(Periods, LAMBDA p : Gross(p) + p.costs) = Scale * (last.equity - first.equity)
      /\ Statistics.wins + Statistics.losses + Statistics.scratches = Len(Trades)
      /\ Statistics.profit - Statistics.loss = Total(Trades, NetOf)
      /\ \A n \in 0..Len(Trades) : n \in WinRuns <=> n <= Statistics.longestWins

\* The drawdowns are those of the curve: the worst is the largest loss from any
\* earlier peak, an episode lasts from a peak to the first point that is not below it,
\* and over a window as long as the curve the rolling one is the same (drawdown.cpp).
DrawdownFollowsCurve ==
  LET n == Len(equityCurve)
      E(k) == equityCurve[k].equity
      PeakAt(k) == CHOOSE e \in {E(j) : j \in 1..k} : \A j \in 1..k : E(j) <= e
      Lost(k) == [lost |-> PeakAt(k) - E(k), of |-> PeakAt(k)]
      Under == {k \in 1..n : E(k) < PeakAt(k)}
      Recoveries == {k \in 2..n : k - 1 \in Under /\ k \notin Under}
  IN  (\A k \in 1..n : E(k) > 0) =>
        /\ \A k \in 1..n : ~Deeper(Lost(k), drawdown.worst)
        /\ drawdown.worst.lost > 0 => \E k \in 1..n : ~Deeper(drawdown.worst, Lost(k))
        /\ n > 0 => drawdown.inEpisode = (n \in Under)
        /\ Len(drawdown.episodes) = Cardinality(Recoveries)
        /\ \A i \in DOMAIN drawdown.episodes :
             LET ep == drawdown.episodes[i]
             IN  \A k \in 1..n : (ep.peakTime < equityCurve[k].at /\ equityCurve[k].at < ep.recovered)
                                  => ep.trough <= E(k) /\ E(k) < ep.peak
        /\ drawdown.longest > 0 => \E from \in 1..n :
             from + drawdown.longest - 1 <= n /\ from..from + drawdown.longest - 1 \subseteq Under
        /\ n > 0 => ~Deeper(drawdown.worst, RollingDrawdown(equityCurve, n))
                    /\ ~Deeper(RollingDrawdown(equityCurve, n), drawdown.worst)

\* "Every component sums to the reported change in equity" (pnl.hpp:17): the residual
\* of a series whose fills lie strictly inside it is zero.
DecompositionCloses ==
  LET first == equityCurve[1]
      last == equityCurve[Len(equityCurve)]
  IN  (Len(equityCurve) > 1 /\ \A k \in DOMAIN booked : booked[k].at \notin {first.at, last.at}) =>
        Total(Periods, Net) = Scale * (last.equity - first.equity)
=============================================================================
