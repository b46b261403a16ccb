-------------------------- MODULE ExecutionQuality --------------------------
(***************************************************************************)
(* How well trades were executed (src/attribution/execution_quality.cpp):  *)
(* the fills of one decision against the prices it is measured by, the     *)
(* summary of many trades, and how the edge decays with the delay.         *)
(* Optional values are sequences of at most one; costs are fractions       *)
(* [top, of] with of > 0, without the factor for basis points.             *)
(***************************************************************************)
EXTENDS Integers, Sequences, FiniteSets, FiniteSetsExt, SequencesExt

CONSTANTS TradeOffers,  \* fills of one trade, its benchmarks, the quantity sought, and the
                        \* realized and expected edge its caller knows
          Horizons,     \* of signal_decay(): delays, ascending
          MaxTrades     \* bound: trades analyzed

VARIABLES analyzed,     \* TradeExecutionQuality of the trades, in order
          offered       \* what each was analyzed from

qualityVars == <<analyzed, offered>>

SignOf(side) == IF side = "Buy" THEN 1 ELSE -1
Fraction(top, of) == [top |-> top, of |-> of]
Plus(a, b) == Fraction(a.top * b.of + b.top * a.of, a.of * b.of)
AtMost(a, b) == a.top * b.of <= b.top * a.of
Same(a, b) == AtMost(a, b) /\ AtMost(b, a)
SumFractions(s) == FoldLeft(Plus, Fraction(0, 1), s)
Known(s, cost) == SelectSeq(s, LAMBDA t : t[cost] # <<>>)

-----------------------------------------------------------------------------
\* What price, a fraction, costs against a benchmark: positive is always a cost.
CostOf(price, benchmark, side) ==
  IF benchmark <= 0 THEN Fraction(0, 1)
  ELSE Fraction(SignOf(side) * (price.top - benchmark * price.of), benchmark * price.of)

\* analyze_trade() fails unless the fills are those of one trade.
Analyzable(offer) ==
  /\ offer.fills # <<>>
  /\ \A i \in DOMAIN offer.fills :
       offer.fills[i].instrument = offer.fills[1].instrument /\ offer.fills[i].side = offer.fills[1].side

Positive(cost) == IF cost.top > 0 THEN cost ELSE Fraction(0, 1)
\* Slip: execution is measured from the decision and not from the arrival.
ExecutionFromDecision(average, offer, side) ==
  [i \in DOMAIN offer.decision |-> CostOf(average, offer.decision[i], side)]

ExecutionCost(average, offer, side) ==
  [i \in DOMAIN offer.arrival |-> CostOf(average, offer.arrival[i], side)]

DelayCost(offer, side) ==
  [i \in DOMAIN offer.decision \cap DOMAIN offer.arrival |->
    CostOf(Fraction(offer.arrival[i], 1), offer.decision[i], side)]

\* Excursions of what is held, from the average fill: cost_bps turned to gain.
Favorable(average, offer, side) ==
  [i \in DOMAIN offer.best |->
    Positive(Fraction(SignOf(side) * (offer.best[i] * average.of - average.top), average.top))]
Adverse(average, offer, side) ==
  [i \in DOMAIN offer.worst |->
    Positive(Fraction(SignOf(side) * (average.top - offer.worst[i] * average.of), average.top))]

Analysis(offer) ==
  LET fills == offer.fills
      side == fills[1].side
      filled == FoldLeft(LAMBDA sum, f : sum + f.quantity, 0, fills)
      notional == FoldLeft(LAMBDA sum, f : sum + f.quantity * f.price, 0, fills)
      average == Fraction(notional, filled)
      times == {fills[i].at : i \in DOMAIN fills}
  IN  [side |-> side, quantity |-> filled, average |-> average,
       \* Of the fill listed first, whichever that is.
       decided |-> fills[1].decided, firstFill |-> Min(times), lastFill |-> Max(times),
       delay |-> DelayCost(offer, side),
       execution |-> ExecutionCost(average, offer, side),
       shortfall |-> [i \in DOMAIN offer.decision |-> CostOf(average, offer.decision[i], side)],
       efficiency |-> IF offer.sought > 0 THEN Fraction(Min({filled, offer.sought}), offer.sought)
                      ELSE Fraction(1, 1),
       favorable |-> Favorable(average, offer, side),
       adverse |-> Adverse(average, offer, side),
       holding |-> IF fills[1].decided > 0 THEN Max(times) - fills[1].decided ELSE 0,
       realized |-> offer.realized, expected |-> offer.expected]

-----------------------------------------------------------------------------
(* summarize() of trades s.                                                *)

\* Slip: those that were not measured weigh in the average.
EveryWeight(s, cost) == FoldLeft(LAMBDA sum, t : sum + t.quantity, 0, s)

WeightOf(s, cost) == FoldLeft(LAMBDA sum, t : sum + t.quantity, 0, Known(s, cost))

Weighted(s, cost) ==
  SumFractions([i \in DOMAIN Known(s, cost) |->
    LET t == Known(s, cost)[i] IN Fraction(t[cost][1].top * t.quantity, t[cost][1].of)])

\* Weighted by quantity over the trades that were measured; none leaves zero.
AverageOf(s, cost) ==
  IF WeightOf(s, cost) = 0 THEN Fraction(0, 1)
  ELSE LET sum == Weighted(s, cost) IN Fraction(sum.top, sum.of * WeightOf(s, cost))

\* The shortfalls sorted: the middle one, the upper of two, and the last.
Shortfalls(s) == SortSeq([i \in DOMAIN Known(s, "shortfall") |-> Known(s, "shortfall")[i].shortfall[1]],
                         LAMBDA a, b : AtMost(a, b) /\ ~AtMost(b, a))

Summary(s) ==
  [delay |-> AverageOf(s, "delay"),
   execution |-> AverageOf(s, "execution"),
   \* A trade without one counts with its weight, as zero.
   shortfall |-> IF s = <<>> THEN Fraction(0, 1)
                 ELSE LET sum == Weighted(s, "shortfall")
                      IN  Fraction(sum.top, sum.of * EveryWeight(s, "shortfall")),
   median |-> IF Shortfalls(s) = <<>> THEN Fraction(0, 1)
              ELSE Shortfalls(s)[Len(Shortfalls(s)) \div 2 + 1],
   worst |-> IF Shortfalls(s) = <<>> THEN Fraction(0, 1) ELSE Last(Shortfalls(s)),
   belowEdge |-> Cardinality({i \in DOMAIN s : s[i].realized # <<>> /\ s[i].expected # <<>>
                                                /\ s[i].realized[1] < s[i].expected[1]})]

-----------------------------------------------------------------------------
(* signal_decay(): trades by the delay from the decision to the first fill. *)
DelayTo(t) == IF t.decided > 0 THEN t.firstFill - t.decided ELSE 0

\* Slip: a trade counts in every bucket its delay is within.
CumulativeBucket(s, h) ==
  {i \in DOMAIN s : s[i].realized # <<>> /\ DelayTo(s[i]) <= Horizons[h]}

DecayBucket(s, h) ==
  {i \in DOMAIN s : /\ s[i].realized # <<>>
                    /\ DelayTo(s[i]) <= Horizons[h]
                    /\ \A earlier \in 1..(h - 1) : DelayTo(s[i]) > Horizons[earlier]}

EdgeIn(s, h) == Fraction(MapThenSumSet(LAMBDA i : s[i].realized[1], DecayBucket(s, h)),
                         Max({1, Cardinality(DecayBucket(s, h))}))

\* The first horizon with trades whose mean fell below half the first's.
HalfLife(s) ==
  LET first == EdgeIn(s, 1)
      Decayed == {h \in 2..Len(Horizons) :
                    /\ DecayBucket(s, h) # {}
                    /\ 2 * EdgeIn(s, h).top * first.of < first.top * EdgeIn(s, h).of}
  IN  IF first.top > 0 /\ Decayed # {} THEN <<Horizons[Min(Decayed)]>> ELSE <<>>

-----------------------------------------------------------------------------
QualityInit == analyzed = <<>> /\ offered = <<>>

\* A failed analysis leaves nothing behind.
AnalyzeTrade(offer) ==
  /\ Len(analyzed) < MaxTrades
  /\ Analyzable(offer)
  /\ analyzed' = Append(analyzed, Analysis(offer))
  /\ offered' = Append(offered, offer)

QualityNext == \E offer \in TradeOffers : AnalyzeTrade(offer)

-----------------------------------------------------------------------------
\* Costs are laid at the right door: what the delay and the execution cost compounds
\* to the shortfall, the order of the fills of one decision is of no account, the
\* excursions span the prices the position saw, an average lies among the trades
\* that were measured, half of them are on either side of the median, and every
\* trade with an edge counts once in the decay, which halves only what has a second
\* bucket (execution_quality.cpp:79-325).
TradesAreMeasured ==
  LET Grown(t, cost) == Fraction(cost.of + SignOf(t.side) * cost.top, cost.of)
      Times(a, b) == Fraction(a.top * b.top, a.of * b.of)
      OneDecision(offer) ==
        \A i \in DOMAIN offer.fills : offer.fills[i].decided = offer.fills[1].decided
      summary == Summary(analyzed)
      Among(average, cost) ==
        LET measured == Known(analyzed, cost)
        IN  measured # <<>> =>
              /\ \E i \in DOMAIN measured : AtMost(measured[i][cost][1], average)
              /\ \E i \in DOMAIN measured : AtMost(average, measured[i][cost][1])
      costs == Shortfalls(analyzed)
      Edged == {i \in DOMAIN analyzed :
                  analyzed[i].realized # <<>> /\ DelayTo(analyzed[i]) <= Last(Horizons)}
  IN  analyzed # <<>> =>
      /\ \A i \in DOMAIN analyzed :
           LET t == analyzed[i]
               offer == offered[i]
           IN  /\ t.delay # <<>> =>
                    Same(Times(Grown(t, t.delay[1]), Grown(t, t.execution[1])),
                         Grown(t, t.shortfall[1]))
               /\ OneDecision(offer) => Analysis([offer EXCEPT !.fills = Reverse(@)]) = t
               /\ offer.best # <<>> /\ offer.worst # <<>> =>
                    AtMost(Fraction(SignOf(t.side) * (offer.best[1] - offer.worst[1]) * t.average.of,
                                    t.average.top),
                           Plus(t.favorable[1], t.adverse[1]))
      /\ Among(summary.delay, "delay")
      /\ Among(summary.execution, "execution")
      /\ costs # <<>> =>
           /\ \A i \in DOMAIN costs : AtMost(costs[i], summary.worst)
           /\ 2 * Cardinality({i \in DOMAIN costs : AtMost(costs[i], summary.median)}) >= Len(costs)
           /\ 2 * Cardinality({i \in DOMAIN costs : AtMost(summary.median, costs[i])}) >= Len(costs)
      /\ MapThenSumSet(LAMBDA h : Cardinality(DecayBucket(analyzed, h)), DOMAIN Horizons)
           = Cardinality(Edged)
      /\ HalfLife(analyzed) # <<>> =>
           \E i, j \in Edged : /\ DelayTo(analyzed[i]) < DelayTo(analyzed[j])
                                /\ analyzed[j].realized[1] < analyzed[i].realized[1]
=============================================================================
