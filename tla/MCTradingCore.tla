--------------------------- MODULE MCTradingCore ----------------------------
(* Small instances of TradingCore for TLC. *)
EXTENDS TradingCore

CONSTANT i1

MarketDay == [kind |-> "market", tif |-> "day", limit |-> 0, stop |-> 0]
MarketIoc == [MarketDay EXCEPT !.tif = "ioc"]
MarketFok == [MarketDay EXCEPT !.tif = "fok"]
LimitGtc(p) == [kind |-> "limit", tif |-> "gtc", limit |-> p, stop |-> 0]
StopDay(p) == [kind |-> "stop", tif |-> "day", limit |-> 0, stop |-> p]

BarOf(close, volume) == [close |-> close, volume |-> volume]
QuoteOf(bid, ask, size) == [bid |-> bid, ask |-> ask, bidSize |-> size, askSize |-> size]

\* Generous limits, and limits that let the position reach three lots at 10 or 12.
WideLimits == [maxOrderNotional |-> 1000, maxPositionNotional |-> 1000, maxGrossPct |-> 1000,
               maxNetPct |-> 1000, maxConcentrationPct |-> 1000, collarPct |-> 50,
               maxStaleness |-> 2, maxDrawdownPct |-> 90, maxTurnoverPct |-> 0,
               allowShort |-> TRUE]
ThreeLots == [WideLimits EXCEPT !.maxPositionNotional = 36]
LongOnly == [WideLimits EXCEPT !.allowShort = FALSE]

OneInstrument == {i1}
AllTerms == {MarketDay, MarketIoc, MarketFok, LimitGtc(10), StopDay(12)}
RestingTerms == {MarketDay, LimitGtc(8)}
MarketOnly == {MarketDay}
IocOnly == {MarketIoc}

MovingBars == {BarOf(10, 0), BarOf(10, 4), BarOf(12, 2)}
FlatBars == {BarOf(10, 4)}
ThinBars == {BarOf(10, 2)}
SomeQuotes == {QuoteOf(10, 12, 1), QuoteOf(8, 10, 2), QuoteOf(10, 10, 0)}
NoQuotes == {}
None == {}

Decisions == 0..(MaxTime + 3)
Fills == 0..MaxTime
AnyPrice == 1..40
=============================================================================
