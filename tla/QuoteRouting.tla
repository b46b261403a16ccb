---------------------------- MODULE QuoteRouting ----------------------------
(***************************************************************************)
(* The book of quotes of one instrument and what the venue is given to     *)
(* match against (QuoteBook and QuoteRouter, src/execution/quote_book.cpp). *)
(* A halt comes out of band; bars may stand in for a missing quote.        *)
(***************************************************************************)
EXTENDS Integers, Sequences, FiniteSets

CONSTANTS Touches,          \* records [bid, ask]
          StalenessBudget,  \* of the tier: how old a quote may be
          RejectCrossed,    \* QuoteBookConfig::reject_crossed
          MaxQuoteTime, MaxQuotes  \* bounds

\* A budget and an instant are not negative; a price is a number.
ASSUME QuoteAssumption ==
  /\ Touches \subseteq [bid : Nat, ask : Nat]
  /\ StalenessBudget \in Nat /\ RejectCrossed \in BOOLEAN /\ MaxQuoteTime \in Nat

VARIABLES quoteNow,      \* the clock of whoever reads
          entry,         \* QuoteBook's entry of the instrument, or NoEntry
          bookStats,     \* QuoteBookStats' updates
          arrivals       \* history: every quote that came, with its fate

quoteVars == <<quoteNow, entry, bookStats, arrivals>>

TradingStates == {"trading", "halted", "closed", "auction"}
NoQuote == [bid |-> 0, ask |-> 0, at |-> -1]
NoEntry == [known |-> FALSE, present |-> FALSE, quote |-> NoQuote, market |-> "closed"]

\* entries_[]: an entry is made on first use, with a market that trades.
Entry == IF entry.known THEN entry
         ELSE [known |-> TRUE, present |-> FALSE, quote |-> NoQuote, market |-> "trading"]

Crossed(q) == q.ask < q.bid

-----------------------------------------------------------------------------
\* Slip: whatever arrives is the current quote.
AlwaysInOrder(q) == TRUE

\* One of the same time replaces the one held.
QuoteInOrder(q) == ~Entry.present \/ q.at >= Entry.quote.at

\* update(): an update that is refused leaves the quote, not the entry, as it was.
QuoteArrives(touch, at) ==
  LET q == [bid |-> touch.bid, ask |-> touch.ask, at |-> at]
      kept == QuoteInOrder(q) /\ ~(Crossed(q) /\ RejectCrossed)
  IN  /\ Len(arrivals) < MaxQuotes
      /\ entry' = IF kept THEN [Entry EXCEPT !.quote = q, !.present = TRUE] ELSE Entry
      /\ bookStats' =
           [accepted |-> bookStats.accepted + (IF kept THEN 1 ELSE 0),
            late     |-> bookStats.late + (IF QuoteInOrder(q) THEN 0 ELSE 1),
            crossed  |-> bookStats.crossed + (IF QuoteInOrder(q) /\ Crossed(q) THEN 1 ELSE 0)]
      /\ arrivals' = Append(arrivals, [quote |-> q, kept |-> kept])
      /\ UNCHANGED quoteNow

\* set_trading_state(): never inferred from a gap.
MarketTurns(to) ==
  /\ entry' = [Entry EXCEPT !.market = to]
  /\ UNCHANGED <<quoteNow, bookStats, arrivals>>

QuoteClock ==
  /\ quoteNow < MaxQuoteTime /\ quoteNow' = quoteNow + 1
  /\ UNCHANGED <<entry, bookStats, arrivals>>

\* reset().
ForgetQuotes ==
  /\ entry' = NoEntry /\ bookStats' = [accepted |-> 0, late |-> 0, crossed |-> 0]
  /\ arrivals' = <<>>
  /\ UNCHANGED quoteNow

-----------------------------------------------------------------------------
(* What a reader is told at "quoteNow".                                    *)

\* A quote from the future of the reader is lookahead, as unusable as an old one.
StaleAt(age) == age < 0 \/ age > StalenessBudget

\* state_at().
QuoteCondition ==
  IF ~entry.present THEN "absent"
  ELSE IF StaleAt(quoteNow - entry.quote.at) THEN "stale"
  ELSE IF Crossed(entry.quote) THEN "crossed"
  ELSE IF entry.quote.ask = entry.quote.bid THEN "locked" ELSE "normal"

\* QuoteState::executable().
Executable ==
  entry.present /\ entry.market = "trading" /\ QuoteCondition \in {"normal", "locked"}

\* refusal_reason(): the market's state is named before the quote's.
RefusalReason ==
  IF ~entry.present THEN "absent"
  ELSE IF entry.market # "trading" THEN entry.market
  ELSE IF QuoteCondition \in {"crossed", "stale"} THEN QuoteCondition ELSE "executable"

\* route(): a touch, and no interval volume.
RouteQuote ==
  IF Executable
  THEN [source |-> "quote", bid |-> entry.quote.bid, ask |-> entry.quote.ask, volumeKnown |-> FALSE]
  ELSE [source |-> "none", bid |-> 0, ask |-> 0, volumeKnown |-> FALSE]

\* route_from_bar(): a bar knows no spread and no halt.
RouteBar(close) == [source |-> "bar", bid |-> close, ask |-> close, volumeKnown |-> TRUE]

HaltSeen == entry.present /\ entry.market = "halted"

\* route_preferring_quote(): the bar lends the quote its volume, or stands in for it.
RoutePreferringQuote(close) ==
  IF Executable THEN [RouteQuote EXCEPT !.volumeKnown = TRUE]
  ELSE IF HaltSeen THEN RouteQuote
  ELSE RouteBar(close)

-----------------------------------------------------------------------------
QuoteInit ==
  /\ quoteNow = 0 /\ entry = NoEntry
  /\ bookStats = [accepted |-> 0, late |-> 0, crossed |-> 0]
  /\ arrivals = <<>>

QuoteNext ==
  \/ \E touch \in Touches, at \in 0..MaxQuoteTime : QuoteArrives(touch, at)
  \/ \E to \in TradingStates : MarketTurns(to)
  \/ QuoteClock
  \/ ForgetQuotes

QuoteSpec == QuoteInit /\ [][QuoteNext]_quoteVars

-----------------------------------------------------------------------------
\* What an order may execute against is a quote that arrived, none that arrived
\* was later than it, and it is neither of the future nor too old, nor crossed;
\* once a quote is known no bar stands in while the instrument is halted; every
\* arrival is counted once, as kept, late or crossed (quote_book.cpp).
RoutedQuoteIsCurrent ==
  LET q == entry.quote
      Ordered(i) == \A j \in 1..i-1 : arrivals[j].kept =>
                      arrivals[j].quote.at <= arrivals[i].quote.at
      kept == {i \in DOMAIN arrivals : arrivals[i].kept}
  IN  /\ RouteQuote.source = "quote" =>
           /\ \E i \in kept : arrivals[i].quote = q /\ (\A j \in kept : j <= i)
           /\ \A i \in DOMAIN arrivals : arrivals[i].quote.at <= q.at
                \/ arrivals[i].quote.bid > arrivals[i].quote.ask
           /\ q.at \in (quoteNow - StalenessBudget)..quoteNow /\ q.bid <= q.ask
           /\ entry.market = "trading" /\ RefusalReason = "executable"
      /\ (kept # {} /\ entry.market = "halted") => RoutePreferringQuote(1).source = "none"
      /\ \A i \in kept : Ordered(i)
      /\ bookStats.accepted = Cardinality(kept)
      /\ RejectCrossed => Len(arrivals) = bookStats.accepted + bookStats.late + bookStats.crossed
=============================================================================
