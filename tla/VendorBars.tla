----------------------------- MODULE VendorBars -----------------------------
(***************************************************************************)
(* Bars from Alpaca (src/market/alpaca.cpp) behind the entitlement gate    *)
(* (src/market/provider.cpp): what the provider may serve and until when,  *)
(* and the paged request that is answered as a whole or not at all.  The   *)
(* vendor groups its rows by symbol and stamps them with the left edge.    *)
(* Times are minutes; a bar is one minute.  The fetch does not consult the *)
(* gate: its caller does, or does not.                                     *)
(***************************************************************************)
EXTENDS Integers, Sequences, FiniteSets, SequencesExt

CONSTANTS VendorRows,  \* [symbol, from]: what the vendor has, symbol after symbol, by left edge
          BarRanges,   \* [begin, end]: half-open ranges asked for
          Clocks,      \* instants of the calls, positive; 0 is kNoTimestamp
          EndDelay,    \* AlpacaConfig::historical_end_delay
          PageLimit,   \* AlpacaConfig::page_limit
          MaxPages     \* kMaxPages

\* The delay of fifteen minutes is longer than a bar.
ASSUME VendorBarsAssumption == EndDelay > 1 /\ PageLimit > 0 /\ MaxPages > 0

VARIABLES entitled,    \* AlpacaConfig: the feed, and whether it is entitled to realtime data
          report,      \* the last EntitlementReport, <<>> before
          fetch,       \* the call of fetch_bars(): where it is, when it began, its page token,
                       \* pages and bars
          clock,       \* the vendor's time
          stuck        \* whether the vendor returns one token for ever

vendorBarsVars == <<entitled, report, fetch, clock, stuck>>

Forever == 1000000
ValidRange(range) == range.begin < range.end
Closed(row) == [symbol |-> row.symbol, at |-> row.from + 1]

\* operator<: by close time, then by instrument.
Earlier(a, b) == a.at < b.at \/ (a.at = b.at /\ a.symbol < b.symbol)

-----------------------------------------------------------------------------
(* The gate.                                                               *)
Capabilities ==
  {"HistoricalBars", "HistoricalTrades", "HistoricalQuotes", "CorporateActions"}
    \cup (IF entitled.feed = "sip" THEN {"ConsolidatedFeed"} ELSE {})
    \cup (IF entitled.realtime THEN {"RealtimeBars", "RealtimeTrades", "RealtimeQuotes"} ELSE {})

\* Slip: what happened until now is available.
AvailableUntilNow(now) == IF entitled.realtime \/ now = 0 THEN Forever ELSE now

AvailableThrough(now) == IF entitled.realtime \/ now = 0 THEN Forever ELSE now - EndDelay

\* EntitlementGate::evaluate(): the capabilities first, then the window; a range that
\* is not valid is not looked at.
Evaluate(required, range, now) ==
  /\ report' = <<[required |-> required, range |-> range, now |-> now,
                  granted |-> /\ required \subseteq Capabilities
                              /\ ValidRange(range) => range.end <= AvailableThrough(now)]>>
  /\ UNCHANGED <<entitled, fetch, clock, stuck>>

-----------------------------------------------------------------------------
(* The vendor has the past, withholds what is newer than the delay from    *)
(* those that are not entitled to it, and cuts the rest into pages; the    *)
(* token is a position.  Its time stands still during a call.              *)
Serves(range) ==
  SelectSeq(VendorRows, LAMBDA row : /\ range.begin <= row.from /\ row.from < range.end
                                     /\ row.from < clock - (IF entitled.realtime THEN 0 ELSE EndDelay))

\* The page of a token, and the token it names; 0 is none.
PageOf(range, token) ==
  LET rows == Serves(range)
      more == token + PageLimit < Len(rows)
  IN  [rows |-> SubSeq(rows, token + 1, IF more THEN token + PageLimit ELSE Len(rows)),
       next |-> IF stuck /\ token > 0 THEN token ELSE IF more THEN token + PageLimit ELSE 0]

\* The token is never another again.
VendorSticks ==
  /\ ~stuck
  /\ stuck' = TRUE
  /\ UNCHANGED <<entitled, report, fetch, clock>>

VendorTime ==
  /\ fetch.status # "asking"
  /\ clock' \in {now \in Clocks : now > clock}
  /\ UNCHANGED <<entitled, report, fetch, stuck>>

-----------------------------------------------------------------------------
(* fetch_bars().                                                           *)
NoFetch == [status |-> "idle", range |-> [begin |-> 0, end |-> 0], token |-> 0, pages |-> 0, bars |-> <<>>,
            at |-> 0]

\* A range that is not valid is refused before anything is sent (so is a request
\* without instruments, or of bars that are not of one minute).
AskBars(range) ==
  /\ fetch.status # "asking"
  /\ fetch' = [NoFetch EXCEPT !.range = range, !.at = clock,
                              !.status = IF ValidRange(range) THEN "asking" ELSE "failed"]
  /\ UNCHANGED <<entitled, report, clock, stuck>>

\* Slip: the pages are taken for chronological when put together.
AsReceived(bars) == bars

SortedByClose(bars) == SortSeq(bars, Earlier)

\* parse_alpaca_bars(): every row is stamped with its close.
Parsed(rows) == SortedByClose([i \in DOMAIN rows |-> Closed(rows[i])])

\* A page is added; without a token, or when there were too many, the rest is sorted
\* and returned.
PageArrives ==
  LET page == PageOf(fetch.range, fetch.token)
      pages == fetch.pages + 1
      bars == fetch.bars \o Parsed(page.rows)
      done == page.next = 0 \/ pages = MaxPages
  IN  /\ fetch.status = "asking"
      /\ fetch' = [fetch EXCEPT !.pages = pages, !.token = page.next,
                                !.status = IF done THEN "answered" ELSE @,
                                !.bars = IF done THEN SortedByClose(bars) ELSE bars]
      /\ UNCHANGED <<entitled, report, clock, stuck>>

\* Slip: the pages before an error are an answer.
KeepsWhatCame == fetch' = [fetch EXCEPT !.status = "answered", !.token = 0]

DropsWhatCame == fetch' = [fetch EXCEPT !.status = "failed", !.bars = <<>>]

\* The transport fails, the vendor answers with an error, or a row is malformed.
PageFails ==
  /\ fetch.status = "asking"
  /\ DropsWhatCame
  /\ UNCHANGED <<entitled, report, clock, stuck>>

-----------------------------------------------------------------------------
VendorBarsInit ==
  /\ entitled \in [feed : {"sip", "iex"}, realtime : BOOLEAN]
  /\ report = <<>>
  /\ fetch = NoFetch
  /\ clock \in {now \in Clocks : \A other \in Clocks : now <= other}
  /\ stuck = FALSE

Needs == {{"HistoricalBars"}, {"HistoricalBars", "ConsolidatedFeed"}, {"RealtimeBars"}}

VendorBarsNext ==
  \/ \E required \in Needs, range \in BarRanges, now \in {0, clock} : Evaluate(required, range, now)
  \/ \E range \in BarRanges : AskBars(range)
  \/ PageArrives
  \/ PageFails
  \/ VendorSticks
  \/ VendorTime

-----------------------------------------------------------------------------
\* An answer is in order, repeats nothing and has only bars of the range, whatever
\* page a row came on, and a failed call leaves none; of a range that is past and that
\* the gate had granted it has every bar, since nothing of it was withheld.  Left out
\* are an answer cut off at kMaxPages, which the code returns like any other, and a
\* gate asked without an instant (alpaca.cpp:166-250, provider.cpp:79-117).
BarsAreWholeOrNone ==
  LET bars == fetch.bars
      asked == {row \in Range(VendorRows) : fetch.range.begin <= row.from /\ row.from < fetch.range.end}
      Granted(r) == /\ r.granted /\ r.range = fetch.range
                    /\ 0 < r.now /\ r.now <= fetch.at /\ fetch.range.end <= fetch.at
  IN  /\ fetch.status = "failed" => bars = <<>>
      /\ fetch.status = "answered" /\ fetch.token = 0 =>
           /\ Range(bars) \subseteq {Closed(row) : row \in asked}
           /\ \A i \in 2..Len(bars) : Earlier(bars[i - 1], bars[i])
           /\ (\E r \in Range(report) : Granted(r)) => {Closed(row) : row \in asked} \subseteq Range(bars)
=============================================================================
