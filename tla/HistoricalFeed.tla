--------------------------- MODULE HistoricalFeed ---------------------------
(***************************************************************************)
(* How recorded and live market data become the events of a session: the   *)
(* symbology and the quote normaliser (src/market/symbol_mapper.cpp), the  *)
(* vendor's client with its spend guard and its decoder (src/databento),   *)
(* the replay stream with its session events (src/market/source.cpp) and   *)
(* the validator of such a stream (src/market/validator.cpp).  Instants    *)
(* are numbers; a ticker stands for the instrument it is interned as.      *)
(***************************************************************************)
EXTENDS Integers, Sequences, FiniteSets, SequencesExt

CONSTANTS MappingOffers,   \* records [ticker, vendor, from, to]
          QuotePayloads,   \* sequences of records [vendor, at, bid, ask]
          BarPayloads,     \* sequences of records [vendor, at, close, volume]
          CostAnswers,     \* what the vendor's estimator answers, or NoCost
          MaxSpend,        \* max_spend_usd
          FeedSessions,    \* the calendar: a sequence of [open, close]
          Timeframe, JumpRatio, DeadAfter,   \* ValidatorConfig
          MaxRequestsSent,
          MaxPayloads      \* bounds on the requests and on the live payloads

Absent == -1    \* a field a record lacks
NoCost == -2    \* an answer without a cost field, or no answer

VARIABLES mappings,     \* SymbolMapper::mappings_
          quotes, barsIn,\* what was decoded last
          requests,     \* history: what the vendor was asked for, estimates and downloads
          replay,       \* the events of the replay: <<>> none yet, or Unreplayable
          verdict,      \* ValidationReport of the replay: codes of its issues
          liveQueue,    \* decoded payloads of the live transport, undecodable ones as Unreplayable
          livePending, lastEmitted, emitted, decodedLive   \* LiveQuoteSource, and histories

feedVars == <<mappings, quotes, barsIn, requests, replay, verdict>>
liveFeedVars == <<liveQueue, livePending, lastEmitted, emitted, decodedLive>>
historicalVars == <<feedVars, liveFeedVars>>

Unreplayable == [failed |-> TRUE]

-----------------------------------------------------------------------------
(* SymbolMapper: windows of one ticker never overlap.                      *)

Overlaps(m, other) == m.ticker = other.ticker /\ m.from < other.to /\ other.from < m.to

AddMapping(m) ==
  /\ mappings' = IF m.to <= m.from \/ \E i \in DOMAIN mappings : Overlaps(m, mappings[i])
                 THEN mappings ELSE Append(mappings, m)
  /\ mappings' # mappings
  /\ UNCHANGED <<quotes, barsIn, requests, replay, verdict, liveFeedVars>>

\* The end, d1, is exclusive.
Covers(m, at) == m.from <= at /\ at < m.to

\* resolve_vendor_id(): the first mapping of the vendor's id then valid.
Resolve(vendor, at) ==
  LET valid == {i \in DOMAIN mappings : mappings[i].vendor = vendor /\ Covers(mappings[i], at)}
  IN  IF vendor = 0 \/ valid = {} THEN {}
      ELSE {mappings[CHOOSE i \in valid : \A j \in valid : i <= j].ticker}

-----------------------------------------------------------------------------
(* Decoder.  One record that lacks a field fails the whole payload; one    *)
(* that is unmapped or unusable is left out.                               *)

Usable(raw) ==
  /\ raw.at > 0 /\ Resolve(raw.vendor, raw.at) # {}
  /\ raw.bid > 0 /\ raw.ask > 0 /\ raw.bid <= raw.ask

AsQuote(raw) ==
  [kind |-> "quote", at |-> raw.at, ticker |-> CHOOSE t \in Resolve(raw.vendor, raw.at) : TRUE,
   bid |-> raw.bid, ask |-> raw.ask]

Chronological(events) == \A i \in 2..Len(events) : events[i - 1].at <= events[i].at

\* decode_quotes(): a batch that is not in order is refused, never sorted.
DecodeQuotes(payload) ==
  LET kept == SelectSeq(payload, Usable)
      decoded == [i \in DOMAIN kept |-> AsQuote(kept[i])]
  IN  IF (\E i \in DOMAIN payload : Absent \in {payload[i].at, payload[i].bid}) \/ ~Chronological(decoded)
      THEN Unreplayable ELSE [failed |-> FALSE, events |-> decoded]

\* from_left_edge(): a bar exists from its close.
AsBar(raw) ==
  [kind |-> "bar", at |-> raw.at + Timeframe, from |-> raw.at,
   ticker |-> CHOOSE t \in Resolve(raw.vendor, raw.at) : TRUE,
   close |-> raw.close, volume |-> raw.volume]

\* decode_bars(): an unusable price fails the payload too; bars are sorted.
DecodeBars(payload) ==
  LET mapped(raw) == Resolve(raw.vendor, raw.at) # {}
      kept == SelectSeq(payload, mapped)
      earlier(bar, other) ==
        bar.at < other.at \/ (bar.at = other.at /\ bar.ticker <= other.ticker)
  IN  IF \/ \E i \in DOMAIN payload : payload[i].at = Absent
         \/ \E i \in DOMAIN kept : kept[i].close <= 0
      THEN Unreplayable
      ELSE [failed |-> FALSE,
            events |-> SortSeq([i \in DOMAIN kept |-> AsBar(kept[i])], earlier)]

-----------------------------------------------------------------------------
(* DatabentoProvider.  A failed download leaves the caller what it had.    *)

\* enforce_spend_guard(), without the override.
Approved(cost) == cost # NoCost /\ cost >= 0 /\ cost <= MaxSpend

Kept(decoded, before) == IF decoded.failed THEN before ELSE decoded.events

Asked == Len(requests) < MaxRequestsSent

\* The guard runs before the download.
FetchQuotes(payload, cost) ==
  /\ Asked /\ replay = <<>> /\ quotes = <<>>
  /\ requests' = Append(requests, "estimate") \o (IF Approved(cost) THEN <<"download">> ELSE <<>>)
  /\ quotes' = IF Approved(cost) THEN Kept(DecodeQuotes(payload), quotes) ELSE quotes
  /\ UNCHANGED <<mappings, barsIn, replay, verdict, liveFeedVars>>

\* No guard runs, and the estimator is not asked.
FetchBars(payload) ==
  /\ Asked /\ replay = <<>> /\ barsIn = <<>>
  /\ barsIn' = Kept(DecodeBars(payload), barsIn)
  /\ requests' = Append(requests, "download")
  /\ UNCHANGED <<mappings, quotes, replay, verdict, liveFeedVars>>

-----------------------------------------------------------------------------
(* merge_quotes_and_bars, with_session_events, build_replay_events.        *)

\* Slip: on a tie the bar is first.
QuoteBefore(quote, bar) == quote.at < bar.at

\* On a tie the quote is first.
QuoteFirst(quote, bar) == quote.at <= bar.at

Interleaved(qs, bs) ==
  LET Rest[i \in 1..(Len(qs) + 1), j \in 1..(Len(bs) + 1)] ==
        IF i > Len(qs) THEN SubSeq(bs, j, Len(bs))
        ELSE IF j > Len(bs) THEN SubSeq(qs, i, Len(qs))
        ELSE IF QuoteFirst(qs[i], bs[j]) THEN <<qs[i]>> \o Rest[i + 1, j]
        ELSE <<bs[j]>> \o Rest[i, j + 1]
  IN  Rest[1, 1]

\* The session that contains an instant; the close is outside.
SessionAt(at) ==
  {s \in DOMAIN FeedSessions : FeedSessions[s].open <= at /\ at < FeedSessions[s].close}

Boundary(kind, at) == [kind |-> kind, at |-> at]

\* A session is opened before its first event and closed before the next one.
WithSessionEvents(events) ==
  LET Closed(acc) ==
        IF acc.in = {} THEN acc.out
        ELSE Append(acc.out, Boundary("close", FeedSessions[CHOOSE s \in acc.in : TRUE].close))
      Add(acc, event) ==
        LET session == SessionAt(event.at) IN
        IF acc.failed \/ session = {} THEN [acc EXCEPT !.failed = TRUE]
        ELSE IF session = acc.in THEN [acc EXCEPT !.out = Append(@, event)]
        ELSE [failed |-> FALSE, in |-> session,
              out |-> Closed(acc) \o
                <<Boundary("open", FeedSessions[CHOOSE s \in session : TRUE].open), event>>]
      all == FoldLeft(Add, [failed |-> FALSE, in |-> {}, out |-> <<>>], events)
  IN  IF all.failed THEN Unreplayable ELSE [failed |-> FALSE, events |-> Closed(all)]

BuildReplay ==
  /\ replay = <<>>
  /\ replay' = <<WithSessionEvents(Interleaved(quotes, barsIn))>>
  /\ UNCHANGED <<mappings, quotes, barsIn, requests, verdict, liveFeedVars>>

-----------------------------------------------------------------------------
(* DataValidator::validate, with complete sessions required: codes only.   *)

Jump(close, other) == close > JumpRatio * other \/ other > JumpRatio * close

LastBar(acc, event) == acc.last[event.ticker]

\* What one bar adds: its instrument's last bar is the empty set before the first.
BarIssues(acc, bar) ==
  UNION {LET gap == bar.at - last.at
             sameSession == SessionAt(last.at - 1) = SessionAt(bar.at) /\ SessionAt(bar.at) # {}
         IN  (IF gap = 0 THEN {"duplicate"} ELSE {})
             \cup (IF gap > Timeframe /\ sameSession THEN {"gap"} ELSE {})
             \cup (IF Jump(bar.close, last.close) THEN {"jump"} ELSE {}) :
         last \in LastBar(acc, bar)}
  \cup (IF bar.at - bar.from # Timeframe THEN {"timeframe"} ELSE {})
  \cup (IF bar.volume = 0 /\ acc.quiet[bar.ticker] + 1 = DeadAfter THEN {"zero_volume"} ELSE {})

EventIssues(acc, event) ==
  (IF event.at < acc.before THEN {"not_monotonic"} ELSE {})
  \cup (IF event.kind \in {"bar", "quote"} /\ SessionAt(event.at) = {} THEN {"outside"} ELSE {})
  \cup (IF event.kind = "quote" THEN (IF event.ask < event.bid THEN {"crossed"} ELSE {}) ELSE {})
  \cup (IF event.kind = "bar" THEN BarIssues(acc, event) ELSE {})

Validated(events) ==
  LET tickers == {event.ticker : event \in {e \in Range(events) : e.kind = "bar"}}
      Next(acc, event) ==
        LET seen == [acc EXCEPT !.issues = @ \cup EventIssues(acc, event), !.before = event.at] IN
        IF event.kind # "bar" THEN seen
        ELSE [seen EXCEPT !.last[event.ticker] = {event}, !.newest = event.ticker,
                          !.quiet[event.ticker] = IF event.volume = 0 THEN @ + 1 ELSE 0]
      start == [issues |-> {}, before |-> 0, newest |-> CHOOSE t \in tickers \cup {0} : TRUE,
                last |-> [t \in tickers \cup {0} |-> {}], quiet |-> [t \in tickers |-> 0]]
  IN  FoldLeft(Next, start, events).issues

Validate ==
  /\ replay # <<>> /\ verdict = <<>>
  /\ ~replay[1].failed
  /\ verdict' = <<Validated(replay[1].events)>>
  /\ UNCHANGED <<mappings, quotes, barsIn, requests, replay, liveFeedVars>>

-----------------------------------------------------------------------------
(* LiveQuoteSource.  A payload is decoded as it is pulled.                 *)

PushPayload(payload) ==
  /\ Len(liveQueue) + Len(decodedLive) < MaxPayloads
  /\ liveQueue' = Append(liveQueue, DecodeQuotes(payload))
  /\ UNCHANGED <<feedVars, livePending, lastEmitted, emitted, decodedLive>>

\* refill(): a bad payload is skipped, and so is one without a usable quote.
Refill ==
  /\ livePending = <<>> /\ liveQueue # <<>>
  /\ livePending' = Kept(Head(liveQueue), <<>>)
  /\ decodedLive' = Append(decodedLive, Kept(Head(liveQueue), <<>>))
  /\ liveQueue' = Tail(liveQueue)
  /\ UNCHANGED <<feedVars, lastEmitted, emitted>>

\* Slip: a regressed quote moves the time back.
Emits(quote) == TRUE

\* A quote older than the last one is skipped.
InOrder(quote) == lastEmitted <= quote.at

NextLive ==
  /\ livePending # <<>>
  /\ livePending' = Tail(livePending)
  /\ IF InOrder(Head(livePending))
     THEN lastEmitted' = Head(livePending).at /\ emitted' = Append(emitted, Head(livePending))
     ELSE UNCHANGED <<lastEmitted, emitted>>
  /\ UNCHANGED <<feedVars, liveQueue, decodedLive>>

-----------------------------------------------------------------------------
HistoricalInit ==
  /\ mappings = <<>> /\ quotes = <<>> /\ barsIn = <<>> /\ requests = <<>>
  /\ replay = <<>> /\ verdict = <<>>
  /\ liveQueue = <<>> /\ livePending = <<>> /\ lastEmitted = 0 /\ emitted = <<>>
  /\ decodedLive = <<>>

HistoricalNext ==
  \/ \E m \in MappingOffers : quotes = <<>> /\ barsIn = <<>> /\ AddMapping(m)
  \/ \E payload \in QuotePayloads : \E cost \in CostAnswers : FetchQuotes(payload, cost)
  \/ \E payload \in BarPayloads : FetchBars(payload)
  \/ BuildReplay \/ Validate

LiveFeedNext ==
  \/ \E m \in MappingOffers : liveQueue = <<>> /\ decodedLive = <<>> /\ AddMapping(m)
  \/ \E payload \in QuotePayloads : PushPayload(payload)
  \/ Refill \/ NextLive

HistoricalSpec == HistoricalInit /\ [][HistoricalNext \/ LiveFeedNext]_historicalVars

-----------------------------------------------------------------------------
\* What is replayed is what was downloaded, in an order that shows no future: all
\* its quotes and bars and no others, each within its session and after the opening
\* of that session, no session opened again; no bar before its interval is over,
\* and no bar before a quote of the same instant; every quote under a ticker its
\* vendor's id stood for at that time, of which there is one.
ReplayIsSound ==
  LET events == replay[1].events
      Of(kind) == SelectSeq(events, LAMBDA e : e.kind = kind)
  IN  /\ replay # <<>> /\ ~replay[1].failed =>
           /\ Of("quote") = quotes /\ Of("bar") = barsIn
           /\ \A i, j \in DOMAIN events : i < j =>
                /\ events[i].at <= events[j].at
                /\ events[i].kind = "bar" /\ events[j].kind = "quote" => events[i].at < events[j].at
                /\ events[i].kind = "open" /\ events[j].kind = "open" => events[i].at < events[j].at
           /\ \A i \in DOMAIN events : events[i].kind \in {"bar", "quote"} =>
                \E s \in DOMAIN FeedSessions, j \in 1..(i - 1) :
                  /\ events[j] = [kind |-> "open", at |-> FeedSessions[s].open]
                  /\ events[i].at \in FeedSessions[s].open..(FeedSessions[s].close - 1)
      /\ \A i \in DOMAIN barsIn : barsIn[i].at = barsIn[i].from + Timeframe
      /\ \A quote \in Range(quotes) \cup Range(emitted) :
           \E m \in Range(mappings) :
             m.ticker = quote.ticker /\ m.from <= quote.at /\ quote.at < m.to
      /\ \A i, j \in DOMAIN mappings : i # j /\ mappings[i].ticker = mappings[j].ticker =>
           mappings[i].to <= mappings[j].from \/ mappings[j].to <= mappings[i].from

\* A report without an issue means that the stream is in order, and of every
\* instrument that no bar of a session is missing between two others, that no bar
\* comes twice, none jumps and none of DeadAfter bars in a row is without volume.
CleanReportMeansCleanData ==
  \A issues \in Range(verdict) : issues = {} =>
    LET events == replay[1].events
        Bars(ticker) == SelectSeq(events, LAMBDA e : e.kind = "bar" /\ e.ticker = ticker)
    IN  \A ticker \in {m.ticker : m \in MappingOffers} :
          LET bars == Bars(ticker) IN
          /\ \A i \in 2..Len(bars) :
               /\ bars[i - 1].at < bars[i].at
               /\ bars[i].close <= JumpRatio * bars[i - 1].close
               /\ bars[i - 1].close <= JumpRatio * bars[i].close
               /\ (\E s \in DOMAIN FeedSessions :
                     /\ FeedSessions[s].open < bars[i - 1].at
                     /\ bars[i].at < FeedSessions[s].close)
                  => bars[i].at - bars[i - 1].at <= Timeframe
          /\ ~\E i \in DOMAIN bars :
               /\ i >= DeadAfter
               /\ \A j \in (i - DeadAfter + 1)..i : bars[j].volume = 0

\* The live source shows the quotes that were decoded, in the order they came,
\* without those older than one shown before: what a replay of the same quotes
\* would have to show.
LiveFeedMatchesDecoded ==
  LET decoded == FlattenSeq(decodedLive)
      shown == Len(decoded) - Len(livePending)
      Newest(i) == \A j \in 1..(i - 1) : decoded[j].at <= decoded[i].at
      places == SelectSeq([i \in 1..shown |-> i], Newest)
  IN  emitted = [i \in DOMAIN places |-> decoded[places[i]]]
=============================================================================
