----------------------------- MODULE MarketFeed -----------------------------
(***************************************************************************)
(* The watchlist's market data in the gateway (frontend/backend/app/       *)
(* market/service.py, provider.py, live.py, routers/market.py): requests   *)
(* on the server's threads, the live provider's own thread reading a       *)
(* WebSocket, and clients of the stream.  The requests and that thread     *)
(* share the provider's symbols and its socket without a lock.             *)
(***************************************************************************)
EXTENDS Integers, Sequences, FiniteSets, SequencesExt

CONSTANTS Symbols, DefaultWatchlist,
          Requests,     \* threads that handle requests
          MaxRequestCount, MaxFrames  \* bounds

VARIABLES feedMode, watchlist,            \* MarketDataService
          replaySymbols,            \* ReplayProvider
          liveSymbols, socket, streaming, connected,  \* AlpacaLiveProvider and where its thread is
          held, applying,                 \* its quote cache, and a frame half applied
          vendor,                         \* what the venue knows: whom it streams, what it says
          handling, handled,              \* the requests under way, and how many there were
          overlapped                      \* history: two requests were under way at once

serviceVars == <<feedMode, watchlist, replaySymbols>>
streamVars == <<liveSymbols, socket, streaming, connected, held, applying, vendor>>
requestVars == <<handling, handled, overlapped>>
marketFeedVars == <<serviceVars, streamVars, requestVars>>

NotHeld == [touch |-> 0, last |-> 0]     \* 0: None; else the number of the frame
Nothing == [kind |-> "none"]

-----------------------------------------------------------------------------
(* What the vendor does with a message, and what it may answer (external). *)

VendorHears(message) ==
  IF socket # "open" THEN vendor
  ELSE IF message.action = "auth"
  THEN [vendor EXCEPT !.authenticated = TRUE, !.says = Append(@, [kind |-> "authenticated"])]
  ELSE IF ~vendor.authenticated THEN [vendor EXCEPT !.says = Append(@, [kind |-> "error"])]
  ELSE IF message.action = "subscribe" THEN [vendor EXCEPT !.streams = @ \union message.symbols]
  ELSE [vendor EXCEPT !.streams = @ \ message.symbols]

VendorSays ==
  /\ socket = "open" /\ vendor.sent < MaxFrames
  /\ \E s \in vendor.streams, kind \in {"quote", "trade"} :
       vendor' = [vendor EXCEPT !.sent = @ + 1,
                    !.says = Append(@, [kind |-> kind, symbol |-> s, number |-> vendor.sent + 1])]
  /\ UNCHANGED <<serviceVars, liveSymbols, socket, streaming, connected, held, applying,
                 requestVars>>

ConnectionBreaks ==
  /\ socket = "open" /\ vendor.sent < MaxFrames
  /\ socket' = "dead" /\ vendor' = [vendor EXCEPT !.authenticated = FALSE, !.streams = {},
                                                  !.says = <<>>, !.sent = @ + 1]
  /\ UNCHANGED <<serviceVars, liveSymbols, streaming, connected, held, applying, requestVars>>

-----------------------------------------------------------------------------
(* AlpacaLiveProvider._run, one thread.                                    *)

\* connect() answers, or raises and the thread is over.
Connected ==
  /\ streaming = "connecting"
  /\ \/ socket' = "open" /\ streaming' = "authenticating" /\ UNCHANGED connected
     \/ streaming' = "ended" /\ connected' = FALSE /\ UNCHANGED socket
  /\ UNCHANGED <<serviceVars, liveSymbols, held, applying, vendor, requestVars>>

Authenticates ==
  /\ streaming = "authenticating" /\ streaming' = "subscribing"
  /\ vendor' = VendorHears([action |-> "auth"])
  /\ UNCHANGED <<serviceVars, liveSymbols, socket, connected, held, applying, requestVars>>

\* Slip: only a fresh connection's first start tells the vendor the symbols.
ToSubscribeNone == {}

ToSubscribe == liveSymbols

SubscribesAll ==
  /\ streaming = "subscribing" /\ streaming' = "receiving"
  /\ vendor' = IF ToSubscribe = {} THEN vendor
               ELSE VendorHears([action |-> "subscribe", symbols |-> ToSubscribe])
  /\ UNCHANGED <<serviceVars, liveSymbols, socket, connected, held, applying, requestVars>>

\* recv() of a dead socket raises.
StreamEnds ==
  /\ streaming = "receiving" /\ socket = "dead" /\ applying = Nothing
  /\ streaming' = "ended" /\ connected' = FALSE
  /\ UNCHANGED <<serviceVars, liveSymbols, socket, held, applying, vendor, requestVars>>

\* handle(): a quote or a trade keeps what the other kind of frame told before.
Receives ==
  /\ streaming = "receiving" /\ socket = "open" /\ applying = Nothing /\ vendor.says # <<>>
  /\ LET frame == Head(vendor.says)
     IN  /\ vendor' = [vendor EXCEPT !.says = Tail(@)]
         /\ IF frame.kind \in {"quote", "trade"}
            THEN /\ applying' = [kind |-> frame.kind, symbol |-> frame.symbol,
                                 number |-> frame.number, previous |-> held[frame.symbol]]
                 /\ UNCHANGED connected
            ELSE connected' = (frame.kind = "authenticated") /\ UNCHANGED applying
  /\ UNCHANGED <<serviceVars, liveSymbols, socket, streaming, held, requestVars>>

\* The second half of _apply_quote() and _apply_trade(): the row is replaced.
Applies ==
  /\ applying # Nothing /\ applying' = Nothing
  /\ held' = [held EXCEPT ![applying.symbol] =
       IF applying.kind = "quote" THEN [applying.previous EXCEPT !.touch = applying.number]
       ELSE [applying.previous EXCEPT !.last = applying.number]]
  /\ UNCHANGED <<serviceVars, liveSymbols, socket, streaming, connected, vendor, requestVars>>

-----------------------------------------------------------------------------
(* Requests: set_mode() and set_watchlist(), a step per shared access.     *)

Goes(r, step) == handling' = [handling EXCEPT ![r].step = step]

BeginRequest(r, request) ==
  /\ handling[r].step = "idle" /\ handled < MaxRequestCount
  /\ handling' = [handling EXCEPT ![r] = request]
  /\ handled' = handled + 1
  /\ overlapped' = (overlapped \/ \E other \in Requests : handling[other].step # "idle")

AsksForReplay(r) ==
  /\ BeginRequest(r, [step |-> "idle", want |-> {}, removed |-> {}, added |-> {}, live |-> FALSE])
  /\ feedMode' = "replay"
  /\ UNCHANGED <<watchlist, replaySymbols, streamVars>>

\* start(): a thread that is alive is left alone; then all symbols are subscribed.
AsksForLive(r) ==
  /\ BeginRequest(r, [step |-> "adding", want |-> watchlist, removed |-> {}, added |-> {}, live |-> TRUE])
  /\ streaming' = IF streaming \in {"none", "ended"} THEN "connecting" ELSE streaming
  /\ UNCHANGED <<serviceVars, liveSymbols, socket, connected, held, applying, vendor>>

\* The differences are taken from the list and the provider of the moment.
AsksForWatchlist(r, wanted) ==
  LET removed == watchlist \ wanted
      added == wanted \ watchlist
  IN  /\ BeginRequest(r, [step |-> IF feedMode = "live" THEN "removing" ELSE "listing", want |-> wanted,
                   removed |-> removed, added |-> added, live |-> FALSE])
      /\ replaySymbols' = IF feedMode = "live" THEN replaySymbols
                          ELSE (replaySymbols \ removed) \union added
      /\ UNCHANGED <<feedMode, watchlist, streamVars>>

\* unsubscribe(): the rows of what was there to remove go with it.
Removes(r) ==
  LET gone == handling[r].removed \intersect liveSymbols
  IN  /\ handling[r].step = "removing"
      /\ handling' = [handling EXCEPT ![r].step = "unsubscribing", ![r].removed = gone]
      /\ liveSymbols' = liveSymbols \ gone
      /\ held' = [s \in Symbols |-> IF s \in gone THEN NotHeld ELSE held[s]]
      /\ UNCHANGED <<serviceVars, socket, streaming, connected, applying, vendor, handled,
                     overlapped>>

SendsUnsubscribe(r) ==
  /\ handling[r].step = "unsubscribing" /\ Goes(r, "adding")
  /\ vendor' = IF handling[r].removed = {} THEN vendor
               ELSE VendorHears([action |-> "unsubscribe", symbols |-> handling[r].removed])
  /\ UNCHANGED <<serviceVars, liveSymbols, socket, streaming, connected, held, applying, handled,
                 overlapped>>

\* subscribe(): the new symbols are in the list before the socket is looked at.
Adds(r) ==
  LET new == (IF handling[r].live THEN handling[r].want ELSE handling[r].added) \ liveSymbols
  IN  /\ handling[r].step = "adding"
      /\ handling' = [handling EXCEPT ![r].step = "subscribing", ![r].added = new]
      /\ liveSymbols' = liveSymbols \union new
      /\ UNCHANGED <<serviceVars, socket, streaming, connected, held, applying, vendor, handled,
                     overlapped>>

Tells(r) == handling[r].added # {}

SendsSubscribe(r) ==
  /\ handling[r].step = "subscribing" /\ Goes(r, IF handling[r].live THEN "switching" ELSE "listing")
  /\ vendor' = IF Tells(r) THEN VendorHears([action |-> "subscribe", symbols |-> handling[r].added])
               ELSE vendor
  /\ UNCHANGED <<serviceVars, liveSymbols, socket, streaming, connected, held, applying, handled,
                 overlapped>>

Finishes(r) ==
  /\ \/ handling[r].step = "listing" /\ watchlist' = handling[r].want /\ UNCHANGED feedMode
     \/ handling[r].step = "switching" /\ feedMode' = "live" /\ UNCHANGED watchlist
  /\ Goes(r, "idle")
  /\ UNCHANGED <<replaySymbols, streamVars, handled, overlapped>>

-----------------------------------------------------------------------------
FeedInit ==
  /\ feedMode = "replay" /\ watchlist = DefaultWatchlist
  /\ replaySymbols = DefaultWatchlist
  /\ liveSymbols = {} /\ socket = "none" /\ streaming = "none" /\ connected = FALSE
  /\ held = [s \in Symbols |-> NotHeld] /\ applying = Nothing
  /\ vendor = [authenticated |-> FALSE, streams |-> {}, says |-> <<>>, sent |-> 0]
  /\ handling = [r \in Requests |-> [step |-> "idle", want |-> {}, removed |-> {}, added |-> {},
                                     live |-> FALSE]]
  /\ handled = 0 /\ overlapped = FALSE

StreamStep == Connected \/ Authenticates \/ SubscribesAll \/ StreamEnds \/ Receives \/ Applies

RequestStep(r) ==
  \/ AsksForReplay(r) \/ AsksForLive(r)
  \/ \E wanted \in SUBSET Symbols \ {{}} : AsksForWatchlist(r, wanted)
  \/ Removes(r) \/ SendsUnsubscribe(r) \/ Adds(r) \/ SendsSubscribe(r) \/ Finishes(r)

FeedNext ==
  \/ VendorSays \/ ConnectionBreaks
  \/ StreamStep
  \/ \E r \in Requests : RequestStep(r)

FeedSpec == FeedInit /\ [][FeedNext]_marketFeedVars

-----------------------------------------------------------------------------
Quiet == \A r \in Requests : handling[r].step = "idle"

\* Once no request is under way and the stream reads its socket, the vendor
\* streams every symbol of the watchlist in live mode: neither the thread that
\* connects nor the request that subscribes may leave one to the other
\* (live.py:122 and 163).  Requests that overlap each other may lose one.
WatchedSymbolsReachVendor ==
  (Quiet /\ ~overlapped /\ streaming = "receiving" /\ socket = "open")
    => /\ liveSymbols \subseteq vendor.streams
       /\ feedMode = "live" => watchlist \subseteq vendor.streams
=============================================================================
