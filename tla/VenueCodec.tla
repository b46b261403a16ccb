----------------------------- MODULE VenueCodec -----------------------------
(***************************************************************************)
(* What goes over the wire to the venue and how its answers are read       *)
(* (AlpacaOrderTranslator and LiveOrderListener, src/live/translator.cpp). *)
(* The venue here takes orders for what their requests say, and answers in *)
(* its own time; the listener's table may be saved and restored.           *)
(***************************************************************************)
EXTENDS Integers, Sequences, FiniteSets

CONSTANTS ApprovedOrders,        \* orders risk let through: records as of NewOrder's
          SymbolOf,        \* InstrumentTable: the symbols that are known
          AllowFractional, \* Config
          MaxWire          \* bound: orders sent, and the terms each has had

\* An order has one id, and amended it stays that order: its terms are those of
\* oms::Order, and only its quantity, type and prices are another's.
ASSUME ApprovedAssumption ==
  /\ \A o \in ApprovedOrders :
       /\ o.type \in {"Market", "Limit", "Stop", "StopLimit"}
       /\ o.tif \in {"Day", "GoodTillCancel", "ImmediateOrCancel", "FillOrKill"}
  /\ \A o, other \in ApprovedOrders :
       o.id = other.id => /\ o.instrument = other.instrument
                          /\ o.side = other.side /\ o.tif = other.tif

VARIABLES sent,        \* histories: by client id, the order as sent and amended
          atVenue,     \* the venue's orders, by client id
          answers,     \* its messages under way, in any order
          tracked,     \* LiveOrderListener::by_client_id_
          savedTable,  \* a snapshot() of it
          read         \* history: what interpret() made of messages

codecVars == <<sent, atVenue, answers, tracked, savedTable, read>>

NoPriceGiven == 0
-----------------------------------------------------------------------------
(* Encoding.  Quantities are in halves of a share.                         *)

\* Slip: the id depends on how often the order was sent.
ClientIdOfAttempt(id) == <<"ptl", Cardinality(DOMAIN sent)>>

\* The same order always has the same id.
ClientIdOf(id) == <<"ptl", id>>

\* type_string(), tif_string(): the venue's words, one for each of ours.
TypeWord(type) ==
  CASE type = "Market" -> "market" [] type = "Limit" -> "limit"
    [] type = "Stop" -> "stop" [] type = "StopLimit" -> "stop_limit"

TifWord(tif) ==
  CASE tif = "Day" -> "day" [] tif = "GoodTillCancel" -> "gtc"
    [] tif = "ImmediateOrCancel" -> "ioc" [] tif = "FillOrKill" -> "fok"

\* supports(), asked before encoding.
Supports(o) ==
  /\ o.quantity > 0
  /\ AllowFractional \/ o.quantity % 2 = 0
  /\ ~(o.tif \in {"ImmediateOrCancel", "FillOrKill"} /\ o.type = "Market")
  /\ o.type \in {"Limit", "StopLimit"} => o.limit > 0
  /\ o.type \in {"Stop", "StopLimit"} => o.stop > 0

\* encode_new(): a symbol is never guessed.
Encodable(o) == Supports(o) /\ o.instrument \in DOMAIN SymbolOf

EncodedNew(o) ==
  [action |-> "new", client |-> ClientIdOf(o.id), symbol |-> SymbolOf[o.instrument],
   quantity |-> o.quantity, side |-> IF o.side = "Buy" THEN "buy" ELSE "sell",
   type |-> TypeWord(o.type), tif |-> TifWord(o.tif), limit |-> o.limit, stop |-> o.stop]

\* Slip: the prices are left out.
EncodedQuantity(o, venueId) ==
  [action |-> "replace", order |-> venueId, client |-> ClientIdOf(o.id),
   quantity |-> o.quantity, limit |-> NoPriceGiven, stop |-> NoPriceGiven]

\* encode_replace(): by the venue's own id; side, type and time in force are not
\* in it, nor is a price the order does not have.
EncodedReplace(o, venueId) ==
  [action |-> "replace", order |-> venueId, client |-> ClientIdOf(o.id),
   quantity |-> o.quantity, limit |-> o.limit, stop |-> o.stop]

-----------------------------------------------------------------------------
(* LiveOrderListener.                                                      *)

Trackable(client, id) == client \in DOMAIN tracked => tracked[client] = id

Put(table, client, value) ==
  [c \in DOMAIN table \union {client} |-> IF c = client THEN value ELSE table[c]]

Tracked(client, id) == Put(tracked, client, id)

FillKinds == {"PartialFill", "Fill"}

\* interpret(): who the message is about and what it says, or Unattributed.
Unattributed == [order |-> 0, kind |-> "Unattributed", quantity |-> 0]

\* Slip: an order the listener does not know is the last one it does.
AttributedToSomeone(m) ==
  [order |-> IF m.client \in DOMAIN tracked THEN tracked[m.client]
             ELSE IF tracked = <<>> THEN 0 ELSE tracked[CHOOSE c \in DOMAIN tracked : TRUE],
   kind |-> m.kind, quantity |-> m.quantity]

Interpreted(m) ==
  IF m.client \notin DOMAIN tracked \/ (m.kind \in FillKinds /\ m.quantity <= 0)
  THEN Unattributed
  ELSE [order |-> tracked[m.client], kind |-> m.kind,
        quantity |-> IF m.kind \in FillKinds THEN m.quantity ELSE 0]

-----------------------------------------------------------------------------
CodecInit ==
  /\ sent = <<>> /\ atVenue = <<>> /\ answers = {} /\ tracked = <<>>
  /\ savedTable = <<>> /\ read = {}

Answers(client, kind, quantity) ==
  [client |-> client, kind |-> kind, quantity |-> quantity]

\* An order is tracked, encoded and sent; the venue takes what the request says.
SendOrder(o) ==
  LET request == EncodedNew(o)
  IN  /\ Cardinality(DOMAIN sent) < MaxWire /\ ClientIdOf(o.id) \notin DOMAIN sent
      /\ IF Encodable(o) /\ Trackable(ClientIdOf(o.id), o.id)
         THEN /\ sent' = Put(sent, request.client, <<o>>)
              /\ tracked' = Tracked(request.client, o.id)
              /\ atVenue' = Put(atVenue, request.client, request)
              /\ answers' = answers \union {Answers(request.client, "OrderAccepted", 0)}
         ELSE UNCHANGED <<sent, tracked, atVenue, answers>>  \* refused
      /\ UNCHANGED <<savedTable, read>>

\* Only an order the venue has named can be amended or cancelled.  The venue
\* changes what the request names: a price that is not in it stays.
AmendOrder(o, changed) ==
  LET client == ClientIdOf(o.id)
      request == EncodedReplace(changed, client)
  IN  /\ client \in DOMAIN sent /\ client \in DOMAIN atVenue /\ changed.id = o.id
      /\ Supports(changed) /\ Len(sent[client]) < MaxWire
      /\ sent' = [sent EXCEPT ![client] = Append(@, changed)]
      /\ atVenue' = [atVenue EXCEPT
           ![client].quantity = request.quantity,
           ![client].limit = IF request.limit = NoPriceGiven THEN @ ELSE request.limit,
           ![client].stop = IF request.stop = NoPriceGiven THEN @ ELSE request.stop]
      /\ answers' = answers \union {Answers(client, "OrderReplaced", 0)}
      /\ UNCHANGED <<tracked, savedTable, read>>

CancelOrder(o) ==
  LET client == ClientIdOf(o.id)
  IN  /\ client \in DOMAIN atVenue
      /\ atVenue' = [c \in DOMAIN atVenue \ {client} |-> atVenue[c]]
      /\ answers' = answers \union {Answers(client, "OrderCancelled", 0)}
      /\ UNCHANGED <<sent, tracked, savedTable, read>>

\* The venue executes (external).
VenueFills(client) ==
  /\ client \in DOMAIN atVenue
  /\ answers' = answers \union {Answers(client, "Fill", atVenue[client].quantity)}
  /\ atVenue' = [c \in DOMAIN atVenue \ {client} |-> atVenue[c]]
  /\ UNCHANGED <<sent, tracked, savedTable, read>>

\* A message is read in any order; a terminal one lets its order be forgotten.
ReadAnswer(m) ==
  /\ m \in answers /\ answers' = answers \ {m}
  /\ read' = read \union {[message |-> m, update |-> Interpreted(m)]}
  /\ tracked' = IF m.kind \in {"Fill", "OrderCancelled"} /\ Interpreted(m) # Unattributed
                THEN [c \in DOMAIN tracked \ {m.client} |-> tracked[c]] ELSE tracked
  /\ UNCHANGED <<sent, atVenue, savedTable>>

SaveTable == savedTable' = tracked /\ UNCHANGED <<sent, atVenue, answers, tracked, read>>

\* A new process: clear(), then restore() of the snapshot.
RestoreTable == tracked' = savedTable /\ UNCHANGED <<sent, atVenue, answers, savedTable, read>>

CodecNext ==
  \/ \E o \in ApprovedOrders : SendOrder(o) \/ CancelOrder(o)
  \/ \E o, changed \in ApprovedOrders : AmendOrder(o, changed)
  \/ \E client \in DOMAIN atVenue : VenueFills(client)
  \/ \E m \in answers : ReadAnswer(m)
  \/ SaveTable \/ RestoreTable

CodecSpec == CodecInit /\ [][CodecNext]_codecVars

-----------------------------------------------------------------------------
\* The last price that was given, or none when none was.
IsLastGiven(price, prices) ==
  \/ price = NoPriceGiven /\ \A i \in DOMAIN prices : prices[i] = NoPriceGiven
  \/ \E i \in DOMAIN prices :
       /\ prices[i] = price /\ price # NoPriceGiven
       /\ \A j \in DOMAIN prices : j > i => prices[j] = NoPriceGiven

LimitsOf(orders) == [i \in DOMAIN orders |-> orders[i].limit]
StopsOf(orders) == [i \in DOMAIN orders |-> orders[i].stop]

\* The venue works what risk approved, amendments included: never another
\* symbol, side, quantity or time in force, the type it was first sent with, no
\* combination the venue does not take, and each price the last one that was
\* given for it - the order's own, unless an amendment dropped it; and what the
\* venue answers reaches the order it is about or no order at all, whatever the
\* listener forgot or restored (translator.cpp).
VenueWorksWhatWasApproved ==
  LET Ours(word) == CASE word = "day" -> "Day" [] word = "gtc" -> "GoodTillCancel"
                      [] word = "ioc" -> "ImmediateOrCancel" [] word = "fok" -> "FillOrKill"
  IN  /\ \A c \in DOMAIN atVenue :
           LET o == sent[c][Len(sent[c])]
               v == atVenue[c]
           IN  /\ c = <<"ptl", o.id>>
               /\ v.symbol = SymbolOf[o.instrument] /\ (v.side = "buy") = (o.side = "Buy")
               /\ v.quantity = o.quantity
               /\ IsLastGiven(v.limit, LimitsOf(sent[c])) /\ IsLastGiven(v.stop, StopsOf(sent[c]))
               /\ Ours(v.tif) = o.tif /\ v.type = TypeWord(sent[c][1].type)
               /\ v.tif \in {"ioc", "fok"} => v.type # "market"
      /\ \A r \in read : r.update # Unattributed => r.message.client = <<"ptl", r.update.order>>
=============================================================================
