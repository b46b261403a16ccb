--------------------------- MODULE PlatformProofs ---------------------------
(***************************************************************************)
(* Proofs about the parts around trading, each for every value of its      *)
(* constants: the venue's wire, the quotes and the gateway's market feed,  *)
(* the supervisor and its histogram, the layers of a configuration, the    *)
(* features of a bar, the drawdowns of a curve, and the models with their  *)
(* walk-forward runner.                                                    *)
(***************************************************************************)
EXTENDS Platform, SumLemmas, SequenceTheorems

-----------------------------------------------------------------------------
(***************************************************************************)
(* VenueCodec.  An order at the venue is the request made of the order     *)
(* last sent under its id, but for the type, which stays that of the first *)
(* one, and the prices it does not give, which stay those of an earlier    *)
(* one: the invariant says so of every word of the request.                *)
(***************************************************************************)
AtOnce == {"ImmediateOrCancel", "FillOrKill"}
RequestFields ==
  {"action", "client", "symbol", "quantity", "side", "type", "tif", "limit", "stop"}

LastSent(orders) == orders[Len(orders)]

\* What the venue holds after these orders, the first sent and the rest amending it.
AsksFor(v, orders) ==
  LET o == LastSent(orders)
  IN  /\ DOMAIN v = RequestFields
      /\ v.symbol = SymbolOf[o.instrument] /\ v.side = IF o.side = "Buy" THEN "buy" ELSE "sell"
      /\ v.quantity = o.quantity
      /\ IsLastGiven(v.limit, LimitsOf(orders)) /\ IsLastGiven(v.stop, StopsOf(orders))
      /\ v.tif = TifWord(o.tif) /\ v.type = TypeWord(orders[1].type)
      /\ o.tif \in AtOnce => v.type # "market"

\* Approved orders of one id.
Amending(orders, client) ==
  /\ orders \in Seq(ApprovedOrders) /\ orders # <<>>
  /\ \A i \in DOMAIN orders : client = ClientIdOf(orders[i].id)

CodecInv ==
  /\ \A client \in DOMAIN sent : Amending(sent[client], client)
  /\ \A client \in DOMAIN atVenue : client \in DOMAIN sent /\ AsksFor(atVenue[client], sent[client])
  /\ \A client \in DOMAIN tracked : client = ClientIdOf(tracked[client])
  /\ \A client \in DOMAIN savedTable : client = ClientIdOf(savedTable[client])
  /\ \A r \in read : r.update # Unattributed => r.message.client = ClientIdOf(r.update.order)

(***************************************************************************)
(* The request of an order that is taken asks for that order.              *)
(***************************************************************************)
LEMMA EncodedAsks ==
  ASSUME NEW o \in ApprovedOrders, Encodable(o)
  PROVE  AsksFor(EncodedNew(o), <<o>>)
<1>1. o.type \in {"Market", "Limit", "Stop", "StopLimit"}
  BY ApprovedAssumption
<1>2. o.tif \in AtOnce => o.type # "Market"
  BY DEF Encodable, Supports, AtOnce
<1>3. o.type # "Market" => TypeWord(o.type) # "market"
  BY <1>1 DEF TypeWord
<1>4. LastSent(<<o>>) = o /\ <<o>>[1] = o
  BY DEF LastSent
<1>5. IsLastGiven(o.limit, LimitsOf(<<o>>)) /\ IsLastGiven(o.stop, StopsOf(<<o>>))
  BY DEF IsLastGiven, LimitsOf, StopsOf
<1> QED
  BY <1>2, <1>3, <1>4, <1>5 DEF AsksFor, EncodedNew, RequestFields

(***************************************************************************)
(* A price that is kept unless another is given is the last one given.     *)
(***************************************************************************)
LEMMA GivenNext ==
  ASSUME NEW prices, NEW next, NEW n \in Nat, DOMAIN prices = 1..n, DOMAIN next = 1..(n + 1),
         \A i \in 1..n : next[i] = prices[i], NEW price, IsLastGiven(price, prices)
  PROVE  IsLastGiven(IF next[n + 1] = NoPriceGiven THEN price ELSE next[n + 1], next)
<1>1. CASE next[n + 1] # NoPriceGiven
  BY <1>1 DEF IsLastGiven
<1>2. CASE next[n + 1] = NoPriceGiven
  <2>1. CASE \A i \in DOMAIN prices : prices[i] = NoPriceGiven
    BY <1>2, <2>1 DEF IsLastGiven
  <2>2. CASE \E i \in DOMAIN prices : prices[i] # NoPriceGiven
    <3>1. PICK i \in DOMAIN prices : /\ prices[i] = price /\ price # NoPriceGiven
                                    /\ \A j \in DOMAIN prices : j > i => prices[j] = NoPriceGiven
      BY <2>2 DEF IsLastGiven
    <3>2. i \in DOMAIN next /\ next[i] = price
      BY <3>1
    <3>3. \A j \in DOMAIN next : j > i => next[j] = NoPriceGiven
      BY <3>1, <1>2
    <3> QED
      BY <1>2, <3>1, <3>2, <3>3 DEF IsLastGiven
  <2> QED
    BY <2>1, <2>2
<1> QED
  BY <1>1, <1>2

(***************************************************************************)
(* An order at the venue, given another quantity and the prices that go    *)
(* with it, is what the orders of its id ask for.                          *)
(***************************************************************************)
LEMMA AmendedAsks ==
  ASSUME NEW client, NEW orders, Amending(orders, client),
         NEW changed \in ApprovedOrders, client = ClientIdOf(changed.id),
         NEW v, AsksFor(v, orders), NEW w,
         DOMAIN w = DOMAIN v, w.quantity = changed.quantity,
         w.limit = IF changed.limit = NoPriceGiven THEN v.limit ELSE changed.limit,
         w.stop = IF changed.stop = NoPriceGiven THEN v.stop ELSE changed.stop,
         w.symbol = v.symbol, w.side = v.side, w.tif = v.tif, w.type = v.type
  PROVE  Amending(Append(orders, changed), client) /\ AsksFor(w, Append(orders, changed))
<1> DEFINE next == Append(orders, changed)
           n == Len(orders)
<1>1. /\ n \in Nat \ {0} /\ DOMAIN orders = 1..n /\ orders[n] \in ApprovedOrders
      /\ next \in Seq(ApprovedOrders) /\ Len(next) = n + 1 /\ DOMAIN next = 1..(n + 1)
      /\ next[n + 1] = changed /\ next # <<>>
      /\ \A i \in 1..n : next[i] = orders[i]
  BY DEF Amending
<1>2. orders[n].id = changed.id
  BY <1>1 DEF Amending, ClientIdOf
<1>3. LET o == orders[n]
      IN  o.instrument = changed.instrument /\ o.side = changed.side /\ o.tif = changed.tif
  BY <1>1, <1>2, ApprovedAssumption
<1> HIDE DEF next, n
<1>4. LastSent(next) = changed /\ LastSent(orders) = orders[n] /\ next[1] = orders[1]
  BY <1>1 DEF LastSent, n
<1>5. Amending(next, client)
  BY <1>1 DEF Amending
<1>6. /\ DOMAIN LimitsOf(orders) = 1..n /\ DOMAIN LimitsOf(next) = 1..(n + 1)
      /\ LimitsOf(next)[n + 1] = changed.limit
      /\ \A i \in 1..n : LimitsOf(next)[i] = LimitsOf(orders)[i]
  BY <1>1 DEF LimitsOf
<1>7. /\ DOMAIN StopsOf(orders) = 1..n /\ DOMAIN StopsOf(next) = 1..(n + 1)
      /\ StopsOf(next)[n + 1] = changed.stop
      /\ \A i \in 1..n : StopsOf(next)[i] = StopsOf(orders)[i]
  BY <1>1 DEF StopsOf
<1>8. IsLastGiven(v.limit, LimitsOf(orders)) /\ IsLastGiven(v.stop, StopsOf(orders))
  BY DEF AsksFor
<1>9. IsLastGiven(w.limit, LimitsOf(next))
  BY <1>1, <1>6, <1>8, GivenNext
<1>10. IsLastGiven(w.stop, StopsOf(next))
  BY <1>1, <1>7, <1>8, GivenNext
<1>11. AsksFor(w, next)
  BY <1>3, <1>4, <1>9, <1>10 DEF AsksFor
<1> QED
  BY <1>5, <1>11 DEF next

(***************************************************************************)
(* What is tracked stays tracked under its own id.                         *)
(***************************************************************************)
LEMMA TrackedIds ==
  ASSUME NEW id, NEW client, client \in DOMAIN Tracked(ClientIdOf(id), id),
         \A c \in DOMAIN tracked : c = ClientIdOf(tracked[c])
  PROVE  client = ClientIdOf(Tracked(ClientIdOf(id), id)[client])
BY DEF Tracked, Put

(***************************************************************************)
(* A step of the codec, action by action.                                  *)
(***************************************************************************)
LEMMA SendKeepsCodec ==
  ASSUME CodecInv, NEW o \in ApprovedOrders, SendOrder(o)
  PROVE  CodecInv'
<1>1. CASE ~(Encodable(o) /\ Trackable(ClientIdOf(o.id), o.id))
  BY <1>1 DEF CodecInv, SendOrder, ClientIdOf
<1>2. CASE Encodable(o) /\ Trackable(ClientIdOf(o.id), o.id)
  <2> DEFINE new == ClientIdOf(o.id)
  <2>1. new \notin DOMAIN sent /\ EncodedNew(o).client = new
    BY DEF SendOrder, EncodedNew
  <2>2. /\ sent' = Put(sent, new, <<o>>)
        /\ tracked' = Tracked(new, o.id)
        /\ atVenue' = Put(atVenue, new, EncodedNew(o))
        /\ UNCHANGED <<savedTable, read>>
    BY <1>2, <2>1 DEF SendOrder
  <2> HIDE DEF new
  <2>3. /\ DOMAIN sent' = DOMAIN sent \cup {new} /\ sent'[new] = <<o>>
        /\ \A c \in DOMAIN sent : sent'[c] = sent[c]
    BY <2>1, <2>2 DEF Put
  <2>4. /\ DOMAIN atVenue' = DOMAIN atVenue \cup {new} /\ atVenue'[new] = EncodedNew(o)
        /\ \A c \in DOMAIN atVenue \ {new} : atVenue'[c] = atVenue[c]
    BY <2>2 DEF Put
  <2>5. new = ClientIdOf(o.id)
    BY DEF new
  <2>6. ASSUME NEW c \in DOMAIN sent' PROVE Amending(sent'[c], c)
    <3>1. Amending(<<o>>, new)
      BY <2>5 DEF Amending
    <3> QED
      BY <2>3, <3>1 DEF CodecInv
  <2>7. ASSUME NEW c \in DOMAIN atVenue' PROVE c \in DOMAIN sent' /\ AsksFor(atVenue'[c], sent'[c])
    <3>1. CASE c = new
      BY <1>2, <3>1, <2>3, <2>4, EncodedAsks
    <3>2. CASE c # new
      <4>1. c \in DOMAIN atVenue /\ c \in DOMAIN sent /\ atVenue'[c] = atVenue[c] /\ sent'[c] = sent[c]
        BY <3>2, <2>3, <2>4 DEF CodecInv
      <4> QED
        BY <4>1, <2>3 DEF CodecInv
    <3> QED
      BY <3>1, <3>2
  <2>8. \A c \in DOMAIN tracked' : c = ClientIdOf(tracked'[c])
    BY <2>2, <2>5, TrackedIds DEF CodecInv
  <2> QED
    BY <2>2, <2>6, <2>7, <2>8 DEF CodecInv, ClientIdOf, Unattributed
<1> QED
  BY <1>1, <1>2

LEMMA AmendKeepsCodec ==
  ASSUME CodecInv, NEW o \in ApprovedOrders, NEW changed \in ApprovedOrders, AmendOrder(o, changed)
  PROVE  CodecInv'
<1> DEFINE client == ClientIdOf(o.id)
           v == atVenue[client]
           first == [atVenue EXCEPT ![client].quantity = changed.quantity]
           second == [first EXCEPT ![client].limit =
                        IF changed.limit = NoPriceGiven THEN @ ELSE changed.limit]
           w == atVenue'[client]
<1>1. /\ client \in DOMAIN sent /\ client \in DOMAIN atVenue /\ changed.id = o.id
      /\ sent' = [sent EXCEPT ![client] = Append(@, changed)]
      /\ UNCHANGED <<tracked, savedTable, read>>
  BY DEF AmendOrder
<1>2. client = ClientIdOf(changed.id)
  BY <1>1
<1>3. Amending(sent[client], client) /\ AsksFor(v, sent[client])
  BY <1>1 DEF CodecInv
<1>4. /\ DOMAIN first = DOMAIN atVenue /\ \A c \in DOMAIN atVenue \ {client} : first[c] = atVenue[c]
      /\ DOMAIN first[client] = RequestFields /\ first[client].quantity = changed.quantity
      /\ \A field \in RequestFields \ {"quantity"} : first[client][field] = v[field]
  BY <1>1, <1>3 DEF AsksFor, RequestFields
<1>5. atVenue' = [second EXCEPT ![client].stop =
                    IF changed.stop = NoPriceGiven THEN @ ELSE changed.stop]
  BY ZenonT(40) DEF AmendOrder, EncodedReplace
<1>6. /\ DOMAIN second = DOMAIN atVenue /\ \A c \in DOMAIN atVenue \ {client} : second[c] = atVenue[c]
      /\ DOMAIN second[client] = RequestFields
      /\ second[client].quantity = changed.quantity
      /\ second[client].limit = IF changed.limit = NoPriceGiven THEN v.limit ELSE changed.limit
      /\ \A field \in RequestFields \ {"quantity", "limit"} : second[client][field] = v[field]
  <2> HIDE DEF first, client, v
  <2> QED
    BY <1>1, <1>4 DEF RequestFields
<1> HIDE DEF second, first, client, v
<1>7. /\ DOMAIN atVenue' = DOMAIN atVenue /\ \A c \in DOMAIN atVenue \ {client} : atVenue'[c] = atVenue[c]
      /\ DOMAIN w = DOMAIN v /\ w.quantity = changed.quantity
      /\ w.limit = IF changed.limit = NoPriceGiven THEN v.limit ELSE changed.limit
      /\ w.stop = IF changed.stop = NoPriceGiven THEN v.stop ELSE changed.stop
      /\ w.symbol = v.symbol /\ w.side = v.side /\ w.tif = v.tif /\ w.type = v.type
  BY <1>1, <1>3, <1>5, <1>6 DEF AsksFor, RequestFields
<1> HIDE DEF w
<1>8. /\ Amending(Append(sent[client], changed), client)
      /\ AsksFor(w, Append(sent[client], changed))
  BY <1>2, <1>3, <1>7, AmendedAsks
<1>9. \A c \in DOMAIN sent' : Amending(sent'[c], c)
  BY <1>1, <1>8 DEF CodecInv
<1>10. ASSUME NEW c \in DOMAIN atVenue' PROVE c \in DOMAIN sent' /\ AsksFor(atVenue'[c], sent'[c])
  <2>1. CASE c = client
    BY <1>1, <1>8, <2>1 DEF w
  <2>2. CASE c # client
    BY <1>1, <1>7, <2>2 DEF CodecInv
  <2> QED
    BY <2>1, <2>2
<1> QED
  BY <1>1, <1>9, <1>10 DEF CodecInv, ClientIdOf, Unattributed

LEMMA LeavingKeepsCodec ==
  ASSUME CodecInv, NEW client, atVenue' = [c \in DOMAIN atVenue \ {client} |-> atVenue[c]],
         UNCHANGED <<sent, tracked, savedTable, read>>
  PROVE  CodecInv'
<1>1. ASSUME NEW c \in DOMAIN atVenue' PROVE c \in DOMAIN sent' /\ AsksFor(atVenue'[c], sent'[c])
  BY DEF CodecInv
<1> QED
  BY <1>1 DEF CodecInv, ClientIdOf, Unattributed

LEMMA ReadKeepsCodec ==
  ASSUME CodecInv, NEW m \in answers, ReadAnswer(m)
  PROVE  CodecInv'
<1>1. \A c \in DOMAIN tracked' : c \in DOMAIN tracked /\ tracked'[c] = tracked[c]
  BY DEF ReadAnswer
<1>2. Interpreted(m) # Unattributed => m.client = ClientIdOf(Interpreted(m).order)
  BY DEF CodecInv, Interpreted
<1>3. \A r \in read' : r.update # Unattributed => r.message.client = ClientIdOf(r.update.order)
  BY <1>2 DEF ReadAnswer, CodecInv
<1>4. \A c \in DOMAIN atVenue' : c \in DOMAIN sent' /\ AsksFor(atVenue'[c], sent'[c])
  BY DEF ReadAnswer, CodecInv, ClientIdOf
<1> QED
  BY <1>1, <1>3, <1>4 DEF ReadAnswer, CodecInv, ClientIdOf, Unattributed

LEMMA StepCodec == CodecInv /\ [CodecNext]_codecVars => CodecInv'
<1> SUFFICES ASSUME CodecInv, [CodecNext]_codecVars PROVE CodecInv'
  OBVIOUS
<1>1. ASSUME NEW o \in ApprovedOrders, SendOrder(o) PROVE CodecInv'
  BY <1>1, SendKeepsCodec
<1>2. ASSUME NEW o \in ApprovedOrders, CancelOrder(o) PROVE CodecInv'
  BY <1>2, LeavingKeepsCodec DEF CancelOrder
<1>3. ASSUME NEW o \in ApprovedOrders, NEW changed \in ApprovedOrders, AmendOrder(o, changed)
      PROVE  CodecInv'
  BY <1>3, AmendKeepsCodec
<1>4. ASSUME NEW client \in DOMAIN atVenue, VenueFills(client) PROVE CodecInv'
  BY <1>4, LeavingKeepsCodec DEF VenueFills
<1>5. ASSUME NEW m \in answers, ReadAnswer(m) PROVE CodecInv'
  BY <1>5, ReadKeepsCodec
<1>6. CASE SaveTable \/ RestoreTable \/ UNCHANGED codecVars
  <2>1. UNCHANGED <<sent, atVenue, read>>
    BY <1>6 DEF SaveTable, RestoreTable, codecVars
  <2>2. \A c \in DOMAIN atVenue' : c \in DOMAIN sent' /\ AsksFor(atVenue'[c], sent'[c])
    BY <2>1 DEF CodecInv
  <2>3. /\ \A c \in DOMAIN tracked' : c = ClientIdOf(tracked'[c])
        /\ \A c \in DOMAIN savedTable' : c = ClientIdOf(savedTable'[c])
    BY <1>6 DEF SaveTable, RestoreTable, codecVars, CodecInv
  <2> QED
    BY <2>1, <2>2, <2>3 DEF CodecInv, ClientIdOf, Unattributed
<1> QED
  BY <1>1, <1>2, <1>3, <1>4, <1>5, <1>6 DEF CodecNext

(***************************************************************************)
(* The venue works what risk approved and its answers reach their order or *)
(* none (VenueWorksWhatWasApproved): after any sends, amendments, fills,   *)
(* answers in any order, saves and restores of the listener's table.       *)
(***************************************************************************)
THEOREM VenueIsFaithful == CodecSpec => []VenueWorksWhatWasApproved
<1>1. CodecInit => CodecInv
  BY DEF CodecInit, CodecInv
<1>2. CodecInv => VenueWorksWhatWasApproved
  <2> SUFFICES ASSUME CodecInv PROVE VenueWorksWhatWasApproved
    OBVIOUS
  <2>1. ASSUME NEW c \in DOMAIN atVenue
        PROVE  LET o == sent[c][Len(sent[c])]
                   v == atVenue[c]
               IN  /\ c = <<"ptl", o.id>> /\ o \in ApprovedOrders
                   /\ v.symbol = SymbolOf[o.instrument] /\ (v.side = "buy") = (o.side = "Buy")
                   /\ v.quantity = o.quantity
                   /\ IsLastGiven(v.limit, LimitsOf(sent[c]))
                   /\ IsLastGiven(v.stop, StopsOf(sent[c]))
                   /\ v.tif = TifWord(o.tif) /\ v.type = TypeWord(sent[c][1].type)
                   /\ o.tif \in AtOnce => v.type # "market"
    <3>1. AsksFor(atVenue[c], sent[c])
      BY DEF CodecInv
    <3>2. Amending(sent[c], c)
      BY DEF CodecInv
    <3>3. LET o == sent[c][Len(sent[c])]
          IN  o \in ApprovedOrders /\ c = <<"ptl", o.id>>
      BY <3>2 DEF Amending, ClientIdOf
    <3> QED
      BY <3>1, <3>3 DEF AsksFor, LastSent
  <2>2. ASSUME NEW r \in read, r.update # Unattributed
        PROVE  r.message.client = <<"ptl", r.update.order>>
    BY <2>2 DEF CodecInv, ClientIdOf
  <2>3. ASSUME NEW c \in DOMAIN atVenue
        PROVE  sent[c][Len(sent[c])].tif
                 \in {"Day", "GoodTillCancel", "ImmediateOrCancel", "FillOrKill"}
    BY <2>1, ApprovedAssumption
  <2> QED
    BY <2>1, <2>2, <2>3 DEF VenueWorksWhatWasApproved, TifWord, AtOnce
<1> QED
  BY <1>1, <1>2, StepCodec, PTL DEF CodecSpec

-----------------------------------------------------------------------------
(***************************************************************************)
(* QuoteRouting.  The quote held is the last one kept and the latest that  *)
(* came, crossed ones aside; nothing is held as long as all that came was  *)
(* crossed.                                                                *)
(***************************************************************************)
Quotes == [bid : Int, ask : Int, at : Int]
KeptArrivals == {i \in DOMAIN arrivals : arrivals[i].kept}

QuoteTyped ==
  /\ arrivals \in Seq([quote : Quotes, kept : BOOLEAN])
  /\ entry \in [known : BOOLEAN, present : BOOLEAN, quote : Quotes, market : TradingStates]
  /\ bookStats \in [accepted : Nat, late : Nat, crossed : Nat]
  /\ quoteNow \in Nat
  /\ entry.present => entry.known

LastKeptIsHeld ==
  IF entry.present
  THEN /\ \E i \in KeptArrivals : arrivals[i].quote = entry.quote /\ \A j \in KeptArrivals : j <= i
       /\ \A i \in DOMAIN arrivals :
            arrivals[i].quote.at <= entry.quote.at \/ Crossed(arrivals[i].quote)
  ELSE KeptArrivals = {} /\ \A i \in DOMAIN arrivals : Crossed(arrivals[i].quote)

KeptInOrder ==
  /\ \A i, j \in KeptArrivals : i <= j => arrivals[i].quote.at <= arrivals[j].quote.at
  /\ entry.present => \A i \in KeptArrivals : arrivals[i].quote.at <= entry.quote.at

ArrivalsCounted ==
  /\ bookStats.accepted = Cardinality(KeptArrivals)
  /\ RejectCrossed => Len(arrivals) = bookStats.accepted + bookStats.late + bookStats.crossed

QuoteInv == QuoteTyped /\ LastKeptIsHeld /\ KeptInOrder /\ ArrivalsCounted

(***************************************************************************)
(* An entry is there on first use, and holds what it held.                 *)
(***************************************************************************)
LEMMA EntryOnUse ==
  ASSUME QuoteTyped
  PROVE  /\ Entry \in [known : BOOLEAN, present : BOOLEAN, quote : Quotes, market : TradingStates]
         /\ Entry.known
         /\ Entry.present <=> entry.present
         /\ entry.present => Entry = entry
BY DEF QuoteTyped, Entry, NoQuote, TradingStates, Quotes

(***************************************************************************)
(* What holds of the quotes survives a step that leaves the arrivals, the  *)
(* counters and the quote held as they were.                               *)
(***************************************************************************)
LEMMA SameQuoteKeeps ==
  ASSUME QuoteInv, UNCHANGED <<arrivals, bookStats>>, QuoteTyped',
         entry'.present <=> entry.present, entry.present => entry'.quote = entry.quote
  PROVE  QuoteInv'
<1>1. KeptArrivals' = KeptArrivals
  BY DEF KeptArrivals
<1>2. LastKeptIsHeld'
  BY <1>1 DEF QuoteInv, LastKeptIsHeld, Crossed
<1>3. KeptInOrder'
  BY <1>1 DEF QuoteInv, KeptInOrder
<1>4. ArrivalsCounted'
  BY <1>1 DEF QuoteInv, ArrivalsCounted
<1> QED
  BY <1>2, <1>3, <1>4 DEF QuoteInv

(***************************************************************************)
(* The set of arrivals that were kept grows by the one that is kept.       *)
(***************************************************************************)
LEMMA KeptGrows ==
  ASSUME QuoteTyped, NEW q \in Quotes, NEW keep \in BOOLEAN,
         arrivals' = Append(arrivals, [quote |-> q, kept |-> keep])
  PROVE  /\ arrivals' \in Seq([quote : Quotes, kept : BOOLEAN])
         /\ Len(arrivals) \in Nat /\ Len(arrivals') = Len(arrivals) + 1
         /\ DOMAIN arrivals = 1..Len(arrivals)
         /\ DOMAIN arrivals' = DOMAIN arrivals \cup {Len(arrivals) + 1}
         /\ \A i \in DOMAIN arrivals : arrivals'[i] = arrivals[i] /\ i < Len(arrivals) + 1
         /\ arrivals'[Len(arrivals) + 1].quote = q
         /\ keep => KeptArrivals' = KeptArrivals \cup {Len(arrivals) + 1}
         /\ ~keep => KeptArrivals' = KeptArrivals
         /\ KeptArrivals \subseteq DOMAIN arrivals
         /\ Cardinality(KeptArrivals) \in Nat
         /\ keep => Cardinality(KeptArrivals') = Cardinality(KeptArrivals) + 1
<1> DEFINE n == Len(arrivals) + 1
           last == [quote |-> q, kept |-> keep]
<1>1. last \in [quote : Quotes, kept : BOOLEAN] /\ last.quote = q /\ last.kept = keep
  OBVIOUS
<1>2. arrivals \in Seq([quote : Quotes, kept : BOOLEAN])
  BY DEF QuoteTyped
<1> HIDE DEF last
<1>3. arrivals' = Append(arrivals, last)
  BY DEF last
<1>4. /\ arrivals' \in Seq([quote : Quotes, kept : BOOLEAN])
      /\ Len(arrivals) \in Nat /\ Len(arrivals') = n
      /\ DOMAIN arrivals = 1..Len(arrivals) /\ DOMAIN arrivals' = 1..n
      /\ \A i \in DOMAIN arrivals : arrivals'[i] = arrivals[i]
      /\ arrivals'[n] = last
  BY <1>1, <1>2, <1>3
<1>5. DOMAIN arrivals' = DOMAIN arrivals \cup {n} /\ n \notin DOMAIN arrivals
      /\ \A i \in DOMAIN arrivals : i < n
  BY <1>4
<1> HIDE DEF n
<1>6. ASSUME keep PROVE KeptArrivals' = KeptArrivals \cup {n}
  <2>1. arrivals'[n].kept
    BY <1>1, <1>4, <1>6
  <2>2. KeptArrivals' = KeptArrivals \cup {n}
    BY <1>4, <1>5, <2>1 DEF KeptArrivals
  <2> QED
    BY <2>2
<1>7. ASSUME ~keep PROVE KeptArrivals' = KeptArrivals
  <2>1. ~arrivals'[n].kept
    BY <1>1, <1>4, <1>7
  <2>2. KeptArrivals' = KeptArrivals
    BY <1>4, <1>5, <2>1 DEF KeptArrivals
  <2> QED
    BY <2>2
<1>8. /\ IsFiniteSet(KeptArrivals) /\ KeptArrivals \subseteq DOMAIN arrivals
      /\ Cardinality(KeptArrivals) \in Nat /\ n \notin KeptArrivals
  <2>1. IsFiniteSet(1..Len(arrivals)) /\ KeptArrivals \subseteq DOMAIN arrivals
    BY <1>4, FS_Interval DEF KeptArrivals
  <2> QED
    BY <1>4, <1>5, <2>1, FS_Subset, FS_CardinalityType
<1>9. keep => Cardinality(KeptArrivals') = Cardinality(KeptArrivals) + 1
  BY <1>6, <1>8, FS_AddElement
<1> QED
  BY <1>1, <1>4, <1>5, <1>6, <1>7, <1>8, <1>9 DEF n

LEMMA ArrivalKeepsQuotes ==
  ASSUME QuoteInv, NEW touch \in Touches, NEW at \in 0..MaxQuoteTime, QuoteArrives(touch, at)
  PROVE  QuoteInv'
<1> DEFINE q == [bid |-> touch.bid, ask |-> touch.ask, at |-> at]
           keep == QuoteInOrder(q) /\ ~(Crossed(q) /\ RejectCrossed)
           n == Len(arrivals) + 1
<1>1. q \in Quotes /\ q.at = at
  BY QuoteAssumption DEF Quotes
<1>2. keep \in BOOLEAN
  OBVIOUS
<1>3. arrivals' = Append(arrivals, [quote |-> q, kept |-> keep])
  BY DEF QuoteArrives
<1>4. /\ entry' = IF keep THEN [Entry EXCEPT !.quote = q, !.present = TRUE] ELSE Entry
      /\ bookStats' =
           [accepted |-> bookStats.accepted + (IF keep THEN 1 ELSE 0),
            late     |-> bookStats.late + (IF QuoteInOrder(q) THEN 0 ELSE 1),
            crossed  |-> bookStats.crossed + (IF QuoteInOrder(q) /\ Crossed(q) THEN 1 ELSE 0)]
      /\ quoteNow' = quoteNow
  BY DEF QuoteArrives
<1>5. QuoteInOrder(q) <=> (~entry.present \/ q.at >= entry.quote.at)
  BY EntryOnUse DEF QuoteInv, QuoteInOrder
<1>6. QuoteInOrder(q) \in BOOLEAN /\ Crossed(q) \in BOOLEAN
  BY DEF QuoteInOrder, Crossed
<1>7. keep <=> QuoteInOrder(q) /\ ~(Crossed(q) /\ RejectCrossed)
  OBVIOUS
<1> HIDE DEF q, keep
<1>8. QuoteTyped
  BY DEF QuoteInv
<1>9. /\ arrivals' \in Seq([quote : Quotes, kept : BOOLEAN])
      /\ Len(arrivals) \in Nat /\ Len(arrivals') = n
      /\ DOMAIN arrivals' = DOMAIN arrivals \cup {n}
      /\ \A i \in DOMAIN arrivals : arrivals'[i] = arrivals[i] /\ i < n
      /\ arrivals'[n].quote = q
      /\ keep => KeptArrivals' = KeptArrivals \cup {n}
      /\ ~keep => KeptArrivals' = KeptArrivals
      /\ KeptArrivals \subseteq DOMAIN arrivals
      /\ Cardinality(KeptArrivals) \in Nat
      /\ keep => Cardinality(KeptArrivals') = Cardinality(KeptArrivals) + 1
      /\ DOMAIN arrivals = 1..Len(arrivals)
  BY <1>1, <1>2, <1>3, <1>8, KeptGrows DEF n
<1>10. \A i \in DOMAIN arrivals' : arrivals'[i].quote \in Quotes
  <2> DEFINE R == [quote : Quotes, kept : BOOLEAN]
  <2>1. arrivals' \in Seq(R)
    BY <1>9
  <2>2. \A r \in R : r.quote \in Quotes
    OBVIOUS
  <2> HIDE DEF R
  <2>3. \A i \in DOMAIN arrivals' : arrivals'[i] \in R
    BY <2>1
  <2> QED
    BY <2>2, <2>3
<1>11. n \in Nat /\ n \in DOMAIN arrivals'
  BY <1>9 DEF n
<1> HIDE DEF n
<1>12. /\ entry'.present <=> (keep \/ entry.present)
       /\ entry'.quote = IF keep THEN q ELSE Entry.quote
       /\ entry' \in [known : BOOLEAN, present : BOOLEAN, quote : Quotes, market : TradingStates]
       /\ entry'.known
  BY <1>1, <1>4, <1>8, EntryOnUse
<1>13. entry.present => Entry.quote = entry.quote
  BY <1>8, EntryOnUse
<1>14. QuoteTyped'
  <2>1. bookStats' \in [accepted : Nat, late : Nat, crossed : Nat]
    BY <1>4, <1>8 DEF QuoteTyped
  <2> QED
    BY <1>4, <1>8, <1>9, <1>12, <2>1 DEF QuoteTyped
<1>15. LastKeptIsHeld'
  <2>1. CASE keep
    <3>1. entry'.present /\ entry'.quote = q /\ KeptArrivals' = KeptArrivals \cup {n}
      BY <1>9, <1>12, <2>1
    <3>2. \A j \in KeptArrivals' : j <= n
      BY <1>9, <1>11, <3>1
    <3>3. \A i \in DOMAIN arrivals : arrivals[i].quote.at <= q.at \/ Crossed(arrivals[i].quote)
      <4>1. CASE entry.present
        <5>1. q.at >= entry.quote.at
          BY <1>5, <1>7, <2>1, <4>1
        <5>2. \A i \in DOMAIN arrivals :
                arrivals[i].quote.at <= entry.quote.at \/ Crossed(arrivals[i].quote)
          BY <4>1 DEF QuoteInv, LastKeptIsHeld
        <5>3. \A i \in DOMAIN arrivals : arrivals[i].quote \in Quotes
          BY <1>9, <1>10
        <5>4. entry.quote \in Quotes
          BY <1>8 DEF QuoteTyped
        <5> QED
          BY <1>1, <5>1, <5>2, <5>3, <5>4 DEF Quotes
      <4>2. CASE ~entry.present
        BY <4>2 DEF QuoteInv, LastKeptIsHeld
      <4> QED
        BY <4>1, <4>2
    <3>4. q.at <= q.at
      BY <1>1 DEF Quotes
    <3>5. \A i \in DOMAIN arrivals' :
            arrivals'[i].quote.at <= q.at \/ Crossed(arrivals'[i].quote)
      BY <1>9, <3>3, <3>4
    <3> QED
      BY <1>9, <3>1, <3>2, <3>5 DEF LastKeptIsHeld, Crossed
  <2>2. CASE ~keep
    <3>1. KeptArrivals' = KeptArrivals /\ (entry'.present <=> entry.present)
      BY <1>9, <1>12, <2>2
    <3>2. CASE entry.present
      <4>1. entry'.quote = entry.quote
        BY <1>12, <1>13, <2>2, <3>2
      <4>2. q.at <= entry.quote.at \/ Crossed(q)
        <5>1. ~QuoteInOrder(q) => ~(q.at >= entry.quote.at)
          BY <1>5
        <5>2. entry.quote \in Quotes
          BY <1>8 DEF QuoteTyped
        <5>3. ~(q.at >= entry.quote.at) => q.at <= entry.quote.at
          BY <1>1, <5>2 DEF Quotes
        <5> QED
          BY <1>7, <2>2, <5>1, <5>3
      <4>3. \A i \in DOMAIN arrivals' :
              arrivals'[i].quote.at <= entry.quote.at \/ Crossed(arrivals'[i].quote)
        BY <1>9, <3>2, <4>2 DEF QuoteInv, LastKeptIsHeld
      <4>4. \E i \in KeptArrivals : arrivals'[i].quote = entry.quote /\ \A j \in KeptArrivals : j <= i
        BY <1>9, <3>2 DEF QuoteInv, LastKeptIsHeld
      <4> QED
        BY <3>1, <3>2, <4>1, <4>3, <4>4 DEF LastKeptIsHeld, Crossed
    <3>3. CASE ~entry.present
      <4>1. Crossed(q)
        BY <1>5, <1>7, <2>2, <3>3
      <4>2. KeptArrivals = {} /\ \A i \in DOMAIN arrivals : Crossed(arrivals[i].quote)
        BY <3>3 DEF QuoteInv, LastKeptIsHeld
      <4>3. \A i \in DOMAIN arrivals' : Crossed(arrivals'[i].quote)
        BY <1>9, <4>1, <4>2
      <4> QED
        BY <3>1, <3>3, <4>2, <4>3 DEF LastKeptIsHeld, Crossed
    <3> QED
      BY <3>2, <3>3
  <2> QED
    BY <2>1, <2>2
<1>16. KeptInOrder'
  <2>1. CASE keep
    <3>1. entry'.present /\ entry'.quote = q /\ KeptArrivals' = KeptArrivals \cup {n}
      BY <1>9, <1>12, <2>1
    <3>2. \A i \in KeptArrivals : arrivals[i].quote.at <= q.at
      <4>1. CASE entry.present
        <5>1. q.at >= entry.quote.at
          BY <1>5, <1>7, <2>1, <4>1
        <5>2. \A i \in KeptArrivals : arrivals[i].quote.at <= entry.quote.at
          BY <4>1 DEF QuoteInv, KeptInOrder
        <5>3. \A i \in KeptArrivals : arrivals[i].quote \in Quotes
          BY <1>9, <1>10
        <5>4. entry.quote \in Quotes
          BY <1>8 DEF QuoteTyped
        <5> QED
          BY <1>1, <5>1, <5>2, <5>3, <5>4 DEF Quotes
      <4>2. CASE ~entry.present
        BY <4>2 DEF QuoteInv, LastKeptIsHeld
      <4> QED
        BY <4>1, <4>2
    <3>3. q.at <= q.at
      BY <1>1 DEF Quotes
    <3>4. \A i \in KeptArrivals' : arrivals'[i].quote.at <= q.at
      BY <1>9, <3>1, <3>2, <3>3
    <3>5. \A i, j \in KeptArrivals' : i <= j => arrivals'[i].quote.at <= arrivals'[j].quote.at
      <4> SUFFICES ASSUME NEW i \in KeptArrivals', NEW j \in KeptArrivals', i <= j
                   PROVE  arrivals'[i].quote.at <= arrivals'[j].quote.at
        OBVIOUS
      <4>1. CASE j = n
        BY <1>9, <3>4, <4>1
      <4>2. CASE j # n
        <5>1. j \in KeptArrivals /\ j \in DOMAIN arrivals /\ j < n
          BY <1>9, <3>1, <4>2
        <5>2. i # n
          BY <1>9, <1>11, <5>1
        <5>3. i \in KeptArrivals /\ i \in DOMAIN arrivals
          BY <1>9, <3>1, <5>2
        <5> QED
          BY <1>9, <5>1, <5>3 DEF QuoteInv, KeptInOrder
      <4> QED
        BY <4>1, <4>2
    <3> QED
      BY <3>1, <3>4, <3>5 DEF KeptInOrder
  <2>2. CASE ~keep
    <3>1. KeptArrivals' = KeptArrivals /\ (entry'.present <=> entry.present)
      BY <1>9, <1>12, <2>2
    <3>2. entry.present => entry'.quote = entry.quote
      BY <1>12, <1>13, <2>2
    <3>3. \A i \in KeptArrivals : arrivals'[i] = arrivals[i]
      BY <1>9
    <3> QED
      BY <3>1, <3>2, <3>3 DEF QuoteInv, KeptInOrder
  <2> QED
    BY <2>1, <2>2
<1>17. ArrivalsCounted'
  <2>1. /\ Cardinality(KeptArrivals) \in Nat /\ bookStats.accepted = Cardinality(KeptArrivals)
        /\ RejectCrossed => Len(arrivals) = bookStats.accepted + bookStats.late + bookStats.crossed
    BY <1>9 DEF QuoteInv, ArrivalsCounted
  <2>2. bookStats.late \in Nat /\ bookStats.crossed \in Nat
    BY <1>8 DEF QuoteTyped
  <2>3. /\ bookStats'.accepted = bookStats.accepted + (IF keep THEN 1 ELSE 0)
        /\ bookStats'.late = bookStats.late + (IF QuoteInOrder(q) THEN 0 ELSE 1)
        /\ bookStats'.crossed = bookStats.crossed + (IF QuoteInOrder(q) /\ Crossed(q) THEN 1 ELSE 0)
    BY <1>4
  <2>4. bookStats'.accepted = Cardinality(KeptArrivals')
    BY <1>9, <2>1, <2>3
  <2>5. Len(arrivals') = Len(arrivals) + 1
    BY <1>9 DEF n
  <2>6. RejectCrossed =>
          (IF keep THEN 1 ELSE 0) + (IF QuoteInOrder(q) THEN 0 ELSE 1)
            + (IF QuoteInOrder(q) /\ Crossed(q) THEN 1 ELSE 0) = 1
    BY <1>7
  <2>7. RejectCrossed => Len(arrivals') = bookStats'.accepted + bookStats'.late + bookStats'.crossed
    BY <2>1, <2>2, <2>3, <2>5, <2>6, <1>9, SMTT(20)
  <2> QED
    BY <2>4, <2>7 DEF ArrivalsCounted
<1> QED
  BY <1>14, <1>15, <1>16, <1>17 DEF QuoteInv

LEMMA StepQuotes == QuoteInv /\ [QuoteNext]_quoteVars => QuoteInv'
<1> SUFFICES ASSUME QuoteInv, [QuoteNext]_quoteVars PROVE QuoteInv'
  OBVIOUS
<1>1. ASSUME NEW touch \in Touches, NEW at \in 0..MaxQuoteTime, QuoteArrives(touch, at)
      PROVE  QuoteInv'
  BY <1>1, ArrivalKeepsQuotes
<1>2. ASSUME NEW to \in TradingStates, MarketTurns(to) PROVE QuoteInv'
  <2>1. QuoteTyped
    BY DEF QuoteInv
  <2>2. /\ entry' \in [known : BOOLEAN, present : BOOLEAN, quote : Quotes, market : TradingStates]
        /\ entry'.known /\ (entry'.present <=> entry.present)
        /\ entry.present => entry'.quote = entry.quote
    BY <1>2, <2>1, EntryOnUse DEF MarketTurns
  <2>3. QuoteTyped'
    BY <1>2, <2>1, <2>2 DEF MarketTurns, QuoteTyped
  <2> QED
    BY <1>2, <2>2, <2>3, SameQuoteKeeps DEF MarketTurns
<1>3. CASE QuoteClock \/ UNCHANGED quoteVars
  <2>1. QuoteTyped' /\ UNCHANGED <<entry, arrivals, bookStats>>
    BY <1>3 DEF QuoteInv, QuoteTyped, QuoteClock, quoteVars
  <2> QED
    BY <2>1, SameQuoteKeeps
<1>4. CASE ForgetQuotes
  <2>1. arrivals' = <<>> /\ entry' = NoEntry
        /\ bookStats' = [accepted |-> 0, late |-> 0, crossed |-> 0] /\ quoteNow' = quoteNow
    BY <1>4 DEF ForgetQuotes
  <2>2. KeptArrivals' = {} /\ DOMAIN arrivals' = {} /\ Len(arrivals') = 0
    BY <2>1 DEF KeptArrivals
  <2>3. Cardinality(KeptArrivals') = 0
    BY <2>2, FS_EmptySet
  <2>4. QuoteTyped'
    BY <2>1 DEF QuoteInv, QuoteTyped, NoEntry, NoQuote, TradingStates, Quotes
  <2> QED
    BY <2>1, <2>2, <2>3, <2>4 DEF QuoteInv, LastKeptIsHeld, KeptInOrder, ArrivalsCounted, NoEntry
<1> QED
  BY <1>1, <1>2, <1>3, <1>4 DEF QuoteNext

LEMMA InitQuotes == QuoteInit => QuoteInv
<1> SUFFICES ASSUME QuoteInit PROVE QuoteInv
  OBVIOUS
<1>1. KeptArrivals = {} /\ DOMAIN arrivals = {} /\ Len(arrivals) = 0
  BY DEF QuoteInit, KeptArrivals
<1>2. Cardinality(KeptArrivals) = 0
  BY <1>1, FS_EmptySet
<1>3. QuoteTyped
  BY DEF QuoteInit, QuoteTyped, NoEntry, NoQuote, TradingStates, Quotes
<1> QED
  BY <1>1, <1>2, <1>3 DEF QuoteInit, QuoteInv, LastKeptIsHeld, KeptInOrder, ArrivalsCounted, NoEntry

(***************************************************************************)
(* What is routed is the last quote kept, and the newest.                  *)
(***************************************************************************)
LEMMA HeldIsCurrent == QuoteInv => RoutedQuoteIsCurrent
<1> SUFFICES ASSUME QuoteInv PROVE RoutedQuoteIsCurrent
  OBVIOUS
<1>1. QuoteTyped
  BY DEF QuoteInv
<1>2. ASSUME RouteQuote.source = "quote"
      PROVE  /\ entry.present /\ entry.market = "trading" /\ RefusalReason = "executable"
             /\ entry.quote.at \in (quoteNow - StalenessBudget)..quoteNow
             /\ entry.quote.bid <= entry.quote.ask
  <2>1. Executable
    BY <1>2 DEF RouteQuote
  <2>2. entry.present /\ entry.market = "trading" /\ QuoteCondition \in {"normal", "locked"}
    BY <2>1 DEF Executable
  <2>3. ~StaleAt(quoteNow - entry.quote.at) /\ ~Crossed(entry.quote)
    BY <2>2 DEF QuoteCondition
  <2>4. entry.quote.at \in Int /\ entry.quote.bid \in Int /\ entry.quote.ask \in Int /\ quoteNow \in Nat
    BY <1>1 DEF QuoteTyped, Quotes
  <2>5. entry.quote.at \in (quoteNow - StalenessBudget)..quoteNow /\ entry.quote.bid <= entry.quote.ask
    BY <2>3, <2>4, QuoteAssumption DEF StaleAt, Crossed
  <2>6. RefusalReason = "executable"
    BY <2>2 DEF RefusalReason
  <2> QED
    BY <2>2, <2>5, <2>6
<1>3. ASSUME entry.present
      PROVE  /\ \E i \in KeptArrivals : arrivals[i].quote = entry.quote /\ (\A j \in KeptArrivals : j <= i)
             /\ \A i \in DOMAIN arrivals :
                  arrivals[i].quote.at <= entry.quote.at \/ arrivals[i].quote.bid > arrivals[i].quote.ask
  <2>1. \A i \in DOMAIN arrivals : arrivals[i].quote.bid \in Int /\ arrivals[i].quote.ask \in Int
    <3> DEFINE R == [quote : Quotes, kept : BOOLEAN]
    <3>1. arrivals \in Seq(R)
      BY <1>1 DEF QuoteTyped
    <3>2. \A r \in R : r.quote.bid \in Int /\ r.quote.ask \in Int
      BY DEF Quotes
    <3> HIDE DEF R
    <3>3. \A i \in DOMAIN arrivals : arrivals[i] \in R
      BY <3>1
    <3> QED
      BY <3>2, <3>3
  <2>2. \A i \in DOMAIN arrivals :
          Crossed(arrivals[i].quote) => arrivals[i].quote.bid > arrivals[i].quote.ask
    BY <2>1 DEF Crossed
  <2> QED
    BY <1>3, <2>2 DEF QuoteInv, LastKeptIsHeld
<1>4. (KeptArrivals # {} /\ entry.market = "halted") => RoutePreferringQuote(1).source = "none"
  <2> SUFFICES ASSUME KeptArrivals # {}, entry.market = "halted"
               PROVE  RoutePreferringQuote(1).source = "none"
    OBVIOUS
  <2>1. entry.present
    BY DEF QuoteInv, LastKeptIsHeld
  <2>2. ~Executable /\ HaltSeen
    BY <2>1 DEF Executable, HaltSeen
  <2> QED
    BY <2>2 DEF RoutePreferringQuote, RouteQuote
<1>5. \A i \in KeptArrivals : \A j \in 1..i-1 :
        arrivals[j].kept => arrivals[j].quote.at <= arrivals[i].quote.at
  <2> SUFFICES ASSUME NEW i \in KeptArrivals, NEW j \in 1..i-1, arrivals[j].kept
               PROVE  arrivals[j].quote.at <= arrivals[i].quote.at
    OBVIOUS
  <2>1. DOMAIN arrivals = 1..Len(arrivals) /\ Len(arrivals) \in Nat
    BY <1>1 DEF QuoteTyped
  <2>2. i \in DOMAIN arrivals
    BY DEF KeptArrivals
  <2>3. j \in DOMAIN arrivals /\ j <= i
    BY <2>1, <2>2
  <2>4. j \in KeptArrivals
    BY <2>3 DEF KeptArrivals
  <2> QED
    BY <2>3, <2>4 DEF QuoteInv, KeptInOrder
<1>6. /\ bookStats.accepted = Cardinality(KeptArrivals)
      /\ RejectCrossed => Len(arrivals) = bookStats.accepted + bookStats.late + bookStats.crossed
  BY DEF QuoteInv, ArrivalsCounted
<1> QED
  BY <1>2, <1>3, <1>4, <1>5, <1>6 DEF RoutedQuoteIsCurrent, KeptArrivals

(***************************************************************************)
(* Orders are priced on the newest quote or on none (RoutedQuoteIsCurrent): *)
(* over quotes in any order, crossed and late ones, halts and resets.      *)
(***************************************************************************)
THEOREM RoutedQuotesAreCurrent == QuoteSpec => []RoutedQuoteIsCurrent
<1> QED
  BY InitQuotes, StepQuotes, HeldIsCurrent, PTL DEF QuoteSpec

-----------------------------------------------------------------------------
(***************************************************************************)
(* MarketFeed.  While requests do not overlap, one of them at most is      *)
(* under way, and what it still has to do makes up for what the provider's *)
(* symbols and the vendor's lack: a live symbol is streamed, or a request  *)
(* is about to tell the vendor.                                            *)
(***************************************************************************)
VendorFields == {"authenticated", "streams", "says", "sent"}
RequestKeys == {"step", "want", "removed", "added", "live"}

ConnectionSound ==
  /\ DOMAIN vendor = VendorFields
  /\ socket = "open" => streaming \in {"authenticating", "subscribing", "receiving"}
  /\ socket = "open" /\ streaming \in {"subscribing", "receiving"} => vendor.authenticated

\* What a request under way has left to do.
StepSound(r) ==
  LET doing == handling[r]
  IN  /\ doing.step \in {"removing", "unsubscribing"} => ~doing.live
      /\ doing.step = "removing" => /\ watchlist \subseteq liveSymbols
                                    /\ doing.removed = watchlist \ doing.want
                                    /\ doing.added = doing.want \ watchlist
      /\ doing.step = "unsubscribing" => doing.removed \cap liveSymbols = {}
      /\ doing.step \in {"unsubscribing", "adding"} /\ ~doing.live =>
           doing.want \subseteq liveSymbols \cup doing.added
      /\ doing.step \in {"adding", "subscribing", "switching"} /\ doing.live => doing.want = watchlist
      /\ doing.step \in {"subscribing", "switching"} => doing.want \subseteq liveSymbols
      /\ doing.step = "switching" => doing.live
      /\ doing.step = "listing" /\ feedMode = "live" => doing.want \subseteq liveSymbols

OneAtATime ==
  \A r, other \in Requests :
    handling[r].step # "idle" /\ handling[other].step # "idle" => r = other

StreamedOrTold ==
  (streaming = "receiving" /\ socket = "open") =>
    \A s \in liveSymbols :
      s \in vendor.streams \/ \E r \in Requests : handling[r].step = "subscribing" /\ s \in handling[r].added

RequestsSound ==
  /\ DOMAIN handling = Requests /\ \A r \in Requests : DOMAIN handling[r] = RequestKeys
  /\ overlapped \in BOOLEAN
  /\ ~overlapped => /\ OneAtATime /\ StreamedOrTold
                    /\ \A r \in Requests : StepSound(r)
                    /\ Quiet /\ feedMode = "live" => watchlist \subseteq liveSymbols

FeedInv == ConnectionSound /\ RequestsSound

(***************************************************************************)
(* What the vendor makes of a message.                                     *)
(***************************************************************************)
LEMMA HearsAuth ==
  ASSUME DOMAIN vendor = VendorFields, vendor' = VendorHears([action |-> "auth"])
  PROVE  /\ DOMAIN vendor' = VendorFields /\ vendor'.streams = vendor.streams
         /\ socket = "open" => vendor'.authenticated
<1> DEFINE m == [action |-> "auth"]
<1>1. m.action = "auth"
  OBVIOUS
<1> HIDE DEF m
<1>2. vendor' = VendorHears(m)
  BY DEF m
<1> QED
  BY <1>1, <1>2 DEF VendorHears, VendorFields

LEMMA HearsSubscribe ==
  ASSUME DOMAIN vendor = VendorFields, NEW S,
         vendor' = VendorHears([action |-> "subscribe", symbols |-> S])
  PROVE  /\ DOMAIN vendor' = VendorFields /\ vendor'.authenticated = vendor.authenticated
         /\ \A s \in vendor.streams : s \in vendor'.streams
         /\ socket = "open" /\ vendor.authenticated => \A s \in S : s \in vendor'.streams
<1> DEFINE m == [action |-> "subscribe", symbols |-> S]
<1>1. m.action = "subscribe" /\ m.symbols = S
  OBVIOUS
<1> HIDE DEF m
<1>2. vendor' = VendorHears(m)
  BY DEF m
<1> QED
  BY <1>1, <1>2 DEF VendorHears, VendorFields

LEMMA HearsUnsubscribe ==
  ASSUME DOMAIN vendor = VendorFields, NEW S,
         vendor' = VendorHears([action |-> "unsubscribe", symbols |-> S])
  PROVE  /\ DOMAIN vendor' = VendorFields /\ vendor'.authenticated = vendor.authenticated
         /\ \A s \in vendor.streams : s \in S \/ s \in vendor'.streams
<1> DEFINE m == [action |-> "unsubscribe", symbols |-> S]
<1>1. m.action = "unsubscribe" /\ m.symbols = S
  OBVIOUS
<1> HIDE DEF m
<1>2. vendor' = VendorHears(m)
  BY DEF m
<1> QED
  BY <1>1, <1>2 DEF VendorHears, VendorFields

(***************************************************************************)
(* The steps of the vendor and of the thread that reads the stream.        *)
(***************************************************************************)
LEMMA RequestsUntouched ==
  ASSUME RequestsSound, UNCHANGED <<serviceVars, liveSymbols, requestVars>>, StreamedOrTold'
  PROVE  RequestsSound'
<1>1. \A r \in Requests : StepSound(r) => StepSound(r)'
  BY DEF StepSound, serviceVars, requestVars
<1> QED
  BY <1>1 DEF RequestsSound, OneAtATime, Quiet, serviceVars, requestVars

LEMMA StreamStepKeeps ==
  ASSUME FeedInv, StreamStep \/ VendorSays \/ ConnectionBreaks
  PROVE  FeedInv'
<1>1. CASE Connected
  BY <1>1, RequestsUntouched DEF FeedInv, ConnectionSound, Connected, StreamedOrTold
<1>2. CASE Authenticates
  <2>1. DOMAIN vendor' = VendorFields /\ (socket = "open" => vendor'.authenticated)
    BY <1>2, HearsAuth DEF Authenticates, FeedInv, ConnectionSound
  <2> QED
    BY <1>2, <2>1, RequestsUntouched DEF FeedInv, ConnectionSound, Authenticates, StreamedOrTold
<1>3. CASE SubscribesAll
  <2>1. /\ streaming = "subscribing" /\ streaming' = "receiving"
        /\ UNCHANGED <<serviceVars, liveSymbols, socket, requestVars>>
        /\ vendor' = IF liveSymbols = {} THEN vendor
                     ELSE VendorHears([action |-> "subscribe", symbols |-> liveSymbols])
    BY <1>3 DEF SubscribesAll, ToSubscribe
  <2>2. DOMAIN vendor' = VendorFields /\ vendor'.authenticated = vendor.authenticated
        /\ (socket = "open" /\ vendor.authenticated => \A s \in liveSymbols : s \in vendor'.streams)
    BY <2>1, HearsSubscribe DEF FeedInv, ConnectionSound
  <2> QED
    BY <2>1, <2>2, RequestsUntouched DEF FeedInv, ConnectionSound, StreamedOrTold
<1>4. CASE StreamEnds
  BY <1>4, RequestsUntouched DEF FeedInv, ConnectionSound, StreamEnds, StreamedOrTold
<1>5. CASE Receives
  <2>1. /\ vendor' = [vendor EXCEPT !.says = Tail(@)]
        /\ UNCHANGED <<serviceVars, liveSymbols, socket, streaming, requestVars>>
    BY <1>5 DEF Receives
  <2>2. /\ DOMAIN vendor' = VendorFields /\ vendor'.authenticated = vendor.authenticated
        /\ vendor'.streams = vendor.streams
    BY <2>1 DEF FeedInv, ConnectionSound, VendorFields
  <2> QED
    BY <2>1, <2>2, RequestsUntouched DEF FeedInv, ConnectionSound, RequestsSound, StreamedOrTold, requestVars
<1>6. CASE Applies
  BY <1>6, RequestsUntouched
     DEF FeedInv, ConnectionSound, Applies, StreamedOrTold, RequestsSound, requestVars
<1>7. CASE VendorSays
  <2>1. PICK s, kind :
          /\ vendor' = [vendor EXCEPT !.sent = @ + 1,
                          !.says = Append(@, [kind |-> kind, symbol |-> s, number |-> vendor.sent + 1])]
          /\ UNCHANGED <<serviceVars, liveSymbols, socket, streaming, requestVars>>
    BY <1>7 DEF VendorSays
  <2>2. /\ DOMAIN vendor' = VendorFields /\ vendor'.authenticated = vendor.authenticated
        /\ vendor'.streams = vendor.streams
    BY <2>1 DEF FeedInv, ConnectionSound, VendorFields
  <2> QED
    BY <2>1, <2>2, RequestsUntouched DEF FeedInv, ConnectionSound, RequestsSound, StreamedOrTold, requestVars
<1>8. CASE ConnectionBreaks
  <2>1. DOMAIN vendor' = VendorFields
    BY <1>8 DEF FeedInv, ConnectionSound, ConnectionBreaks, VendorFields
  <2> QED
    BY <1>8, <2>1, RequestsUntouched DEF FeedInv, ConnectionSound, ConnectionBreaks, StreamedOrTold
<1> QED
  BY <1>1, <1>2, <1>3, <1>4, <1>5, <1>6, <1>7, <1>8 DEF StreamStep

(***************************************************************************)
(* A request moves while no other is under way: what is asked of it and of *)
(* what is shared is all there is to ask.                                  *)
(***************************************************************************)
LEMMA RequestMoves ==
  ASSUME RequestsSound, NEW r \in Requests, NEW request, DOMAIN request = RequestKeys,
         handling' = [handling EXCEPT ![r] = request], overlapped' \in BOOLEAN,
         ~overlapped' => ~overlapped,
         ~overlapped' => \A other \in Requests : other # r => handling[other].step = "idle",
         ~overlapped' => StepSound(r)' /\ StreamedOrTold',
         ~overlapped' /\ request.step = "idle" /\ feedMode' = "live" => watchlist' \subseteq liveSymbols'
  PROVE  RequestsSound'
<1>1. /\ DOMAIN handling' = Requests /\ handling'[r] = request
      /\ \A other \in Requests : other # r => handling'[other] = handling[other]
  BY DEF RequestsSound
<1>2. \A other \in Requests : DOMAIN handling'[other] = RequestKeys
  BY <1>1 DEF RequestsSound
<1>3. ASSUME ~overlapped' PROVE OneAtATime'
  BY <1>1, <1>3 DEF OneAtATime
<1>4. ASSUME ~overlapped', NEW other \in Requests PROVE StepSound(other)'
  BY <1>1, <1>4 DEF StepSound
<1>5. ASSUME ~overlapped', Quiet', feedMode' = "live" PROVE watchlist' \subseteq liveSymbols'
  BY <1>1, <1>5 DEF Quiet
<1> QED
  BY <1>1, <1>2, <1>3, <1>4, <1>5 DEF RequestsSound

(***************************************************************************)
(* A request under way is alone as long as none overlaps.                  *)
(***************************************************************************)
LEMMA Alone ==
  ASSUME RequestsSound, NEW r \in Requests, handling[r].step # "idle", UNCHANGED overlapped
  PROVE  /\ overlapped' \in BOOLEAN /\ (~overlapped' => ~overlapped)
         /\ ~overlapped' => \A other \in Requests : other # r => handling[other].step = "idle"
         /\ ~overlapped' => StepSound(r) /\ StreamedOrTold
BY DEF RequestsSound, OneAtATime

LEMMA BeginsAlone ==
  ASSUME RequestsSound, NEW r \in Requests, NEW request, DOMAIN request = RequestKeys,
         BeginRequest(r, request)
  PROVE  /\ handling' = [handling EXCEPT ![r] = request] /\ handling[r].step = "idle"
         /\ overlapped' \in BOOLEAN /\ (~overlapped' => ~overlapped)
         /\ ~overlapped' => \A other \in Requests : other # r => handling[other].step = "idle"
         /\ ~overlapped' => StepSound(r) /\ StreamedOrTold /\ Quiet
         /\ ~overlapped' /\ feedMode = "live" => watchlist \subseteq liveSymbols
<1>1. /\ handling' = [handling EXCEPT ![r] = request] /\ handling[r].step = "idle"
      /\ overlapped' = (overlapped \/ \E other \in Requests : handling[other].step # "idle")
  BY DEF BeginRequest
<1>2. overlapped' \in BOOLEAN
  BY <1>1
<1>3. ~overlapped' => ~overlapped /\ Quiet
  BY <1>1 DEF Quiet
<1> QED
  BY <1>1, <1>2, <1>3 DEF RequestsSound, Quiet

(***************************************************************************)
(* The steps of a request.                                                 *)
(***************************************************************************)
LEMMA AsksKeep ==
  ASSUME FeedInv, NEW r \in Requests,
         \/ AsksForReplay(r) \/ AsksForLive(r)
         \/ \E wanted \in SUBSET Symbols \ {{}} : AsksForWatchlist(r, wanted)
  PROVE  FeedInv'
<1>1. CASE AsksForReplay(r)
  <2> DEFINE request == [step |-> "idle", want |-> {}, removed |-> {}, added |-> {}, live |-> FALSE]
  <2>1. DOMAIN request = RequestKeys /\ request.step = "idle"
    BY DEF RequestKeys
  <2>2. BeginRequest(r, request) /\ feedMode' = "replay" /\ UNCHANGED <<watchlist, streamVars>>
    BY <1>1 DEF AsksForReplay
  <2> HIDE DEF request
  <2>3. handling' = [handling EXCEPT ![r] = request] /\ DOMAIN handling = Requests
    BY <2>1, <2>2, BeginsAlone DEF FeedInv, RequestsSound
  <2>4. handling'[r].step = "idle"
    BY <2>1, <2>3
  <2>5. StepSound(r)'
    BY <2>4 DEF StepSound
  <2>6. ~overlapped' => StreamedOrTold'
    BY <2>1, <2>2, <2>3, BeginsAlone DEF FeedInv, StreamedOrTold, streamVars
  <2>7. feedMode' # "live"
    BY <2>2
  <2>8. RequestsSound'
    BY <2>1, <2>2, <2>5, <2>6, <2>7, BeginsAlone, RequestMoves DEF FeedInv
  <2> QED
    BY <2>2, <2>8 DEF FeedInv, ConnectionSound, streamVars
<1>2. CASE AsksForLive(r)
  <2> DEFINE request == [step |-> "adding", want |-> watchlist, removed |-> {}, added |-> {}, live |-> TRUE]
  <2>1. /\ DOMAIN request = RequestKeys /\ request.step = "adding" /\ request.want = watchlist
        /\ request.live
    BY DEF RequestKeys
  <2>2. /\ BeginRequest(r, request)
        /\ streaming' = IF streaming \in {"none", "ended"} THEN "connecting" ELSE streaming
        /\ UNCHANGED <<feedMode, watchlist, liveSymbols, socket, vendor>>
    BY <1>2 DEF AsksForLive, serviceVars
  <2> HIDE DEF request
  <2>3. handling' = [handling EXCEPT ![r] = request] /\ DOMAIN handling = Requests
    BY <2>1, <2>2, BeginsAlone DEF FeedInv, RequestsSound
  <2>4. handling'[r] = request
    BY <2>3
  <2>5. StepSound(r)'
    BY <2>1, <2>2, <2>4 DEF StepSound
  <2>6. streaming' = "receiving" => streaming = "receiving"
    BY <2>2
  <2>7. ~overlapped' => StreamedOrTold'
    BY <2>1, <2>2, <2>3, <2>6, BeginsAlone DEF FeedInv, StreamedOrTold
  <2>8. request.step # "idle"
    BY <2>1
  <2>9. RequestsSound'
    BY <2>1, <2>2, <2>5, <2>7, <2>8, BeginsAlone, RequestMoves DEF FeedInv
  <2> QED
    BY <2>2, <2>9 DEF FeedInv, ConnectionSound
<1>3. ASSUME NEW wanted \in SUBSET Symbols \ {{}}, AsksForWatchlist(r, wanted) PROVE FeedInv'
  <2> DEFINE removed == watchlist \ wanted
             added == wanted \ watchlist
             step == IF feedMode = "live" THEN "removing" ELSE "listing"
             request == [step |-> step, want |-> wanted, removed |-> removed, added |-> added, live |-> FALSE]
  <2>1. /\ DOMAIN request = RequestKeys /\ request.step = step /\ request.want = wanted
        /\ request.removed = removed /\ request.added = added /\ ~request.live
    BY DEF RequestKeys
  <2>2. BeginRequest(r, request) /\ UNCHANGED <<feedMode, watchlist, streamVars>>
    BY <1>3 DEF AsksForWatchlist
  <2> HIDE DEF request
  <2>3. handling' = [handling EXCEPT ![r] = request] /\ DOMAIN handling = Requests
    BY <2>1, <2>2, BeginsAlone DEF FeedInv, RequestsSound
  <2>4. handling'[r] = request
    BY <2>3
  <2>5. ~overlapped' /\ feedMode = "live" => watchlist \subseteq liveSymbols
    BY <2>1, <2>2, BeginsAlone DEF FeedInv
  <2>6. ~overlapped' => StepSound(r)'
    BY <2>1, <2>2, <2>4, <2>5 DEF StepSound, streamVars
  <2>7. ~overlapped' => StreamedOrTold'
    BY <2>1, <2>2, <2>3, BeginsAlone DEF FeedInv, StreamedOrTold, streamVars
  <2>8. request.step # "idle"
    BY <2>1
  <2>9. RequestsSound'
    BY <2>1, <2>2, <2>6, <2>7, <2>8, BeginsAlone, RequestMoves DEF FeedInv
  <2> QED
    BY <2>2, <2>9 DEF FeedInv, ConnectionSound, streamVars
<1> QED
  BY <1>1, <1>2, <1>3

LEMMA UnsubscribingKeeps ==
  ASSUME FeedInv, NEW r \in Requests, Removes(r) \/ SendsUnsubscribe(r)
  PROVE  FeedInv'
<1>0. DOMAIN handling = Requests /\ DOMAIN handling[r] = RequestKeys
  BY DEF FeedInv, RequestsSound
<1>1. CASE Removes(r)
  <2> DEFINE gone == handling[r].removed \intersect liveSymbols
             request == [handling[r] EXCEPT !.step = "unsubscribing", !.removed = gone]
  <2>1. /\ DOMAIN request = RequestKeys /\ request.step = "unsubscribing" /\ request.removed = gone
        /\ request.want = handling[r].want /\ request.added = handling[r].added
        /\ request.live = handling[r].live
    BY <1>0 DEF RequestKeys
  <2>2. /\ handling[r].step = "removing" /\ handling' = [handling EXCEPT ![r] = request]
        /\ liveSymbols' = liveSymbols \ gone
        /\ UNCHANGED <<feedMode, watchlist, socket, streaming, vendor, overlapped>>
    BY <1>1, <1>0 DEF Removes, serviceVars
  <2> HIDE DEF request
  <2>3. handling'[r] = request
    BY <1>0, <2>2
  <2>4. ~overlapped' => StepSound(r)'
    BY <2>1, <2>2, <2>3, Alone DEF StepSound, FeedInv
  <2>5. ~overlapped' => StreamedOrTold'
    BY <1>0, <2>1, <2>2, <2>3, Alone DEF FeedInv, StreamedOrTold
  <2>6. request.step # "idle"
    BY <2>1
  <2>7. RequestsSound'
    BY <2>1, <2>2, <2>4, <2>5, <2>6, Alone, RequestMoves DEF FeedInv
  <2> QED
    BY <2>2, <2>7 DEF FeedInv, ConnectionSound
<1>2. CASE SendsUnsubscribe(r)
  <2> DEFINE gone == handling[r].removed
             request == [handling[r] EXCEPT !.step = "adding"]
  <2>1. /\ DOMAIN request = RequestKeys /\ request.step = "adding"
        /\ request.want = handling[r].want /\ request.added = handling[r].added
        /\ request.live = handling[r].live
    BY <1>0 DEF RequestKeys
  <2>2. /\ handling[r].step = "unsubscribing" /\ handling' = [handling EXCEPT ![r] = request]
        /\ vendor' = IF gone = {} THEN vendor
                     ELSE VendorHears([action |-> "unsubscribe", symbols |-> gone])
        /\ UNCHANGED <<feedMode, watchlist, liveSymbols, socket, streaming, overlapped>>
    BY <1>2, <1>0 DEF SendsUnsubscribe, Goes, serviceVars
  <2>3. /\ DOMAIN vendor' = VendorFields /\ vendor'.authenticated = vendor.authenticated
        /\ \A s \in vendor.streams : s \in gone \/ s \in vendor'.streams
    BY <2>2, HearsUnsubscribe DEF FeedInv, ConnectionSound
  <2> HIDE DEF request
  <2>4. handling'[r] = request
    BY <1>0, <2>2
  <2>5. ~overlapped' => StepSound(r)'
    BY <2>1, <2>2, <2>4, Alone DEF StepSound, FeedInv
  <2>6. ~overlapped' => StreamedOrTold'
    <3> SUFFICES ASSUME ~overlapped' PROVE StreamedOrTold'
      OBVIOUS
    <3>1. gone \cap liveSymbols = {} /\ StreamedOrTold
      BY <2>2, Alone DEF FeedInv, StepSound
    <3>2. \A other \in Requests : handling[other].step # "subscribing"
      BY <2>2, Alone DEF FeedInv
    <3> QED
      BY <2>2, <2>3, <3>1, <3>2 DEF StreamedOrTold
  <2>7. request.step # "idle"
    BY <2>1
  <2>8. RequestsSound'
    BY <2>1, <2>2, <2>5, <2>6, <2>7, Alone, RequestMoves DEF FeedInv
  <2> QED
    BY <2>2, <2>3, <2>8 DEF FeedInv, ConnectionSound
<1> QED
  BY <1>1, <1>2

LEMMA SubscribingKeeps ==
  ASSUME FeedInv, NEW r \in Requests, Adds(r) \/ SendsSubscribe(r)
  PROVE  FeedInv'
<1>0. DOMAIN handling = Requests /\ DOMAIN handling[r] = RequestKeys
  BY DEF FeedInv, RequestsSound
<1>1. CASE Adds(r)
  <2> DEFINE new == (IF handling[r].live THEN handling[r].want ELSE handling[r].added) \ liveSymbols
             request == [handling[r] EXCEPT !.step = "subscribing", !.added = new]
  <2>1. /\ DOMAIN request = RequestKeys /\ request.step = "subscribing" /\ request.added = new
        /\ request.want = handling[r].want /\ request.live = handling[r].live
    BY <1>0 DEF RequestKeys
  <2>2. /\ handling[r].step = "adding" /\ handling' = [handling EXCEPT ![r] = request]
        /\ liveSymbols' = liveSymbols \cup new
        /\ UNCHANGED <<feedMode, watchlist, socket, streaming, vendor, overlapped>>
    BY <1>1, <1>0 DEF Adds, serviceVars
  <2> HIDE DEF request
  <2>3. handling'[r] = request
    BY <1>0, <2>2
  <2>4. ~overlapped' => StepSound(r)'
    BY <2>1, <2>2, <2>3, Alone DEF StepSound, FeedInv
  <2>5. ~overlapped' => StreamedOrTold'
    BY <1>0, <2>1, <2>2, <2>3, Alone DEF FeedInv, StreamedOrTold
  <2>6. request.step # "idle"
    BY <2>1
  <2>7. RequestsSound'
    BY <2>1, <2>2, <2>4, <2>5, <2>6, Alone, RequestMoves DEF FeedInv
  <2> QED
    BY <2>2, <2>7 DEF FeedInv, ConnectionSound
<1>2. CASE SendsSubscribe(r)
  <2> DEFINE new == handling[r].added
             step == IF handling[r].live THEN "switching" ELSE "listing"
             request == [handling[r] EXCEPT !.step = step]
  <2>1. /\ DOMAIN request = RequestKeys /\ request.step = step /\ request.added = new
        /\ request.want = handling[r].want /\ request.live = handling[r].live
    BY <1>0 DEF RequestKeys
  <2>2. /\ handling[r].step = "subscribing" /\ handling' = [handling EXCEPT ![r] = request]
        /\ vendor' = IF new # {} THEN VendorHears([action |-> "subscribe", symbols |-> new])
                     ELSE vendor
        /\ UNCHANGED <<feedMode, watchlist, liveSymbols, socket, streaming, overlapped>>
    BY <1>2, <1>0 DEF SendsSubscribe, Goes, serviceVars, Tells
  <2>3. /\ DOMAIN vendor' = VendorFields /\ vendor'.authenticated = vendor.authenticated
        /\ \A s \in vendor.streams : s \in vendor'.streams
        /\ socket = "open" /\ vendor.authenticated => \A s \in new : s \in vendor'.streams
    BY <2>2, HearsSubscribe DEF FeedInv, ConnectionSound
  <2> HIDE DEF request
  <2>4. handling'[r] = request
    BY <1>0, <2>2
  <2>5. ~overlapped' => StepSound(r)'
    BY <2>1, <2>2, <2>4, Alone DEF StepSound, FeedInv
  <2>6. ~overlapped' => StreamedOrTold'
    <3> SUFFICES ASSUME ~overlapped' PROVE StreamedOrTold'
      OBVIOUS
    <3>1. StreamedOrTold
      BY <2>2, Alone DEF FeedInv
    <3>2. \A other \in Requests : other # r => handling[other].step # "subscribing"
      BY <2>2, Alone DEF FeedInv
    <3>3. streaming = "receiving" /\ socket = "open" => vendor.authenticated
      BY DEF FeedInv, ConnectionSound
    <3> QED
      BY <2>2, <2>3, <3>1, <3>2, <3>3 DEF StreamedOrTold
  <2>7. request.step # "idle"
    BY <2>1
  <2>8. RequestsSound'
    BY <2>1, <2>2, <2>5, <2>6, <2>7, Alone, RequestMoves DEF FeedInv
  <2> QED
    BY <2>2, <2>3, <2>8 DEF FeedInv, ConnectionSound
<1> QED
  BY <1>1, <1>2

LEMMA FinishKeeps ==
  ASSUME FeedInv, NEW r \in Requests, Finishes(r)
  PROVE  FeedInv'
<1>0. DOMAIN handling = Requests /\ DOMAIN handling[r] = RequestKeys
  BY DEF FeedInv, RequestsSound
<1> DEFINE request == [handling[r] EXCEPT !.step = "idle"]
<1>1. DOMAIN request = RequestKeys /\ request.step = "idle"
  BY <1>0 DEF RequestKeys
<1>2. /\ \/ handling[r].step = "listing" /\ watchlist' = handling[r].want /\ UNCHANGED feedMode
         \/ handling[r].step = "switching" /\ feedMode' = "live" /\ UNCHANGED watchlist
      /\ handling' = [handling EXCEPT ![r] = request]
      /\ UNCHANGED <<liveSymbols, socket, streaming, vendor, overlapped>>
  BY <1>0 DEF Finishes, Goes, streamVars
<1> HIDE DEF request
<1>3. handling'[r] = request
  BY <1>0, <1>2
<1>4. StepSound(r)'
  BY <1>1, <1>3 DEF StepSound
<1>5. ~overlapped' => StreamedOrTold'
  BY <1>0, <1>1, <1>2, <1>3, Alone DEF FeedInv, StreamedOrTold
<1>6. ~overlapped' /\ feedMode' = "live" => watchlist' \subseteq liveSymbols'
  BY <1>2, Alone DEF FeedInv, StepSound
<1>7. RequestsSound'
  BY <1>1, <1>2, <1>4, <1>5, <1>6, Alone, RequestMoves DEF FeedInv
<1> QED
  BY <1>2, <1>7 DEF FeedInv, ConnectionSound

(***************************************************************************)
(* The feed's first state, its steps, and what they come to when the       *)
(* requests are over.                                                      *)
(***************************************************************************)
LEMMA InitFeed == FeedInit => FeedInv
<1> SUFFICES ASSUME FeedInit PROVE FeedInv
  OBVIOUS
<1>1. DOMAIN vendor = VendorFields
  BY DEF FeedInit, VendorFields
<1>2. /\ DOMAIN handling = Requests
      /\ \A r \in Requests : DOMAIN handling[r] = RequestKeys /\ handling[r].step = "idle"
  BY DEF FeedInit, RequestKeys
<1>3. overlapped \in BOOLEAN
  BY DEF FeedInit
<1>4. \A r \in Requests : StepSound(r)
  BY <1>2 DEF StepSound
<1> QED
  BY <1>1, <1>2, <1>3, <1>4
     DEF FeedInit, FeedInv, ConnectionSound, RequestsSound, OneAtATime, StreamedOrTold

LEMMA StepFeed == FeedInv /\ [FeedNext]_marketFeedVars => FeedInv'
<1> SUFFICES ASSUME FeedInv, [FeedNext]_marketFeedVars PROVE FeedInv'
  OBVIOUS
<1>1. CASE UNCHANGED marketFeedVars
  BY <1>1, RequestsUntouched
     DEF FeedInv, ConnectionSound, marketFeedVars, serviceVars, streamVars, requestVars,
         RequestsSound, StreamedOrTold
<1>2. CASE StreamStep \/ VendorSays \/ ConnectionBreaks
  BY <1>2, StreamStepKeeps
<1>3. ASSUME NEW r \in Requests, RequestStep(r) PROVE FeedInv'
  BY <1>3, AsksKeep, UnsubscribingKeeps, SubscribingKeeps, FinishKeeps DEF RequestStep
<1> QED
  BY <1>1, <1>2, <1>3 DEF FeedNext

LEMMA WatchedOnceQuiet == FeedInv => WatchedSymbolsReachVendor
BY DEF FeedInv, RequestsSound, StreamedOrTold, WatchedSymbolsReachVendor, Quiet

\* Once the requests are over, and none overlapped another, the vendor streams
\* every symbol that the gateway watches in live mode: a request subscribes
\* what the stream's thread did not, and no symbol is left by one to the other
\* (AlpacaLiveProvider, set_watchlist).
THEOREM WatchedSymbolsAreStreamed == FeedSpec => []WatchedSymbolsReachVendor
<1>1. FeedSpec => []FeedInv
  BY InitFeed, StepFeed, PTL DEF FeedSpec
<1> QED
  BY <1>1, WatchedOnceQuiet, PTL

\* Of the markets the engine and the gateway act on: the quote that an order is
\* priced from is the newest that arrived, and what is watched is streamed.
THEOREM MarketsStayCurrent == QuoteSpec /\ FeedSpec => []QuotesAreCurrent
<1>1. RoutedQuoteIsCurrent /\ WatchedSymbolsReachVendor => QuotesAreCurrent
  BY DEF QuotesAreCurrent
<1> QED
  BY <1>1, RoutedQuotesAreCurrent, WatchedSymbolsAreStreamed, PTL

(***************************************************************************)
(* ConfigLayers.  A left fold takes the last element off first: the        *)
(* largest index of what is left.                                          *)
(***************************************************************************)
LEMMA LargestIn ==
  ASSUME NEW n \in Nat
  PROVE  \A S \in SUBSET (1..n) : S # {} => Max(S) \in S /\ \A y \in S : y <= Max(S)
<1> DEFINE P == {k \in Nat : \A S \in SUBSET (1..k) : S # {} => \E x \in S : \A y \in S : x >= y}
<1>1. 0 \in P
  <2>1. 1..0 = {}
    OBVIOUS
  <2> QED
    BY <2>1
<1>2. ASSUME NEW k \in Nat, k \in P PROVE k + 1 \in P
  <2> SUFFICES ASSUME NEW S \in SUBSET (1..(k + 1)), S # {} PROVE \E x \in S : \A y \in S : x >= y
    OBVIOUS
  <2>1. CASE k + 1 \in S
    BY <2>1
  <2>2. CASE k + 1 \notin S
    <3>1. S \in SUBSET (1..k)
      BY <2>2
    <3> QED
      BY <1>2, <3>1
  <2> QED
    BY <2>1, <2>2
<1>3. n \in P
  <2> HIDE DEF P
  <2> QED BY <1>1, <1>2, NaturalInduction
<1>4. ASSUME NEW S \in SUBSET (1..n), S # {} PROVE Max(S) \in S /\ \A y \in S : y <= Max(S)
  <2>1. \E x \in S : \A y \in S : x >= y
    BY <1>3, <1>4
  <2>2. Max(S) \in S /\ \A y \in S : Max(S) >= y
    BY <2>1 DEF Max
  <2> QED
    BY <2>2
<1> QED
  BY <1>4

\* The recursive function behind Layered, and the documents it goes through.
LayersFold(d, s, g) ==
  g = [S \in SUBSET DOMAIN s |-> IF S = {} THEN d ELSE Override(g[S \ {Max(S)}], s[Max(S)])]

LEMMA LayeredIsFold ==
  ASSUME NEW d, NEW s
  PROVE  Layered(d, s) = (CHOOSE g : LayersFold(d, s, g))[DOMAIN s]
BY DEF Layered, FoldLeft, MapThenFoldSet, LayersFold

\* The documents on the way from the file to what is loaded.
LayersOn(t, d, s, n) ==
  /\ t[0] = d /\ Layered(d, s) = t[n]
  /\ \A i \in 1..n : t[i] = Override(t[i - 1], s[i])

LEMMA LayersTrace ==
  ASSUME NEW d, NEW s, NEW n \in Nat, DOMAIN s = 1..n
  PROVE  \E t : LayersOn(t, d, s, n)
<1> DEFINE Keys == DOMAIN d \cup {s[i].key : i \in 1..n}
           Values == {d[k] : k \in DOMAIN d} \cup {Value(KindByInspection(s[i].text), s[i].text) : i \in 1..n}
           A == {d} \cup UNION {[K -> Values] : K \in SUBSET Keys}
           F == [i \in 1..n |-> [a \in A |-> Override(a, s[i])]]
           C == [S \in SUBSET (1..n) |-> Max(S)]
<1>1. IsFiniteSet(1..n) /\ d \in A
  BY FS_Interval
<1>2. \A S \in SUBSET (1..n) : S # {} => C[S] \in S /\ C[S] = Max(S)
  BY LargestIn
<1>3. \A i \in 1..n : \A a \in A : F[i][a] \in A /\ F[i][a] = Override(a, s[i])
  <2> SUFFICES ASSUME NEW i \in 1..n, NEW a \in A PROVE Override(a, s[i]) \in A
    OBVIOUS
  <2>1. DOMAIN a \subseteq Keys /\ \A k \in DOMAIN a : a[k] \in Values
    OBVIOUS
  <2> HIDE DEF A
  <2> DEFINE K == DOMAIN a \cup {s[i].key}
  <2>2. K \in SUBSET Keys
    BY <2>1
  <2>3. Override(a, s[i]) \in [K -> Values]
    BY <2>1 DEF Override
  <2> QED
    BY <2>2, <2>3 DEF A
<1> HIDE DEF Keys, Values, A, F, C
<1>4. PICK g : /\ DOMAIN g = SUBSET (1..n) /\ g = [S \in SUBSET (1..n) |-> g[S]]
               /\ \A S \in SUBSET (1..n) : g[S] \in A
               /\ \A S \in SUBSET (1..n) : g[S] = IF S = {} THEN d ELSE F[C[S]][g[S \ {C[S]}]]
  <2>1. \A i \in 1..n : \A a \in A : F[i][a] \in A
    BY <1>3
  <2>2. \A S \in SUBSET (1..n) : S # {} => C[S] \in S
    BY <1>2
  <2> DEFINE D == 1..n
  <2>3. IsFiniteSet(D) /\ d \in A
    BY <1>1
  <2>4. \A S \in SUBSET D : S # {} => C[S] \in S
    BY <2>2
  <2>5. \A i \in D : \A a \in A : F[i][a] \in A
    BY <2>1
  <2> HIDE DEF D
  <2>6. \E g : RecursiveOver(g, D, A, d, C, F)
    BY <2>3, <2>4, <2>5, RecursionOverSets, Zenon
  <2> QED
    BY <2>6 DEF D, RecursiveOver
<1>5. LayersFold(d, s, g)
  <2>1. \A S \in SUBSET (1..n) : g[S] = IF S = {} THEN d ELSE Override(g[S \ {Max(S)}], s[Max(S)])
    BY <1>2, <1>3, <1>4
  <2> QED
    BY <1>4, <2>1 DEF LayersFold
<1> DEFINE h == CHOOSE h : LayersFold(d, s, h)
           t == [i \in 0..n |-> h[1..i]]
<1>6. LayersFold(d, s, h)
  BY <1>5
<1>7. Layered(d, s) = h[1..n]
  BY LayeredIsFold
<1> HIDE DEF h
<1>8. \A S \in SUBSET (1..n) : h[S] = IF S = {} THEN d ELSE Override(h[S \ {Max(S)}], s[Max(S)])
  BY <1>6 DEF LayersFold
<1>9. ASSUME NEW i \in 1..n PROVE h[1..i] = Override(h[1..(i - 1)], s[i])
  <2>1. 1..i \in SUBSET (1..n) /\ 1..i # {} /\ i \in Nat
    OBVIOUS
  <2>2. (1..i) \ {i} = 1..(i - 1)
    OBVIOUS
  <2>3. Max(1..i) = i
    <3>0. i \in 1..i
      BY <2>1
    <3>1. Max(1..i) \in 1..i /\ i <= Max(1..i)
      BY <2>1, <3>0, LargestIn
    <3> QED
      BY <2>1, <3>1
  <2> QED
    BY <1>8, <2>1, <2>2, <2>3
<1>10. h[1..0] = d
  <2>1. 1..0 = {}
    OBVIOUS
  <2> QED
    BY <1>8, <2>1
<1>11. t[0] = d /\ Layered(d, s) = t[n] /\ \A i \in 1..n : t[i] = Override(t[i - 1], s[i])
  <2>1. \A i \in 1..n : t[i] = h[1..i] /\ t[i - 1] = h[1..(i - 1)]
    OBVIOUS
  <2> QED
    BY <1>7, <1>9, <1>10, <2>1
<1> HIDE DEF t
<1> QED
  BY <1>11 DEF LayersOn

(***************************************************************************)
(* Of a key the last override decides, else the file.                      *)
(***************************************************************************)
DecidedBy(d, s, n, key, value) ==
  \/ \E j \in 1..n : /\ s[j].key = key /\ value = Value(KindByInspection(s[j].text), s[j].text)
                     /\ \A k \in 1..n : s[k].key = key => k <= j
  \/ (\A j \in 1..n : s[j].key # key) /\ key \in DOMAIN d /\ value = d[key]

LEMMA LayersDecided ==
  ASSUME NEW d, NEW s, NEW n \in Nat, DOMAIN s = 1..n
  PROVE  /\ DOMAIN Layered(d, s) = DOMAIN d \cup {s[i].key : i \in 1..n}
         /\ \A key \in DOMAIN Layered(d, s) : DecidedBy(d, s, n, key, Layered(d, s)[key])
<1>1. PICK t : LayersOn(t, d, s, n)
  BY LayersTrace
<1> DEFINE Right(i) == /\ DOMAIN t[i] = DOMAIN d \cup {s[j].key : j \in 1..i}
                       /\ \A key \in DOMAIN t[i] : DecidedBy(d, s, i, key, t[i][key])
           P == {i \in Nat : i <= n => Right(i)}
<1>2. 0 \in P
  <2>1. 1..0 = {}
    OBVIOUS
  <2> QED
    BY <1>1, <2>1 DEF DecidedBy, LayersOn
<1>3. ASSUME NEW i \in Nat, i \in P PROVE i + 1 \in P
  <2> SUFFICES ASSUME i + 1 <= n PROVE Right(i + 1)
    OBVIOUS
  <2> DEFINE m == i + 1
  <2>1. /\ m \in 1..n /\ t[m] = Override(t[i], s[m]) /\ Right(i)
        /\ 1..m = (1..i) \cup {m} /\ m \notin 1..i /\ \A k \in 1..i : k <= m
    BY <1>1, <1>3 DEF LayersOn
  <2>2. /\ DOMAIN t[m] = DOMAIN t[i] \cup {s[m].key}
        /\ \A key \in DOMAIN t[m] :
             t[m][key] = IF key = s[m].key THEN Value(KindByInspection(s[m].text), s[m].text)
                         ELSE t[i][key]
    BY <2>1 DEF Override
  <2> HIDE DEF m
  <2>3. DOMAIN t[m] = DOMAIN d \cup {s[j].key : j \in 1..m}
    BY <2>1, <2>2
  <2>4. ASSUME NEW key \in DOMAIN t[m] PROVE DecidedBy(d, s, m, key, t[m][key])
    <3>0. m <= m
      BY <2>1
    <3>1. CASE key = s[m].key
      BY <2>1, <2>2, <3>0, <3>1 DEF DecidedBy
    <3>2. CASE key # s[m].key
      <4>1. DecidedBy(d, s, i, key, t[i][key]) /\ t[m][key] = t[i][key]
        BY <2>1, <2>2, <2>4, <3>2
      <4> QED
        BY <2>1, <3>2, <4>1 DEF DecidedBy
    <3> QED
      BY <3>1, <3>2
  <2> QED
    BY <2>3, <2>4 DEF m
<1>4. n \in P
  <2> HIDE DEF P
  <2> QED BY <1>2, <1>3, NaturalInduction
<1> QED
  BY <1>1, <1>4 DEF LayersOn

(***************************************************************************)
(* A run that was accepted is what its file and overrides make of the      *)
(* document.                                                               *)
(***************************************************************************)
Loads(run, document) ==
  /\ Accepted(document)
  /\ run.config = Read(document) /\ run.canonical = Canonical(document)
  /\ run.boundary = HoldoutBoundary(Read(document))
  /\ run.faithful = (\A key \in DOMAIN document : Readable(document, key))
  /\ run.starts = {live \in BOOLEAN : FitToStart(Read(document), live)}

ConfigInv ==
  /\ file \in Files /\ overrides \in Seq(Settings)
  /\ \A run \in loaded : /\ run.file \in Files /\ run.overrides \in Seq(Settings)
                         /\ Loads(run, Layered(run.file, run.overrides))

LEMMA InitConfig == ConfigInit => ConfigInv
BY DEF ConfigInit, ConfigInv

LEMMA StepConfig == ConfigInv /\ [ConfigNext]_configVars => ConfigInv'
<1> SUFFICES ASSUME ConfigInv, [ConfigNext]_configVars PROVE ConfigInv'
  OBVIOUS
<1>1. CASE UNCHANGED configVars
  BY <1>1 DEF ConfigInv, configVars
<1>2. ASSUME NEW setting \in Settings, AddSetting(setting) PROVE ConfigInv'
  BY <1>2 DEF ConfigInv, AddSetting
<1>3. ASSUME NEW nextFile \in Files, Load(nextFile) PROVE ConfigInv'
  <2> DEFINE document == Layered(file, overrides)
             run == [file |-> file, overrides |-> overrides, config |-> Read(document),
                     boundary |-> HoldoutBoundary(Read(document)), canonical |-> Canonical(document),
                     faithful |-> \A key \in DOMAIN document : Readable(document, key),
                     starts |-> {live \in BOOLEAN : FitToStart(Read(document), live)}]
  <2>1. /\ loaded' = IF Accepted(document) THEN loaded \cup {run} ELSE loaded
        /\ file' = nextFile /\ overrides' = <<>>
    BY <1>3 DEF Load
  <2>2. run.file = file /\ run.overrides = overrides /\ (Accepted(document) => Loads(run, document))
    BY Zenon DEF Loads
  <2> HIDE DEF run, document
  <2>3. Accepted(document) => Loads(run, Layered(run.file, run.overrides))
    BY <2>2 DEF document
  <2> QED
    BY <2>1, <2>2, <2>3 DEF ConfigInv
<1> QED
  BY <1>1, <1>2, <1>3 DEF ConfigNext

(***************************************************************************)
(* What is read of a document.                                             *)
(***************************************************************************)
LEMMA NumbersAreIntegers ==
  ASSUME NEW document,
         \A key \in DOMAIN document :
           document[key].kind \in {"integer", "real"} => document[key].text \in DOMAIN NumberOf
  PROVE  Number(document, "spend", 25) \in Int
<1>1. \A text \in DOMAIN NumberOf : NumberOf[text] \in Int
  BY DEF NumberOf
<1>2. KindOfKey["spend"] = "real"
  BY DEF KindOfKey
<1>3. Readable(document, "spend") => document["spend"].kind \in {"integer", "real"} /\ "spend" \in DOMAIN document
  BY <1>2 DEF Readable
<1> QED
  BY <1>1, <1>3 DEF Number

\* What is accepted can be held out and started.
LEMMA AcceptedIsSound ==
  ASSUME NEW run, NEW document, Loads(run, document), Number(document, "spend", 25) \in Int
  PROVE  /\ DOMAIN document \subseteq KnownKeys
         /\ run.config.boundary # "" => run.boundary # NoDay
         /\ run.config.unlocked => run.config.justification # ""
         /\ run.starts # {} => run.config.seed # 0
         /\ TRUE \in run.starts => run.config.spend > 0
<1> DEFINE config == Read(document)
<1>1. /\ DOMAIN document \subseteq KnownKeys /\ Sound(config) /\ run.config = config
      /\ run.boundary = HoldoutBoundary(config)
      /\ run.starts = {live \in BOOLEAN : FitToStart(config, live)}
  BY DEF Loads, Accepted
<1>2. config.spend \in Int
  BY SMT DEF Read
<1> HIDE DEF config
<1>3. config.boundary # "" => HoldoutBoundary(config) # NoDay
  <2>1. \A text \in DOMAIN DayOf : DayOf[text] # NoDay
    BY DEF DayOf, NoDay
  <2>2. config.boundary \in DOMAIN DayOf \cup {""}
    BY <1>1 DEF Sound
  <2> QED
    BY <2>1, <2>2 DEF HoldoutBoundary
<1>4. config.unlocked => config.justification # ""
  BY <1>1 DEF Sound
<1>5. ASSUME NEW live, FitToStart(config, live) PROVE config.seed # 0 /\ (live = TRUE => config.spend > 0)
  <2> DEFINE noSeed == [field |-> "seed", severity |-> "fatal"]
             noSpend == [field |-> "spend", severity |-> "fatal"]
  <2>1. noSeed.field = "seed" /\ noSeed.severity = "fatal" /\ noSpend.field = "spend" /\ noSpend.severity = "fatal"
    OBVIOUS
  <2>2. config.seed = 0 => noSeed \in Issues(config, live)
    BY DEF Issues
  <2>3. config.spend <= 0 /\ live = TRUE => noSpend \in Issues(config, live)
    BY DEF Issues
  <2> HIDE DEF noSeed, noSpend
  <2> QED
    BY <1>2, <1>5, <2>1, <2>2, <2>3 DEF FitToStart
<1> QED
  BY <1>1, <1>3, <1>4, <1>5

LEMMA AcceptedIsDecided ==
  ASSUME ConfigInv PROVE LayersDecide
<1> SUFFICES ASSUME NEW run \in loaded
    PROVE LET Overriding(key) == {i \in DOMAIN run.overrides : run.overrides[i].key = key}
              Latest(key) == run.overrides[CHOOSE i \in Overriding(key) : \A j \in Overriding(key) : j <= i]
              Given == DOMAIN run.file \cup {run.overrides[i].key : i \in DOMAIN run.overrides}
              Decisive(key) == IF Overriding(key) # {} THEN Latest(key).text ELSE run.file[key].text
          IN  /\ run.canonical = {<<key, Decisive(key)>> : key \in Given}
              /\ Given \subseteq KnownKeys
              /\ run.faithful /\ "boundary" \in Given => run.config.boundary = Decisive("boundary")
              /\ run.faithful /\ "tag" \in Given => run.config.tag = Decisive("tag")
              /\ run.config.boundary # "" => run.boundary # NoDay
              /\ run.config.unlocked => run.config.justification # ""
              /\ run.starts # {} => run.config.seed # 0
              /\ TRUE \in run.starts => run.config.spend > 0
  BY DEF LayersDecide
<1> DEFINE s == run.overrides
           n == Len(s)
           document == Layered(run.file, s)
           Overriding(key) == {i \in DOMAIN s : s[i].key = key}
           Latest(key) == s[CHOOSE i \in Overriding(key) : \A j \in Overriding(key) : j <= i]
           Given == DOMAIN run.file \cup {s[i].key : i \in DOMAIN s}
           Decisive(key) == IF Overriding(key) # {} THEN Latest(key).text ELSE run.file[key].text
<1>1. run.file \in Files /\ s \in Seq(Settings) /\ Loads(run, document)
  BY DEF ConfigInv
<1>2. n \in Nat /\ DOMAIN s = 1..n
  BY <1>1
<1>3. /\ DOMAIN document = Given
      /\ \A key \in Given : DecidedBy(run.file, s, n, key, document[key])
  BY <1>2, LayersDecided
<1> HIDE DEF s, n, document
<1>4. ASSUME NEW key \in Given PROVE document[key].text = Decisive(key)
  <2>1. CASE \E j \in 1..n : /\ s[j].key = key /\ document[key] = Value(KindByInspection(s[j].text), s[j].text)
                             /\ \A k \in 1..n : s[k].key = key => k <= j
    <3>1. PICK j \in 1..n : /\ s[j].key = key /\ document[key] = Value(KindByInspection(s[j].text), s[j].text)
                            /\ \A k \in 1..n : s[k].key = key => k <= j
      BY <2>1
    <3>2. j \in Overriding(key) /\ \A k \in Overriding(key) : k <= j
      BY <1>2, <3>1
    <3> DEFINE i == CHOOSE i \in Overriding(key) : \A k \in Overriding(key) : k <= i
    <3>3. i \in Overriding(key) /\ \A k \in Overriding(key) : k <= i
      BY <3>2
    <3>4. i \in Int /\ j \in Int
      BY <1>2, <3>1, <3>3
    <3>5. i = j
      <4> HIDE DEF i, Overriding
      <4> QED BY <3>2, <3>3, <3>4
    <3>6. document[key].text = s[j].text
      BY <3>1 DEF Value
    <3> QED
      BY <3>2, <3>5, <3>6
  <2>2. CASE (\A j \in 1..n : s[j].key # key) /\ key \in DOMAIN run.file /\ document[key] = run.file[key]
    BY <1>2, <2>2
  <2> QED
    BY <1>3, <1>4, <2>1, <2>2 DEF DecidedBy
<1>5. run.canonical = {<<key, Decisive(key)>> : key \in Given}
  <2>1. run.canonical = {<<key, document[key].text>> : key \in Given}
    BY <1>1, <1>3 DEF Loads, Canonical
  <2> HIDE DEF Given, Decisive
  <2> QED
    BY <1>4, <2>1
<1>6. run.faithful => \A key \in Given : Readable(document, key)
  BY <1>1, <1>3 DEF Loads
<1>7. /\ Readable(document, "boundary") => run.config.boundary = document["boundary"].text
      /\ Readable(document, "tag") => run.config.tag = document["tag"].text
  <2> DEFINE config == Read(document)
  <2>1. /\ config.boundary = Text(document, "boundary", "")
        /\ config.tag = Text(document, "tag", "")
    BY SMT DEF Read
  <2> HIDE DEF config
  <2>2. run.config = config
    BY <1>1 DEF Loads, config
  <2> QED
    BY <2>1, <2>2 DEF Text
<1>8. Number(document, "spend", 25) \in Int
  <2>1. ASSUME NEW key \in DOMAIN document, document[key].kind \in {"integer", "real"}
        PROVE  document[key].text \in DOMAIN NumberOf
    <3>1. \A text : Value(KindByInspection(text), text).kind \in {"integer", "real"} => text \in DOMAIN NumberOf
      BY DEF Value, KindByInspection
    <3>2. \A text : Value(KindByInspection(text), text).text = text
      BY DEF Value
    <3>3. DecidedBy(run.file, s, n, key, document[key])
      BY <1>3, <2>1
    <3> QED
      BY <1>1, <2>1, <3>1, <3>2, <3>3, FilesAssumption DEF DecidedBy
  <2> QED
    BY <2>1, NumbersAreIntegers
<1>9. /\ Given \subseteq KnownKeys
      /\ run.config.boundary # "" => run.boundary # NoDay
      /\ run.config.unlocked => run.config.justification # ""
      /\ run.starts # {} => run.config.seed # 0
      /\ TRUE \in run.starts => run.config.spend > 0
  BY <1>1, <1>3, <1>8, AcceptedIsSound
<1>10. /\ run.faithful /\ "boundary" \in Given => run.config.boundary = Decisive("boundary")
       /\ run.faithful /\ "tag" \in Given => run.config.tag = Decisive("tag")
  BY <1>4, <1>6, <1>7
<1> QED
  BY <1>5, <1>9, <1>10 DEF s

(***************************************************************************)
(* What is hashed tells apart what is read.                                *)
(***************************************************************************)
Reading(seed, tag, boundary, months, unlocked, justification, spend, open, close, level) ==
  [seed |-> seed, tag |-> tag, boundary |-> boundary, months |-> months, unlocked |-> unlocked,
   justification |-> justification, spend |-> spend, regular_open |-> open, regular_close |-> close,
   level |-> level]

LEMMA SameLinesSameReading ==
  ASSUME NEW d, NEW e, Canonical(d) = Canonical(e),
         \A key \in DOMAIN d : Readable(d, key), \A key \in DOMAIN e : Readable(e, key)
  PROVE  Read(d) = Read(e)
<1>1. DOMAIN d = DOMAIN e /\ \A key \in DOMAIN d : d[key].text = e[key].text
  <2>1. \A key \in DOMAIN d : <<key, d[key].text>> \in Canonical(e)
    BY DEF Canonical
  <2>2. \A key \in DOMAIN e : <<key, e[key].text>> \in Canonical(d)
    BY DEF Canonical
  <2> QED
    BY <2>1, <2>2 DEF Canonical
<1>2. \A key : Readable(d, key) <=> Readable(e, key)
  BY <1>1 DEF Readable
<1>3. \A key : Readable(d, key) => d[key].text = e[key].text
  BY <1>1 DEF Readable
<1>4. \A key, fallback : Text(d, key, fallback) = Text(e, key, fallback)
  BY <1>2, <1>3 DEF Text
<1>5. \A key, fallback : Number(d, key, fallback) = Number(e, key, fallback)
  BY <1>2, <1>3 DEF Number
<1>6. \A key : Flag(d, key) = Flag(e, key)
  BY <1>2, <1>3, Zenon DEF Flag
<1> DEFINE none == ""
<1>7. \A f : Read(f) =
        Reading(Number(f, "seed", 20240101), Text(f, "tag", none), Text(f, "boundary", none),
                Number(f, "months", 4), Flag(f, "unlocked"), Text(f, "justification", none),
                Number(f, "spend", 25), Text(f, "regular_open", "09:30:00"),
                Text(f, "regular_close", "16:00:00"), Text(f, "level", "info"))
  BY SMT DEF Read, Reading
<1> HIDE DEF none
<1> QED
  BY <1>4, <1>5, <1>6, <1>7, SMT

LEMMA HashTells ==
  ASSUME ConfigInv PROVE HashTellsRunsApart
<1> SUFFICES ASSUME NEW run \in loaded, NEW other \in loaded,
                    run.canonical = other.canonical, run.faithful, other.faithful
             PROVE  run.config = other.config /\ run.boundary = other.boundary
  BY DEF HashTellsRunsApart
<1> DEFINE d == Layered(run.file, run.overrides)
           e == Layered(other.file, other.overrides)
<1>1. Loads(run, d) /\ Loads(other, e)
  BY DEF ConfigInv
<1> HIDE DEF d, e
<1>2. Read(d) = Read(e)
  BY <1>1, SameLinesSameReading DEF Loads
<1> QED
  BY <1>1, <1>2 DEF Loads

\* The last layer decides what is read and what is hashed, nothing unknown is
\* accepted, what is accepted can be held out and started, and two runs that hash
\* the same read the same (load, finish, canonical_text, ConfigValidator::validate).
THEOREM LastLayerDecides == ConfigSpec => []ConfigurationDecides
<1>1. ConfigSpec => []ConfigInv
  BY InitConfig, StepConfig, PTL DEF ConfigSpec
<1>2. ConfigInv => ConfigurationDecides
  BY AcceptedIsDecided, HashTells DEF ConfigurationDecides
<1> QED
  BY <1>1, <1>2, PTL

-----------------------------------------------------------------------------
(***************************************************************************)
(* ServiceSupervision.  Pruning goes through the failures one by one: the  *)
(* fold over their indices takes the largest index off first, so that it   *)
(* is traced from the first failure to the last.                           *)
(***************************************************************************)
LEMMA LastOfSegment ==
  ASSUME NEW n \in Nat, NEW i \in 1..n
  PROVE  /\ 1..i \in SUBSET (1..n) /\ 1..i # {} /\ (1..i) \ {i} = 1..(i - 1)
         /\ Max(1..i) = i
<1>1. 1..i \in SUBSET (1..n) /\ i \in 1..i
  OBVIOUS
<1>2. Max(1..i) \in 1..i /\ i <= Max(1..i)
  BY <1>1, LargestIn
<1>3. (1..i) \ {i} = 1..(i - 1)
  OBVIOUS
<1> QED
  BY <1>1, <1>2, <1>3

PruningFold(s, g) ==
  g = [S \in SUBSET DOMAIN s |-> IF S = {} THEN <<>> ELSE Keeping(g[S \ {Max(S)}], s[Max(S)])]

\* What is kept on the way through the failures.
PrunedOn(t, s, n) ==
  /\ t[0] = <<>> /\ Pruned(s) = t[n]
  /\ \A i \in 1..n : t[i] = Keeping(t[i - 1], s[i])

\* What the definitions of the fold come to.
LEMMA PrunedIsFold ==
  ASSUME NEW s
  PROVE  Pruned(s) = (CHOOSE g : PruningFold(s, g))[DOMAIN s]
BY DEF Pruned, FoldLeft, MapThenFoldSet, PruningFold

\* There is such a way for any failures.
LEMMA PruningTrace ==
  ASSUME NEW s \in Seq(Int), NEW n \in Nat, DOMAIN s = 1..n
  PROVE  \E t : PrunedOn(t, s, n)
<1> DEFINE A == Seq(Int)
           F == [i \in 1..n |-> [a \in A |-> Keeping(a, s[i])]]
           C == [S \in SUBSET (1..n) |-> Max(S)]
           D == 1..n
           base == <<>>
<1>1. IsFiniteSet(D) /\ base \in A
  BY FS_Interval
<1>2. \A S \in SUBSET D : S # {} => C[S] \in S /\ C[S] = Max(S)
  BY LargestIn
<1>3. \A i \in D : \A a \in A : F[i][a] \in A /\ F[i][a] = Keeping(a, s[i])
  BY DEF Keeping
<1> HIDE DEF A, F, C, D, base
<1>4. PICK g : RecursiveOver(g, D, A, base, C, F)
  BY <1>1, <1>2, <1>3, RecursionOverSets
<1>5. PruningFold(s, g)
  <2>1. \A S \in SUBSET D : g[S] = IF S = {} THEN base ELSE Keeping(g[S \ {Max(S)}], s[Max(S)])
    BY <1>2, <1>3, <1>4 DEF RecursiveOver
  <2>2. DOMAIN s = D
    BY DEF D
  <2> QED
    BY <1>4, <2>1, <2>2 DEF PruningFold, RecursiveOver, base
<1> DEFINE h == CHOOSE h : PruningFold(s, h)
           t == [i \in 0..n |-> h[1..i]]
<1>6. PruningFold(s, h)
  BY <1>5
<1>7. Pruned(s) = h[1..n]
  BY PrunedIsFold
<1> HIDE DEF h
<1>8. \A S \in SUBSET (1..n) : h[S] = IF S = {} THEN <<>> ELSE Keeping(h[S \ {Max(S)}], s[Max(S)])
  BY <1>6 DEF PruningFold
<1>9. \A i \in 1..n : h[1..i] = Keeping(h[1..(i - 1)], s[i])
  BY <1>8, LastOfSegment
<1>10. h[1..0] = <<>>
  <2>1. 1..0 = {}
    OBVIOUS
  <2> QED
    BY <1>8, <2>1
<1>11. t[0] = <<>> /\ Pruned(s) = t[n] /\ \A i \in 1..n : t[i] = Keeping(t[i - 1], s[i])
  <2>1. \A i \in 1..n : t[i] = h[1..i] /\ t[i - 1] = h[1..(i - 1)]
    OBVIOUS
  <2> QED
    BY <1>7, <1>9, <1>10, <2>1
<1> HIDE DEF t
<1> QED
  BY <1>11 DEF PrunedOn

(***************************************************************************)
(* Failures come in the order of time, so that pruning cuts off a          *)
(* beginning: what is kept is an end of the history, and what was cut off  *)
(* is too old for the newest failure.                                      *)
(***************************************************************************)
OldestFirst(s) == \A i, j \in DOMAIN s : i <= j => s[i] <= s[j]

EndOf(s, kept, m) ==
  /\ m \in 0..Len(s) /\ Len(kept) = Len(s) - m
  /\ \A k \in 1..(Len(s) - m) : kept[k] = s[m + k]

\* Pruning at the time of the last failure cuts off what is too old for it.
LEMMA PruningCutsOff ==
  ASSUME SupervisionAssumption, svcNow \in Nat, NEW s \in Seq(Nat), OldestFirst(s),
         \A i \in DOMAIN s : s[i] <= svcNow, NEW n \in Nat, n = Len(s), n > 0, s[n] = svcNow
  PROVE  /\ Pruned(s) \in Seq(Nat)
         /\ \E m \in 0..n : EndOf(s, Pruned(s), m) /\ \A j \in 1..m : ~Recent(s[j])
<1> DEFINE Old == {j \in 1..n : ~Recent(s[j])}
           m == IF Old = {} THEN 0 ELSE Max(Old)
<1>1. DOMAIN s = 1..n /\ \A j \in 1..n : s[j] \in Nat
  OBVIOUS
<1>2. m \in 0..n /\ \A j \in 1..n : ~Recent(s[j]) <=> j <= m
  <2>1. CASE Old = {}
    BY <2>1
  <2>2. CASE Old # {}
    <3>1. m \in Old /\ \A y \in Old : y <= m
      BY <2>2, LargestIn
    <3>2. \A j \in 1..n : j <= m => s[j] <= s[m]
      BY <1>1, <3>1 DEF OldestFirst
    <3>3. s[m] \in Nat /\ RestartWindow \in Nat
      BY <1>1, <3>1 DEF SupervisionAssumption
    <3>4. ~Recent(s[m])
      BY <3>1
    <3> HIDE DEF m
    <3>5. \A j \in 1..n : s[j] <= s[m] => ~Recent(s[j])
      BY <1>1, <3>3, <3>4, SMTT(20) DEF Recent
    <3>6. \A j \in 1..n : j <= m => ~Recent(s[j])
      BY <3>2, <3>5
    <3> QED
      BY <3>1, <3>6
  <2> QED
    BY <2>1, <2>2
<1> HIDE DEF m, Old
<1>3. PICK t : PrunedOn(t, s, n)
  BY <1>1, PruningTrace
<1> DEFINE Right(i) == /\ t[i] \in Seq(Nat) /\ Len(t[i]) = IF i <= m THEN 0 ELSE i - m
                       /\ \A k \in 1..Len(t[i]) : t[i][k] = s[m + k]
           P == {i \in Nat : i <= n => Right(i)}
<1>4. 0 \in P
  <2>1. t[0] = <<>> /\ 0 <= m
    BY <1>2, <1>3 DEF PrunedOn
  <2>2. t[0] \in Seq(Nat) /\ Len(t[0]) = 0
    BY <2>1
  <2>3. Right(0)
    BY <2>1, <2>2
  <2> QED
    BY <2>3
<1>5. ASSUME NEW i \in Nat, i \in P PROVE i + 1 \in P
  <2> SUFFICES ASSUME i + 1 <= n PROVE Right(i + 1)
    OBVIOUS
  <2> DEFINE w == i + 1
  <2>1. w \in 1..n /\ w - 1 = i /\ Right(i) /\ m \in Nat /\ w \in Nat
    BY <1>2, <1>5
  <2>2. t[w] = Keeping(t[i], s[w])
    BY <1>3, <2>1 DEF PrunedOn
  <2>3. CASE w <= m
    <3>1. t[w] = t[i] /\ i <= m
      BY <1>2, <2>1, <2>2, <2>3 DEF Keeping
    <3> QED
      BY <2>1, <2>3, <3>1
  <2>4. CASE w > m
    <3>0. /\ t[i] \in Seq(Nat) /\ Len(t[i]) = i - m /\ i - m \in Nat
          /\ \A k \in 1..(i - m) : t[i][k] = s[m + k]
          /\ w \in Nat /\ i = w - 1 /\ m \in Nat /\ w - m = i - m + 1
      BY <2>1, <2>4
    <3>1. t[w] = Append(t[i], s[w])
      BY <1>2, <2>1, <2>2, <2>4, SMTT(20) DEF Keeping
    <3>2. s[w] \in Nat
      BY <1>1, <2>1
    <3> DEFINE l == i - m
    <3> HIDE DEF w, l
    <3>3. /\ l \in Nat /\ t[i] \in Seq(Nat) /\ Len(t[i]) = l /\ w - m = l + 1
          /\ \A k \in 1..l : t[i][k] = s[m + k]
      BY <3>0 DEF l
    <3>4. /\ t[w] \in Seq(Nat) /\ Len(t[w]) = l + 1
          /\ t[w][l + 1] = s[w] /\ \A k \in 1..l : t[w][k] = t[i][k]
      BY <3>1, <3>2, <3>3, SMTT(20)
    <3>5. ASSUME NEW k \in 1..(l + 1) PROVE t[w][k] = s[m + k]
      <4>1. CASE k \in 1..l
        BY <3>3, <3>4, <4>1
      <4>2. CASE k = l + 1
        <5>1. m + k = w
          BY <3>0, <3>3, <4>2
        <5> QED
          BY <3>4, <4>2, <5>1
      <4> QED
        BY <3>3, <4>1, <4>2
    <3>6. Len(t[w]) = w - m
      BY <3>3, <3>4
    <3>7. Right(w)
      BY <2>4, <3>0, <3>3, <3>4, <3>5, <3>6
    <3> QED
      BY <3>7 DEF w
  <2> QED
    BY <2>1, <2>3, <2>4
<1>6. Right(n)
  <2>1. n \in P
    <3> HIDE DEF P
    <3> QED BY <1>4, <1>5, NaturalInduction
  <2> HIDE DEF Right
  <2> QED
    BY <2>1
<1>7. EndOf(s, Pruned(s), m) /\ Pruned(s) \in Seq(Nat)
  <2>1. Pruned(s) = t[n]
    BY <1>3 DEF PrunedOn
  <2>2. Len(t[n]) = n - m
    BY <1>2, <1>6
  <2>3. \A k \in 1..(n - m) : t[n][k] = s[m + k]
    BY <1>6, <2>2
  <2> QED
    BY <1>2, <1>6, <2>1, <2>2, <2>3 DEF EndOf
<1> QED
  BY <1>2, <1>7

(***************************************************************************)
(* The supervisor's invariant: what is kept of the failures counts those   *)
(* close to the newest, which bounds the restart that may follow; and a    *)
(* drain that is under way has not reached its timeout.                    *)
(***************************************************************************)
SupervisorTyped ==
  /\ svcNow \in Nat /\ work \in Nat /\ failuresKept \in Seq(Nat) /\ failedAt \in Seq(Nat)
  /\ svcState \in {"stopped", "running", "draining", "failed"}
  /\ OldestFirst(failedAt) /\ \A i \in DOMAIN failedAt : failedAt[i] <= svcNow

CloseTo(i) == {j \in 1..i : failedAt[i] - failedAt[j] <= RestartWindow}

\* What was cut off of the failures is too old for the newest of them.
KeptAreRecent ==
  \E m \in 0..Len(failedAt) :
    EndOf(failedAt, failuresKept, m) /\ \A j \in 1..m : ~(failedAt[Len(failedAt)] - failedAt[j] <= RestartWindow)

RestartsBounded ==
  \A i \in restartedAfter : i \in 1..Len(failedAt) /\ Cardinality(CloseTo(i)) <= MaxRestarts

DrainBounded ==
  /\ svcState = "draining" => drainBegan \in Nat /\ drainBegan <= svcNow /\ svcNow - drainBegan <= DrainTimeout
  /\ cutOff \in Int /\ (cutOff # NoTime => cutOff >= DrainTimeout)

SupervisorInv ==
  /\ SupervisorTyped /\ KeptAreRecent /\ RestartsBounded /\ DrainBounded
  /\ svcState = "failed" => Len(failedAt) > 0

\* Nothing has failed yet.
LEMMA InitSupervisor == SupervisionAssumption /\ SupervisionInit => SupervisorInv
<1> SUFFICES ASSUME SupervisionAssumption, SupervisionInit PROVE SupervisorInv
  OBVIOUS
<1>1. failedAt = <<>> /\ failuresKept = <<>> /\ restartedAfter = {} /\ cutOff = NoTime
      /\ svcNow = 0 /\ work = 0 /\ svcState = "stopped"
  BY DEF SupervisionInit
<1>2. SupervisorTyped
  BY <1>1 DEF SupervisorTyped, OldestFirst
<1>3. KeptAreRecent
  <2>1. EndOf(failedAt, failuresKept, 0)
    BY <1>1 DEF EndOf
  <2> QED
    BY <1>1, <2>1 DEF KeptAreRecent
<1> QED
  BY <1>1, <1>2, <1>3 DEF SupervisorInv, RestartsBounded, DrainBounded, NoTime

\* What is out of the window stays out of it.
LEMMA StaysAgo ==
  ASSUME NEW last \in Nat, NEW at \in Nat, NEW later \in Nat, NEW window \in Nat,
         last <= later, ~(last - at <= window)
  PROVE  ~(later - at <= window)
OBVIOUS

\* A failure is the newest, and the failures kept are pruned (record_failure).
LEMMA FailureKeeps ==
  ASSUME SupervisionAssumption, SupervisorInv, RecordFailure
  PROVE  SupervisorInv'
<1> DEFINE s == Append(failedAt, svcNow)
           n == Len(failedAt)
           w == n + 1
           more == Append(failuresKept, svcNow)
<1>1. /\ svcState' = "failed" /\ work' = 0 /\ failuresKept' = Pruned(more) /\ failedAt' = s
      /\ UNCHANGED <<svcNow, drainBegan, restartedAfter, cutOff>>
  BY DEF RecordFailure
<1>2. /\ svcNow \in Nat /\ failuresKept \in Seq(Nat) /\ failedAt \in Seq(Nat) /\ OldestFirst(failedAt)
      /\ \A i \in DOMAIN failedAt : failedAt[i] <= svcNow
  BY DEF SupervisorInv, SupervisorTyped
<1>3. /\ n \in Nat /\ s \in Seq(Nat) /\ Len(s) = w /\ s[w] = svcNow /\ w \in Nat
      /\ \A i \in 1..n : s[i] = failedAt[i]
  BY <1>2
<1>4. OldestFirst(s) /\ \A i \in DOMAIN s : s[i] <= svcNow
  <2>1. DOMAIN s = 1..w /\ DOMAIN failedAt = 1..n /\ \A i \in 1..w : i = w \/ i \in 1..n
    <3>1. DOMAIN s = 1..w
      BY <1>3
    <3>2. DOMAIN failedAt = 1..n
      BY <1>2
    <3>3. \A i \in 1..w : i = w \/ i \in 1..n
      BY <1>3
    <3> QED
      BY <3>1, <3>2, <3>3
  <2>2. \A i \in 1..n : s[i] <= svcNow
    BY <1>2, <1>3, <2>1
  <2>3. s[w] <= svcNow
    BY <1>2, <1>3
  <2>4. ASSUME NEW i \in 1..w, NEW j \in 1..w, i <= j PROVE s[i] <= s[j]
    <3>1. CASE j = w
      BY <1>3, <2>1, <2>2, <2>3, <3>1
    <3>2. CASE j \in 1..n
      <4>1. i \in 1..n
        BY <1>3, <2>4, <3>2
      <4>2. s[i] = failedAt[i] /\ s[j] = failedAt[j]
        BY <1>3, <3>2, <4>1
      <4> QED
        BY <1>2, <2>1, <2>4, <3>2, <4>1, <4>2 DEF OldestFirst
    <3> QED
      BY <2>1, <3>1, <3>2
  <2> HIDE DEF s, w, n
  <2> QED
    BY <2>1, <2>2, <2>3, <2>4 DEF OldestFirst
<1>5. PICK m \in 0..n : /\ EndOf(failedAt, failuresKept, m)
                        /\ \A j \in 1..m : ~(failedAt[n] - failedAt[j] <= RestartWindow)
  BY DEF SupervisorInv, KeptAreRecent
<1>6. /\ more \in Seq(Nat) /\ Len(more) = w - m
      /\ \A k \in 1..(w - m) : more[k] = s[m + k] /\ m + k \in 1..w
  BY <1>2, <1>3, <1>5 DEF EndOf
<1> HIDE DEF s, n, w, more
<1> DEFINE l == w - m
<1>7. l \in Nat /\ l > 0 /\ more[l] = svcNow /\ DOMAIN more = 1..l
  BY <1>3, <1>5, <1>6 DEF w
<1>8. OldestFirst(more) /\ \A i \in DOMAIN more : more[i] <= svcNow
  <2>1. DOMAIN s = 1..w
    BY <1>3
  <2>2. \A k \in DOMAIN more : k \in 1..(w - m)
    BY <1>7
  <2>3. \A i, j \in DOMAIN more : i <= j => m + i <= m + j
    BY <1>5, <1>7
  <2> HIDE DEF l
  <2>4. \A k \in DOMAIN more : more[k] = s[m + k] /\ m + k \in DOMAIN s
    BY <1>6, <2>1, <2>2
  <2>5. OldestFirst(more)
    BY <1>4, <2>3, <2>4 DEF OldestFirst
  <2>6. \A i \in DOMAIN more : more[i] <= svcNow
    BY <1>4, <2>4
  <2> QED
    BY <2>5, <2>6
<1>9. /\ Pruned(more) \in Seq(Nat)
      /\ \E c \in 0..l : EndOf(more, Pruned(more), c) /\ \A j \in 1..c : ~Recent(more[j])
  <2> HIDE DEF l
  <2> QED
    BY <1>2, <1>6, <1>7, <1>8, PruningCutsOff DEF l
<1>10. PICK c \in 0..l : EndOf(more, Pruned(more), c) /\ \A j \in 1..c : ~Recent(more[j])
  BY <1>9
<1>11. EndOf(s, Pruned(more), m + c)
  BY <1>3, <1>5, <1>6, <1>10 DEF EndOf
<1>12. ASSUME NEW j \in 1..(m + c) PROVE ~(s[w] - s[j] <= RestartWindow)
  <2>0. RestartWindow \in Nat /\ j \in Nat /\ m \in Nat /\ c \in Nat
    BY <1>5 DEF SupervisionAssumption
  <2>1. CASE j <= m
    <3>1. ~(failedAt[n] - failedAt[j] <= RestartWindow) /\ j \in 1..n /\ n \in 1..n
      BY <1>3, <1>5, <2>0, <2>1
    <3>2. /\ failedAt[n] \in Nat /\ failedAt[j] \in Nat /\ failedAt[n] <= svcNow
          /\ s[j] = failedAt[j] /\ s[w] = svcNow
      BY <1>2, <1>3, <3>1, SMTT(20) DEF n
    <3>3. ~(svcNow - failedAt[j] <= RestartWindow)
      BY <1>2, <2>0, <3>1, <3>2, StaysAgo
    <3> QED
      BY <3>2, <3>3
  <2>2. CASE j > m
    <3>0. c <= l /\ l \in Nat
      BY <1>7, <1>10
    <3> HIDE DEF l
    <3>1. j - m \in 1..c /\ j - m \in 1..l /\ m + (j - m) = j
      BY <2>0, <2>2, <3>0
    <3>2. more[j - m] = s[j] /\ ~Recent(more[j - m])
      BY <1>6, <1>10, <3>1 DEF l
    <3> QED
      BY <1>3, <3>2 DEF Recent
  <2> QED
    BY <2>0, <2>1, <2>2
<1>13. KeptAreRecent'
  <2>1. m + c \in 0..w
    BY <1>3, <1>5, <1>10
  <2> QED
    BY <1>1, <1>3, <1>11, <1>12, <2>1 DEF KeptAreRecent
<1>14. SupervisorTyped'
  BY <1>1, <1>2, <1>3, <1>4, <1>9 DEF SupervisorTyped
<1>15. RestartsBounded'
  <2>1. \A i \in 1..n : CloseTo(i)' = CloseTo(i)
    BY <1>1, <1>3 DEF CloseTo
  <2>2. \A i \in restartedAfter : i \in 1..n /\ Cardinality(CloseTo(i)) <= MaxRestarts
    BY DEF SupervisorInv, RestartsBounded, n
  <2>3. \A i \in 1..n : i \in 1..w
    BY <1>3 DEF w
  <2> QED
    BY <1>1, <1>3, <2>1, <2>2, <2>3 DEF RestartsBounded
<1>16. DrainBounded'
  BY <1>1 DEF DrainBounded, SupervisorInv
<1> QED
  BY <1>1, <1>3, <1>13, <1>14, <1>15, <1>16 DEF SupervisorInv, w

(***************************************************************************)
(* The supervisor's other steps.                                           *)
(***************************************************************************)
\* A restart by itself follows the newest failure (start, should_restart).
LEMMA StartKeeps ==
  ASSUME SupervisionAssumption, SupervisorInv, NEW automatic \in BOOLEAN, StartService(automatic)
  PROVE  SupervisorInv'
<1> DEFINE n == Len(failedAt)
<1>1. /\ svcState' = "running" /\ (automatic => ShouldRestart)
      /\ restartedAfter' = IF automatic THEN restartedAfter \cup {n} ELSE restartedAfter
      /\ UNCHANGED <<svcNow, failuresKept, drainBegan, work, failedAt, cutOff>>
  BY DEF StartService
<1>2. ASSUME ShouldRestart PROVE n \in 1..n /\ Cardinality(CloseTo(n)) <= MaxRestarts
  <2>1. n \in Nat /\ n > 0 /\ Len(failuresKept) <= MaxRestarts /\ failuresKept \in Seq(Nat)
    BY <1>2 DEF SupervisorInv, SupervisorTyped, ShouldRestart
  <2>2. PICK m \in 0..n : /\ EndOf(failedAt, failuresKept, m)
                          /\ \A j \in 1..m : ~(failedAt[n] - failedAt[j] <= RestartWindow)
    BY DEF SupervisorInv, KeptAreRecent
  <2>3. Len(failuresKept) = n - m /\ m \in Nat
    BY <2>1, <2>2 DEF EndOf
  <2> HIDE DEF n
  <2>4. \A j \in CloseTo(n) : j \in (m + 1)..n
    BY <2>1, <2>2, <2>3 DEF CloseTo
  <2>5. IsFiniteSet((m + 1)..n) /\ Cardinality((m + 1)..n) = n - m
    <3> DEFINE low == m + 1
    <3>1. low \in Int /\ n \in Int /\ low = m + 1 /\ m <= n
      BY <2>1, <2>2, <2>3
    <3> HIDE DEF low
    <3>2. IsFiniteSet(low..n) /\ Cardinality(low..n) = IF low > n THEN 0 ELSE n - low + 1
      BY <3>1, FS_Interval
    <3> QED
      BY <2>1, <2>3, <3>1, <3>2
  <2>6. Cardinality(CloseTo(n)) <= n - m /\ Cardinality(CloseTo(n)) \in Nat
    BY <2>4, <2>5, FS_Subset, FS_CardinalityType
  <2> QED
    BY <2>1, <2>3, <2>6 DEF SupervisionAssumption
<1>3. RestartsBounded'
  <2>1. \A i : CloseTo(i)' = CloseTo(i)
    BY <1>1 DEF CloseTo
  <2> QED
    BY <1>1, <1>2, <2>1 DEF RestartsBounded, SupervisorInv
<1> QED
  BY <1>1, <1>3 DEF SupervisorInv, SupervisorTyped, KeptAreRecent, DrainBounded

\* Draining, stopping, the work in flight and the time (drain_complete).
LEMMA OtherStepsKeep ==
  ASSUME SupervisionAssumption, SupervisorInv,
         BeginDrain \/ StopService \/ WorkArrives \/ WorkFinishes \/ TimePasses
  PROVE  SupervisorInv'
<1>1. /\ UNCHANGED <<failuresKept, failedAt, restartedAfter>>
      /\ svcState' = "failed" => svcState = "failed"
  BY DEF BeginDrain, StopService, WorkArrives, WorkFinishes, TimePasses
<1>2. KeptAreRecent'
  BY <1>1 DEF SupervisorInv, KeptAreRecent
<1>3. RestartsBounded'
  <2>1. \A i : CloseTo(i)' = CloseTo(i)
    BY <1>1 DEF CloseTo
  <2> QED
    BY <1>1, <2>1 DEF RestartsBounded, SupervisorInv
<1>4. /\ svcNow \in Nat /\ work \in Nat /\ DrainTimeout \in Nat /\ failedAt \in Seq(Nat)
      /\ \A i \in DOMAIN failedAt : failedAt[i] \in Nat /\ failedAt[i] <= svcNow
  BY DEF SupervisorInv, SupervisorTyped, SupervisionAssumption
<1>5. SupervisorTyped' /\ DrainBounded'
  <2>1. svcNow' \in Nat /\ svcNow' >= svcNow /\ work' \in Nat
    BY <1>4 DEF BeginDrain, StopService, WorkArrives, WorkFinishes, TimePasses
  <2>2. SupervisorTyped'
    BY <1>1, <1>4, <2>1
       DEF SupervisorTyped, SupervisorInv, BeginDrain, StopService, WorkArrives, WorkFinishes, TimePasses
  <2>3. DrainBounded'
    <3>1. CASE BeginDrain
      BY <1>4, <3>1 DEF BeginDrain, DrainBounded, SupervisorInv
    <3>2. CASE StopService
      BY <1>4, <3>2 DEF StopService, DrainComplete, DrainBounded, SupervisorInv
    <3>3. CASE WorkArrives \/ WorkFinishes
      BY <3>3 DEF WorkArrives, WorkFinishes, DrainBounded, SupervisorInv
    <3>4. CASE TimePasses
      BY <1>4, <3>4 DEF TimePasses, DrainComplete, DrainBounded, SupervisorInv
    <3> QED
      BY <3>1, <3>2, <3>3, <3>4
  <2> QED
    BY <2>2, <2>3
<1> QED
  BY <1>1, <1>2, <1>3, <1>5 DEF SupervisorInv

\* What the invariant says of restarts and drains.
LEMMA HoldsBack == ASSUME SupervisorInv PROVE SupervisorHoldsBack
BY DEF SupervisorInv, RestartsBounded, DrainBounded, CloseTo, SupervisorHoldsBack

(***************************************************************************)
(* The histogram: counts by bucket, and the order of the samples.          *)
(***************************************************************************)
\* Of some indices of a sequence of numbers, those of a least and a greatest one.
LEMMA ExtremeIndices ==
  ASSUME NEW n \in Nat, NEW s, \A i \in 1..n : s[i] \in Int, NEW T \in SUBSET (1..n), T # {}
  PROVE  /\ \E i \in T : \A j \in T : s[i] <= s[j]
         /\ \E i \in T : \A j \in T : s[j] <= s[i]
<1> DEFINE P == {S \in SUBSET (1..n) : S # {} => /\ \E i \in S : \A j \in S : s[i] <= s[j]
                                                 /\ \E i \in S : \A j \in S : s[j] <= s[i]}
<1>1. {} \in P
  OBVIOUS
<1>2. ASSUME NEW S \in SUBSET (1..n), NEW x \in (1..n) \ S, S \in P PROVE S \cup {x} \in P
  <2>1. CASE S = {}
    BY <2>1
  <2>2. CASE S # {}
    <3>1. PICK i \in S : \A j \in S : s[i] <= s[j]
      BY <1>2, <2>2
    <3>2. PICK k \in S : \A j \in S : s[j] <= s[k]
      BY <1>2, <2>2
    <3>3. \A j \in S : s[j] \in Int
      OBVIOUS
    <3>4. s[x] \in Int
      OBVIOUS
    <3>5. \E y \in S \cup {x} : \A j \in S \cup {x} : s[y] <= s[j]
      <4>1. CASE s[x] <= s[i]
        BY <3>1, <3>3, <3>4, <4>1
      <4>2. CASE ~(s[x] <= s[i])
        BY <3>1, <3>3, <3>4, <4>2
      <4> QED
        BY <4>1, <4>2
    <3>6. \E y \in S \cup {x} : \A j \in S \cup {x} : s[j] <= s[y]
      <4>1. CASE s[k] <= s[x]
        BY <3>2, <3>3, <3>4, <4>1
      <4>2. CASE ~(s[k] <= s[x])
        BY <3>2, <3>3, <3>4, <4>2
      <4> QED
        BY <4>1, <4>2
    <3> QED
      BY <3>5, <3>6
  <2> QED
    BY <2>1, <2>2
<1>3. T \in P
  <2>1. IsFiniteSet(T)
    <3>1. IsFiniteSet(1..n)
      BY FS_Interval
    <3> QED
      BY <3>1, FS_Subset
  <2>2. \A S \in SUBSET T : \A x \in T \ S : S \in P => S \cup {x} \in P
    <3> HIDE DEF P
    <3> QED BY <1>2
  <2> HIDE DEF P
  <2> QED
    BY <1>1, <2>1, <2>2, FiniteInduction
<1> QED
  BY <1>3

\* Of n samples, the one of a rank: fewer lie below it, as many do not lie above it.
LEMMA RankIsTaken ==
  ASSUME NEW n \in Nat, NEW s, \A i \in 1..n : s[i] \in Int, NEW rank \in 1..n
  PROVE  \E i \in 1..n : /\ Cardinality({j \in 1..n : s[j] < s[i]}) < rank
                         /\ Cardinality({j \in 1..n : s[j] <= s[i]}) >= rank
<1> DEFINE Below(x) == {j \in 1..n : s[j] < x}
           NotAbove(x) == {j \in 1..n : s[j] <= x}
           Enough == {i \in 1..n : Cardinality(NotAbove(s[i])) >= rank}
<1>1. IsFiniteSet(1..n) /\ Cardinality(1..n) = n
  BY FS_Interval
<1>2. \A x : Cardinality(Below(x)) \in Nat /\ Cardinality(NotAbove(x)) \in Nat
  BY <1>1, FS_Subset, FS_CardinalityType
<1>3. Enough # {}
  <2>1. 1..n \in SUBSET (1..n) /\ 1..n # {}
    OBVIOUS
  <2>2. PICK i \in 1..n : \A j \in 1..n : s[j] <= s[i]
    BY <2>1, ExtremeIndices
  <2>3. NotAbove(s[i]) = 1..n
    BY <2>2
  <2> HIDE DEF NotAbove
  <2>4. Cardinality(NotAbove(s[i])) >= rank
    BY <1>1, <2>3
  <2> QED
    BY <2>2, <2>4
<1>4. PICK i \in Enough : \A j \in Enough : s[i] <= s[j]
  <2>1. Enough \in SUBSET (1..n)
    OBVIOUS
  <2> HIDE DEF Enough
  <2> QED
    BY <1>3, <2>1, ExtremeIndices
<1>5. Cardinality(Below(s[i])) < rank
  <2>1. CASE Below(s[i]) = {}
    BY <2>1, FS_EmptySet
  <2>2. CASE Below(s[i]) # {}
    <3>1. PICK k \in Below(s[i]) : \A j \in Below(s[i]) : s[j] <= s[k]
      <4>1. Below(s[i]) \in SUBSET (1..n)
        OBVIOUS
      <4> HIDE DEF Below
      <4> QED
        BY <2>2, <4>1, ExtremeIndices
    <3>2. s[i] \in Int /\ s[k] \in Int /\ k \in 1..n /\ s[k] < s[i]
      OBVIOUS
    <3>3. NotAbove(s[k]) = Below(s[i])
      <4>1. \A j \in 1..n : s[j] <= s[k] => s[j] < s[i]
        BY <3>2
      <4> QED
        BY <3>1, <4>1
    <3>4. k \notin Enough
      BY <1>4, <3>2
    <3>5. ~(Cardinality(Below(s[i])) >= rank)
      BY <3>2, <3>3, <3>4
    <3> QED
      BY <1>2, <3>5, SMTT(20)
  <2> QED
    BY <2>1, <2>2
<1> QED
  BY <1>4, <1>5

\* Disjoint sets are counted apart.
LEMMA DisjointCount ==
  ASSUME NEW S, IsFiniteSet(S), NEW T, IsFiniteSet(T), S \cap T = {}
  PROVE  Cardinality(S \cup T) = Cardinality(S) + Cardinality(T)
<1>1. Cardinality(S \cup T) = Cardinality(S) + Cardinality(T) - Cardinality(S \cap T)
  BY FS_Union
<1>2. Cardinality(S \cap T) = 0 /\ Cardinality(S) \in Nat /\ Cardinality(T) \in Nat
  BY FS_EmptySet, FS_CardinalityType
<1> QED
  BY <1>1, <1>2

\* The samples of a bucket, and of it and those before.
NBuckets == Len(BucketBounds)
Landed(b) == {i \in DOMAIN samples : BucketOf(samples[i]) = b}
Through(b) == {i \in DOMAIN samples : BucketOf(samples[i]) <= b}

\* A bucket counts the samples that landed in it.
HistogramInv ==
  /\ samples \in Seq(Nat) /\ DOMAIN buckets = 1..NBuckets
  /\ \A b \in 1..NBuckets : buckets[b] = Cardinality(Landed(b))

\* A greater latency lands in no earlier bucket.
LEMMA BucketsInOrder ==
  ASSUME SupervisionAssumption
  PROVE  /\ NBuckets \in Nat /\ NBuckets > 0 /\ DOMAIN BucketBounds = 1..NBuckets
         /\ \A b \in 1..NBuckets : BucketBounds[b] \in Nat
         /\ \A x \in Nat : BucketOf(x) \in 1..NBuckets
         /\ \A x, y \in Nat : x <= y => BucketOf(x) <= BucketOf(y)
<1> DEFINE Holding(x) == {b \in DOMAIN BucketBounds : x <= BucketBounds[b]}
<1>1. /\ NBuckets \in Nat /\ NBuckets > 0 /\ DOMAIN BucketBounds = 1..NBuckets
      /\ \A b \in 1..NBuckets : BucketBounds[b] \in Nat
  BY DEF SupervisionAssumption, NBuckets
<1>2. ASSUME NEW x \in Nat, Holding(x) # {} PROVE BucketOf(x) \in Holding(x) /\ \A c \in Holding(x) : BucketOf(x) <= c
  <2> DEFINE id == [b \in 1..NBuckets |-> b]
  <2>1. /\ \A b \in 1..NBuckets : id[b] = b /\ id[b] \in Int
        /\ Holding(x) \in SUBSET (1..NBuckets)
    BY <1>1
  <2> HIDE DEF id, Holding
  <2> DEFINE T == Holding(x)
             N == NBuckets
  <2>5. N \in Nat /\ (\A b \in 1..N : id[b] \in Int) /\ T \in SUBSET (1..N) /\ T # {}
    BY <1>1, <1>2, <2>1
  <2> HIDE DEF T, N
  <2>6. \E b \in T : \A c \in T : id[b] <= id[c]
    BY <2>5, ExtremeIndices, Zenon
  <2>2. \E b \in Holding(x) : \A c \in Holding(x) : id[b] <= id[c]
    BY <2>6 DEF T
  <2>3. \E b \in Holding(x) : \A c \in Holding(x) : b <= c
    BY <2>1, <2>2
  <2>4. BucketOf(x) = CHOOSE b \in Holding(x) : \A c \in Holding(x) : b <= c
    BY <1>2 DEF BucketOf, Holding
  <2> QED
    BY <2>3, <2>4
<1>3. \A x \in Nat : Holding(x) = {} => BucketOf(x) = NBuckets
  BY DEF BucketOf, NBuckets
<1>4. \A x \in Nat : BucketOf(x) \in 1..NBuckets
  <2>1. \A x : \A b \in Holding(x) : b \in 1..NBuckets
    BY <1>1
  <2> HIDE DEF Holding
  <2> SUFFICES ASSUME NEW x \in Nat PROVE BucketOf(x) \in 1..NBuckets
    OBVIOUS
  <2>2. CASE Holding(x) = {}
    BY <1>1, <1>3, <2>2
  <2>3. CASE Holding(x) # {}
    BY <1>2, <2>1, <2>3
  <2> QED
    BY <2>2, <2>3
<1>5. ASSUME NEW x \in Nat, NEW y \in Nat, x <= y PROVE BucketOf(x) <= BucketOf(y)
  <2>1. \A c \in Holding(y) : c \in Holding(x)
    BY <1>1, <1>5
  <2> HIDE DEF Holding
  <2>0. BucketOf(x) \in 1..NBuckets /\ BucketOf(y) \in 1..NBuckets
    BY <1>4
  <2>2. BucketOf(x) \in Nat /\ BucketOf(y) \in Nat /\ BucketOf(x) <= NBuckets
    BY <1>1, <2>0
  <2>3. CASE Holding(y) = {}
    BY <1>3, <2>2, <2>3
  <2>4. CASE Holding(y) # {}
    <3>1. BucketOf(y) \in Holding(y)
      BY <1>2, <2>4
    <3>2. BucketOf(y) \in Holding(x)
      BY <2>1, <3>1
    <3> QED
      BY <1>2, <3>2
  <2> QED
    BY <2>3, <2>4
<1> QED
  BY <1>1, <1>4, <1>5

\* A cumulative count is the number of samples in these buckets.
LEMMA CountsAddUp ==
  ASSUME SupervisionAssumption, HistogramInv
  PROVE  \A b \in 0..NBuckets : UpTo(b) = Cardinality(Through(b)) /\ UpTo(b) \in Nat
<1> DEFINE Sum(b) == SumFunctionOnSet(buckets, 1..b)
           P == {b \in Nat : b <= NBuckets => Sum(b) = Cardinality(Through(b))}
<1>1. IsFiniteSet(DOMAIN samples)
  <2>1. DOMAIN samples = 1..Len(samples) /\ Len(samples) \in Nat
    BY DEF HistogramInv
  <2> QED
    BY <2>1, FS_Interval
<1>2. \A b : /\ IsFiniteSet(Through(b)) /\ Cardinality(Through(b)) \in Nat
             /\ IsFiniteSet(Landed(b)) /\ Cardinality(Landed(b)) \in Nat
  <2>1. \A b : Through(b) \in SUBSET DOMAIN samples /\ Landed(b) \in SUBSET DOMAIN samples
    BY DEF Through, Landed
  <2> QED
    BY <1>1, <2>1, FS_Subset, FS_CardinalityType
<1>3. \A i \in DOMAIN samples : BucketOf(samples[i]) \in 1..NBuckets
  <2>1. \A i \in DOMAIN samples : samples[i] \in Nat
    BY DEF HistogramInv
  <2> QED
    BY <2>1, BucketsInOrder
<1>4. NBuckets \in Nat
  BY BucketsInOrder
<1>5. 0 \in P
  <2>1. 1..0 = {} /\ Through(0) = {}
    BY <1>3, <1>4 DEF Through
  <2> QED
    BY <2>1, SumEmpty, FS_EmptySet
<1>6. ASSUME NEW b \in Nat, b \in P PROVE b + 1 \in P
  <2> SUFFICES ASSUME b + 1 <= NBuckets PROVE Sum(b + 1) = Cardinality(Through(b + 1))
    OBVIOUS
  <2> DEFINE c == b + 1
  <2>1. c \in 1..c /\ (1..c) \ {c} = 1..b /\ c \in 1..NBuckets /\ c \in Nat
    BY <1>4
  <2>2. \A x \in 1..c : buckets[x] \in Int
    BY <1>2, <1>4, <2>1 DEF HistogramInv
  <2>3. IsFiniteSet(1..c)
    BY <2>1, FS_Interval
  <2>4. Sum(c) = buckets[c] + Sum(b)
    <3> DEFINE S == 1..c
    <3>1. IsFiniteSet(S) /\ (\A x \in S : buckets[x] \in Int) /\ c \in S /\ S \ {c} = 1..b
      BY <2>1, <2>2, <2>3
    <3> HIDE DEF S, c
    <3>2. SumFunctionOnSet(buckets, S) = buckets[c] + SumFunctionOnSet(buckets, S \ {c})
      BY <3>1, SumTakingAny
    <3> QED
      BY <3>1, <3>2 DEF S
  <2>5. Through(c) = Through(b) \cup Landed(c) /\ Through(b) \cap Landed(c) = {}
    BY <1>3, <1>4, <2>1 DEF Through, Landed
  <2>6. Cardinality(Through(c)) = Cardinality(Through(b)) + Cardinality(Landed(c))
    <3>1. Cardinality(Through(b) \cup Landed(c)) = Cardinality(Through(b)) + Cardinality(Landed(c))
      BY <1>2, <2>5, DisjointCount
    <3> QED
      BY <2>5, <3>1
  <2>7. buckets[c] = Cardinality(Landed(c))
    BY <2>1 DEF HistogramInv
  <2>8. Sum(b) = Cardinality(Through(b))
    <3>1. b <= NBuckets
      BY <1>4
    <3> HIDE DEF Sum
    <3> QED
      BY <1>6, <3>1
  <2> HIDE DEF Sum
  <2> QED
    BY <1>2, <2>4, <2>6, <2>7, <2>8
<1>7. \A b \in Nat : b \in P
  <2> HIDE DEF P
  <2> QED BY <1>5, <1>6, NaturalInduction
<1>8. \A b : UpTo(b) = Sum(b)
  BY DEF UpTo, MapThenSumSet, SumFunctionOnSet, FoldFunctionOnSet
<1> QED
  BY <1>2, <1>4, <1>7, <1>8

\* No sample, no count.
LEMMA InitHistogram == SupervisionInit => HistogramInv
<1> SUFFICES ASSUME SupervisionInit PROVE HistogramInv
  OBVIOUS
<1>1. samples = <<>> /\ buckets = [b \in DOMAIN BucketBounds |-> 0]
  BY DEF SupervisionInit
<1>2. \A b : Landed(b) = {}
  BY <1>1 DEF Landed
<1>3. DOMAIN BucketBounds = 1..NBuckets
  BY BucketsInOrder, SupervisionAssumption
<1>4. \A b \in 1..NBuckets : buckets[b] = 0 /\ Cardinality(Landed(b)) = 0
  BY <1>1, <1>2, <1>3, FS_EmptySet
<1>5. samples \in Seq(Nat) /\ DOMAIN buckets = 1..NBuckets
  BY <1>1, <1>3
<1> QED
  BY <1>4, <1>5 DEF HistogramInv

\* A sample is counted in its bucket, a negative one is dropped (observe).
LEMMA ObserveKeeps ==
  ASSUME HistogramInv, NEW latency \in Latencies, Observe(latency)
  PROVE  HistogramInv'
<1> DEFINE n == Len(samples)
<1>1. /\ n \in Nat /\ DOMAIN samples = 1..n /\ \A i \in 1..n : samples[i] \in Nat
      /\ samples \in Seq(Nat) /\ DOMAIN buckets = 1..NBuckets
  BY DEF HistogramInv
<1>2. CASE latency < 0
  <2>1. buckets' = buckets /\ samples' = samples
    BY <1>2 DEF Observe, histogramVars
  <2> QED
    BY <2>1 DEF HistogramInv, Landed
<1>3. CASE ~(latency < 0)
  <2> DEFINE w == n + 1
             here == BucketOf(latency)
  <2>1. latency \in Nat
    BY <1>3, SupervisionAssumption DEF SupervisionAssumption
  <2>2. here \in 1..NBuckets
    BY <2>1, BucketsInOrder, SupervisionAssumption
  <2>3. buckets' = [buckets EXCEPT ![here] = @ + 1] /\ samples' = Append(samples, latency)
    BY <1>3 DEF Observe
  <2>4. /\ samples' \in Seq(Nat) /\ DOMAIN samples' = (1..n) \cup {w} /\ samples'[w] = latency
        /\ w \notin 1..n /\ \A i \in 1..n : samples'[i] = samples[i]
    BY <1>1, <2>1, <2>3
  <2>5. IsFiniteSet(1..n)
    BY <1>1, FS_Interval
  <2> HIDE DEF n, w, here
  <2>6. ASSUME NEW b \in 1..NBuckets PROVE buckets'[b] = Cardinality(Landed(b)')
    <3>0. /\ IsFiniteSet(Landed(b)) /\ Cardinality(Landed(b)) \in Nat /\ w \notin Landed(b)
          /\ buckets[b] = Cardinality(Landed(b))
      <4>1. Landed(b) \in SUBSET (1..n)
        BY <1>1 DEF Landed
      <4> QED
        BY <2>4, <2>5, <4>1, FS_Subset, FS_CardinalityType DEF HistogramInv
    <3>1. CASE b = here
      <4>1. Landed(b)' = Landed(b) \cup {w}
        BY <1>1, <2>4, <3>1 DEF Landed, here
      <4>2. Cardinality(Landed(b)') = Cardinality(Landed(b)) + 1
        BY <3>0, <4>1, FS_AddElement
      <4> QED
        BY <1>1, <2>2, <2>3, <3>0, <3>1, <4>2
    <3>2. CASE b # here
      <4>1. Landed(b)' = Landed(b)
        BY <1>1, <2>4, <3>2 DEF Landed, here
      <4> QED
        BY <1>1, <2>2, <2>3, <3>0, <3>2, <4>1
    <3> QED
      BY <3>1, <3>2
  <2> QED
    BY <1>1, <2>3, <2>4, <2>6 DEF HistogramInv
<1> QED
  BY <1>2, <1>3

\* The rank that a percentage of n samples stands for.
RankIn(percent, n) == (percent * n + 99) \div 100
IsRank(percent, n, rank) ==
  /\ rank \in 1..n /\ percent * n \in Nat
  /\ \A u \in Nat : 100 * u >= percent * n <=> u >= rank

LEMMA RankOfPercentage ==
  ASSUME NEW n \in Nat, n > 0, NEW percent \in {50, 95, 99}
  PROVE  IsRank(percent, n, RankIn(percent, n))
<1>1. CASE percent = 50
  BY <1>1, SMTT(20) DEF RankIn, IsRank
<1>2. CASE percent = 95
  BY <1>2, SMTT(20) DEF RankIn, IsRank
<1>3. CASE percent = 99
  BY <1>3, SMTT(20) DEF RankIn, IsRank
<1> QED
  BY <1>1, <1>2, <1>3

StatisticOf(rank) ==
  CHOOSE x \in {samples[i] : i \in DOMAIN samples} :
    /\ Cardinality({i \in DOMAIN samples : samples[i] < x}) < rank
    /\ Cardinality({i \in DOMAIN samples : samples[i] <= x}) >= rank

RankFor(percent) == RankIn(percent, Len(samples))

LowerOf(b) == IF b = 1 THEN 0 ELSE BucketBounds[b - 1]

\* Samples up to the bucket of the statistic reach its rank, and those before do not.
LEMMA StatisticsBucket ==
  ASSUME SupervisionAssumption, HistogramInv, NEW rank \in 1..Len(samples), NEW b,
         b = BucketOf(StatisticOf(rank))
  PROVE  /\ b \in 1..NBuckets /\ UpTo(b) >= rank
         /\ \A c \in 0..NBuckets : c < b => UpTo(c) < rank
<1> DEFINE n == Len(samples)
           x == StatisticOf(rank)
           Below == {i \in 1..n : samples[i] < x}
           NotAbove == {i \in 1..n : samples[i] <= x}
<1>1. n \in Nat /\ DOMAIN samples = 1..n /\ \A i \in 1..n : samples[i] \in Nat
  BY DEF HistogramInv
<1>2. x \in {samples[i] : i \in 1..n} /\ Cardinality(Below) < rank /\ Cardinality(NotAbove) >= rank
  <2>1. \A i \in 1..n : samples[i] \in Int
    BY <1>1
  <2>2. \E i \in 1..n : /\ Cardinality({j \in 1..n : samples[j] < samples[i]}) < rank
                        /\ Cardinality({j \in 1..n : samples[j] <= samples[i]}) >= rank
    BY <1>1, <2>1, RankIsTaken
  <2>3. \E y \in {samples[i] : i \in 1..n} : /\ Cardinality({j \in 1..n : samples[j] < y}) < rank
                                            /\ Cardinality({j \in 1..n : samples[j] <= y}) >= rank
    BY <2>2
  <2> QED
    BY <1>1, <2>3 DEF StatisticOf
<1>3. x \in Nat /\ b = BucketOf(x)
  BY <1>1, <1>2
<1> HIDE DEF x
<1>4. b \in 1..NBuckets /\ \A i \in 1..n : BucketOf(samples[i]) \in 1..NBuckets
  BY <1>1, <1>3, BucketsInOrder
<1>5. IsFiniteSet(1..n)
  BY <1>1, FS_Interval
<1>6. \A c : /\ IsFiniteSet(Through(c)) /\ Cardinality(Through(c)) \in Nat
             /\ IsFiniteSet(Below) /\ Cardinality(Below) \in Nat
             /\ IsFiniteSet(NotAbove) /\ Cardinality(NotAbove) \in Nat
  <2>1. \A c : Through(c) \in SUBSET (1..n)
    BY <1>1 DEF Through
  <2>2. Below \in SUBSET (1..n) /\ NotAbove \in SUBSET (1..n)
    OBVIOUS
  <2> HIDE DEF Below, NotAbove
  <2> QED
    BY <1>5, <2>1, <2>2, FS_Subset, FS_CardinalityType
<1>0. rank \in Nat
  BY <1>1
<1>7. UpTo(b) >= rank
  <2>1. \A i \in NotAbove : i \in Through(b)
    BY <1>1, <1>3, BucketsInOrder DEF Through
  <2> HIDE DEF NotAbove
  <2>2. Cardinality(NotAbove) <= Cardinality(Through(b))
    BY <1>6, <2>1, FS_Subset
  <2>3. UpTo(b) = Cardinality(Through(b))
    <3>1. NBuckets \in Nat
      BY BucketsInOrder
    <3>2. b \in 0..NBuckets
      BY <1>4, <3>1
    <3> QED
      BY <3>2, CountsAddUp
  <2>4. Cardinality(NotAbove) >= rank /\ Cardinality(NotAbove) \in Nat /\ Cardinality(Through(b)) \in Nat
    BY <1>2, <1>6 DEF NotAbove
  <2> QED
    BY <1>0, <2>2, <2>3, <2>4
<1>8. ASSUME NEW c \in 0..NBuckets, c < b PROVE UpTo(c) < rank
  <2>0. NBuckets \in Nat /\ c \in Nat /\ b \in Nat
    BY <1>4, BucketsInOrder
  <2>1. ASSUME NEW i \in Through(c) PROVE i \in Below
    <3>1. i \in 1..n /\ samples[i] \in Nat /\ BucketOf(samples[i]) <= c
      BY <1>1 DEF Through
    <3>2. BucketOf(samples[i]) \in Nat
      BY <1>4, <2>0, <3>1
    <3>3. ~(x <= samples[i])
      <4>1. x <= samples[i] => b <= BucketOf(samples[i])
        BY <1>3, <3>1, BucketsInOrder
      <4> QED
        BY <1>8, <2>0, <3>1, <3>2, <4>1
    <3> QED
      BY <1>3, <3>1, <3>3
  <2> HIDE DEF Below
  <2>2. Cardinality(Through(c)) <= Cardinality(Below)
    BY <1>6, <2>1, FS_Subset
  <2>3. UpTo(c) = Cardinality(Through(c))
    BY CountsAddUp
  <2>4. Cardinality(Below) < rank /\ Cardinality(Below) \in Nat /\ Cardinality(Through(c)) \in Nat
    BY <1>2, <1>6 DEF Below
  <2> QED
    BY <1>0, <2>2, <2>3, <2>4
<1> QED
  BY <1>4, <1>7, <1>8

(***************************************************************************)
(* A quantile lies in the bucket of the sample of its rank.                *)
(***************************************************************************)
\* Products of greater factors are greater.
LEMMA GreaterProduct ==
  ASSUME NEW a \in Int, NEW b \in Int, a <= b, NEW c \in Nat
  PROVE  a * c <= b * c /\ c * a <= c * b
<1>1. PICK d \in Nat : b = a + d
  <2>1. b - a \in Nat /\ b = a + (b - a)
    OBVIOUS
  <2> QED
    BY <2>1
<1>2. b * c = a * c + d * c /\ d * c \in Nat /\ a * c \in Int
  BY <1>1
<1>3. a * c <= b * c
  BY <1>2
<1> QED
  BY <1>3

\* Within a bucket by a part of its width.
LEMMA Interpolated ==
  ASSUME NEW lower \in Nat, NEW upper \in Nat, lower <= upper,
         NEW whole \in Nat, NEW part \in Nat, part <= whole
  PROVE  /\ (upper - lower) * part \in Nat
         /\ lower * whole <= lower * whole + (upper - lower) * part
         /\ lower * whole + (upper - lower) * part <= upper * whole
<1> DEFINE width == upper - lower
<1>1. width \in Nat /\ upper = lower + width
  OBVIOUS
<1> HIDE DEF width
<1>2. width * part <= width * whole
  BY <1>1, GreaterProduct
<1>3. upper * whole = lower * whole + width * whole
  BY <1>1
<1>4. lower * whole \in Nat /\ width * part \in Nat /\ width * whole \in Nat
  BY <1>1
<1>5. lower * whole + width * part <= lower * whole + width * whole
  BY <1>2, <1>4
<1>6. lower * whole <= lower * whole + width * part
  BY <1>4
<1> QED
  BY <1>3, <1>4, <1>5, <1>6 DEF width

\* One fraction lies in a bucket, the other in a later one.
LEMMA FractionsApart ==
  ASSUME NEW top \in Nat, NEW bottom \in Nat, NEW top2 \in Nat, NEW bottom2 \in Nat,
         NEW upper \in Nat, NEW lower \in Nat,
         top <= upper * bottom, upper <= lower, lower * bottom2 <= top2
  PROVE  top * bottom2 <= top2 * bottom
<1>1. top * bottom2 <= (upper * bottom) * bottom2
  <2> DEFINE b == upper * bottom
  <2>1. b \in Nat /\ top <= b
    OBVIOUS
  <2> HIDE DEF b
  <2>2. top * bottom2 <= b * bottom2
    BY <2>1, GreaterProduct
  <2> QED
    BY <2>2 DEF b
<1>2. (lower * bottom2) * bottom <= top2 * bottom
  <2> DEFINE a == lower * bottom2
  <2>1. a \in Nat /\ a <= top2
    OBVIOUS
  <2> HIDE DEF a
  <2>2. a * bottom <= top2 * bottom
    BY <2>1, GreaterProduct
  <2> QED
    BY <2>2 DEF a
<1>3. upper * (bottom * bottom2) <= lower * (bottom * bottom2)
  <2> DEFINE c == bottom * bottom2
  <2>1. c \in Nat
    OBVIOUS
  <2> HIDE DEF c
  <2>2. upper * c <= lower * c
    BY <2>1, GreaterProduct
  <2> QED
    BY <2>2 DEF c
<1>4. /\ (upper * bottom) * bottom2 = upper * (bottom * bottom2)
      /\ (lower * bottom2) * bottom = lower * (bottom * bottom2)
  OBVIOUS
<1> DEFINE p == top * bottom2
           q == upper * (bottom * bottom2)
           r == lower * (bottom * bottom2)
           t == top2 * bottom
<1>5. p \in Nat /\ q \in Nat /\ r \in Nat /\ t \in Nat
  OBVIOUS
<1>6. p <= q /\ q <= r /\ r <= t
  BY <1>1, <1>2, <1>3, <1>4
<1> HIDE DEF p, q, r, t
<1>7. p <= t
  BY <1>5, <1>6
<1> QED
  BY <1>7 DEF p, t

\* The share of a bucket that is below a rank.
ShareOf(percent, b) == percent * Len(samples) - 100 * UpTo(b - 1)
StatisticsBucketOf(percent) == BucketOf(StatisticOf(RankFor(percent)))

QuantileBy(percent, b) ==
  /\ b \in 1..NBuckets /\ buckets[b] \in Nat /\ ShareOf(percent, b) \in Nat
  /\ ShareOf(percent, b) <= 100 * buckets[b]
  /\ Quantile(percent) =
       [top |-> LowerOf(b) * 100 * buckets[b] + (BucketBounds[b] - LowerOf(b)) * ShareOf(percent, b),
        bottom |-> 100 * buckets[b]]

\* The bucket that reaches the rank is that of the statistic (quantile_micros).
LEMMA QuantileIs ==
  ASSUME SupervisionAssumption, HistogramInv, samples # <<>>,
         NEW percent \in {50, 95, 99}, NEW b, b = StatisticsBucketOf(percent)
  PROVE  QuantileBy(percent, b)
<1> DEFINE n == Len(samples)
           rank == RankFor(percent)
           reaching == {c \in DOMAIN BucketBounds : ReachesRank(c, percent)}
<1>1. n \in Nat /\ n > 0 /\ NBuckets \in Nat /\ DOMAIN BucketBounds = 1..NBuckets
  <2>1. samples \in Seq(Nat)
    BY DEF HistogramInv
  <2>2. n \in Nat /\ n > 0
    BY <2>1
  <2> QED
    BY <2>2, BucketsInOrder
<1>2. /\ rank \in 1..n /\ percent * n \in Nat
      /\ \A u \in Nat : 100 * u >= percent * n <=> u >= rank
  <2>1. rank = RankIn(percent, n)
    BY DEF RankFor
  <2> HIDE DEF rank, n
  <2>2. IsRank(percent, n, RankIn(percent, n))
    BY <1>1, RankOfPercentage, Zenon
  <2> QED
    BY <2>1, <2>2 DEF IsRank
<1> HIDE DEF rank
<1>3. /\ b \in 1..NBuckets /\ UpTo(b) >= rank
      /\ \A c \in 0..NBuckets : c < b => UpTo(c) < rank
  BY <1>2, StatisticsBucket DEF StatisticsBucketOf, rank
<1>4. \A c \in 0..NBuckets : UpTo(c) \in Nat /\ UpTo(c) = Cardinality(Through(c))
  BY CountsAddUp
<1>5. b \in Nat /\ b \in 0..NBuckets /\ b - 1 \in 0..NBuckets /\ b - 1 < b /\ rank \in Nat
  BY <1>1, <1>2, <1>3
<1>6. b \in reaching /\ \A c \in reaching : b <= c
  <2>1. b \in reaching
    <3>1. 100 * UpTo(b) >= percent * n
      BY <1>2, <1>3, <1>4, <1>5
    <3> QED
      BY <1>1, <1>3, <3>1 DEF ReachesRank
  <2>2. ASSUME NEW c \in reaching PROVE b <= c
    <3>1. c \in 1..NBuckets /\ 100 * UpTo(c) >= percent * n
      BY <1>1 DEF ReachesRank
    <3>2. c \in 0..NBuckets /\ c \in Nat
      BY <1>1, <3>1
    <3>3. UpTo(c) >= rank /\ UpTo(c) \in Nat
      BY <1>2, <1>4, <3>1, <3>2
    <3>4. ~(c < b)
      BY <1>3, <1>5, <3>2, <3>3
    <3> QED
      BY <1>5, <3>2, <3>4
  <2> QED
    BY <2>1, <2>2
<1>7. (CHOOSE d \in reaching : \A c \in reaching : d <= c) = b
  <2> DEFINE first == CHOOSE d \in reaching : \A c \in reaching : d <= c
  <2>1. first \in reaching /\ \A c \in reaching : first <= c
    BY <1>6
  <2>2. first \in Nat
    BY <1>1, <2>1
  <2>3. first <= b /\ b <= first
    BY <1>6, <2>1
  <2> HIDE DEF first
  <2>4. first = b
    BY <1>5, <2>2, <2>3
  <2> QED
    BY <2>4 DEF first
<1>8. UpTo(b) = UpTo(b - 1) + buckets[b] /\ buckets[b] \in Nat
  <2>1. IsFiniteSet(DOMAIN samples)
    <3>1. DOMAIN samples = 1..n
      BY DEF HistogramInv
    <3> QED
      BY <1>1, <3>1, FS_Interval
  <2>2. IsFiniteSet(Through(b - 1)) /\ IsFiniteSet(Landed(b))
    <3>1. Through(b - 1) \in SUBSET DOMAIN samples /\ Landed(b) \in SUBSET DOMAIN samples
      BY DEF Through, Landed
    <3> QED
      BY <2>1, <3>1, FS_Subset
  <2>3. \A i \in DOMAIN samples : BucketOf(samples[i]) \in Nat
    <3>1. \A i \in DOMAIN samples : samples[i] \in Nat
      BY DEF HistogramInv
    <3>2. \A k \in 1..NBuckets : k \in Nat
      OBVIOUS
    <3> QED
      BY <3>1, <3>2, BucketsInOrder
  <2>4. Through(b) = Through(b - 1) \cup Landed(b) /\ Through(b - 1) \cap Landed(b) = {}
    BY <1>5, <2>3 DEF Through, Landed
  <2>5. Cardinality(Through(b)) = Cardinality(Through(b - 1)) + Cardinality(Landed(b))
    <3>1. Cardinality(Through(b - 1) \cup Landed(b)) = Cardinality(Through(b - 1)) + Cardinality(Landed(b))
      BY <2>2, <2>4, DisjointCount
    <3> QED
      BY <2>4, <3>1
  <2>6. buckets[b] = Cardinality(Landed(b)) /\ Cardinality(Landed(b)) \in Nat
    BY <1>3, <2>2, FS_CardinalityType DEF HistogramInv
  <2> QED
    BY <1>4, <1>5, <2>5, <2>6
<1>9. ShareOf(percent, b) \in Nat /\ ShareOf(percent, b) <= 100 * buckets[b]
  <2> DEFINE before == UpTo(b - 1)
             through == UpTo(b)
             here == buckets[b]
             all == percent * n
  <2>1. before \in Nat /\ through \in Nat /\ here \in Nat /\ all \in Nat /\ through = before + here
    BY <1>2, <1>4, <1>5, <1>8
  <2>2. 100 * through >= all /\ ~(100 * before >= all)
    BY <1>2, <1>3, <1>4, <1>5
  <2> HIDE DEF before, through, here, all
  <2>3. all - 100 * before \in Nat /\ all - 100 * before <= 100 * here
    BY <2>1, <2>2
  <2> QED
    BY <2>3 DEF ShareOf, before, here, all
<1>10. UpTo(b) - buckets[b] = UpTo(b - 1)
  BY <1>4, <1>5, <1>8
<1>11. Quantile(percent) =
         [top |-> LowerOf(b) * 100 * buckets[b] + (BucketBounds[b] - LowerOf(b)) * ShareOf(percent, b),
          bottom |-> 100 * buckets[b]]
  <2>1. ~(reaching = {} \/ samples = <<>>)
    BY <1>6
  <2> DEFINE bucket == CHOOSE d \in reaching : \A c \in reaching : d <= c
             lower(d) == IF d = 1 THEN 0 ELSE BucketBounds[d - 1]
             inside(d) == percent * n - 100 * (UpTo(d) - buckets[d])
             at(d) == [top |-> lower(d) * 100 * buckets[d] + (BucketBounds[d] - lower(d)) * inside(d),
                       bottom |-> 100 * buckets[d]]
  <2>2. Quantile(percent) = at(bucket)
    BY <2>1, Zenon DEF Quantile
  <2>3. bucket = b
    BY <1>7
  <2>4. lower(b) = LowerOf(b) /\ inside(b) = ShareOf(percent, b)
    <3>1. inside(b) = percent * n - 100 * UpTo(b - 1)
      BY <1>10
    <3> QED
      BY <3>1 DEF LowerOf, ShareOf
  <2> HIDE DEF bucket, lower, inside
  <2>5. Quantile(percent) = at(b)
    BY <2>2, <2>3
  <2> QED
    BY <2>4, <2>5
<1> QED
  BY <1>3, <1>8, <1>9, <1>11, Zenon DEF QuantileBy

\* A quantile is in its bucket.
InBucket(q, b) == LowerOf(b) * q.bottom <= q.top /\ q.top <= BucketBounds[b] * q.bottom
AtMostFraction(q, r) == q.top * r.bottom <= r.top * q.bottom

\* Buckets do not overlap.
LEMMA LowerBound ==
  ASSUME SupervisionAssumption, NEW b \in 1..NBuckets
  PROVE  /\ LowerOf(b) \in Nat /\ BucketBounds[b] \in Nat /\ LowerOf(b) <= BucketBounds[b]
         /\ \A c \in 1..NBuckets : c < b => BucketBounds[c] <= LowerOf(b)
<1>1. /\ NBuckets \in Nat /\ DOMAIN BucketBounds = 1..NBuckets
      /\ \A c \in 1..NBuckets : BucketBounds[c] \in Nat
  BY BucketsInOrder
<1>2. \A c, d \in 1..NBuckets : c <= d => BucketBounds[c] <= BucketBounds[d]
  BY <1>1 DEF SupervisionAssumption
<1>3. CASE b = 1
  BY <1>1, <1>3 DEF LowerOf
<1>4. CASE b # 1
  <2>1. b - 1 \in 1..NBuckets /\ b - 1 <= b /\ \A c \in 1..NBuckets : c < b => c <= b - 1
    BY <1>1, <1>4
  <2>2. LowerOf(b) = BucketBounds[b - 1]
    BY <1>4 DEF LowerOf
  <2> QED
    BY <1>1, <1>2, <2>1, <2>2
<1> QED
  BY <1>3, <1>4

\* A quantile lies between the bounds of its bucket.
LEMMA QuantileInBucket ==
  ASSUME SupervisionAssumption, HistogramInv, samples # <<>>, NEW percent \in {50, 95, 99}
  PROVE  /\ StatisticsBucketOf(percent) \in 1..NBuckets
         /\ Quantile(percent).top \in Nat /\ Quantile(percent).bottom \in Nat
         /\ InBucket(Quantile(percent), StatisticsBucketOf(percent))
<1> DEFINE b == StatisticsBucketOf(percent)
           count == buckets[b]
           share == ShareOf(percent, b)
           lower == LowerOf(b)
           upper == BucketBounds[b]
           whole == 100 * count
<1>1. /\ b \in 1..NBuckets /\ count \in Nat /\ share \in Nat /\ share <= whole
      /\ Quantile(percent) = [top |-> lower * 100 * count + (upper - lower) * share, bottom |-> whole]
  <2>1. QuantileBy(percent, b)
    BY QuantileIs, Zenon
  <2> QED
    BY <2>1, Zenon DEF QuantileBy
<1>2. lower \in Nat /\ upper \in Nat /\ lower <= upper
  BY <1>1, LowerBound
<1> HIDE DEF b, count, share, lower, upper
<1>3. whole \in Nat /\ lower * 100 * count = lower * whole
  BY <1>1, <1>2
<1>4. Quantile(percent).top = lower * whole + (upper - lower) * share /\ Quantile(percent).bottom = whole
  BY <1>1, <1>3
<1> HIDE DEF whole
<1>5. /\ (upper - lower) * share \in Nat
      /\ lower * whole <= lower * whole + (upper - lower) * share
      /\ lower * whole + (upper - lower) * share <= upper * whole
  BY <1>1, <1>2, <1>3, Interpolated
<1>6. lower * whole \in Nat
  BY <1>2, <1>3
<1>7. lower * whole + (upper - lower) * share \in Nat
  BY <1>5, <1>6
<1>8. InBucket(Quantile(percent), b)
  BY <1>4, <1>5 DEF InBucket, lower, upper
<1> QED
  BY <1>1, <1>3, <1>4, <1>7, <1>8 DEF b

\* The greater percentage has the greater quantile, in one bucket or in two.
LEMMA QuantilesInOrder ==
  ASSUME SupervisionAssumption, HistogramInv, samples # <<>>,
         NEW p \in {50, 95, 99}, NEW q \in {50, 95, 99}, p <= q
  PROVE  AtMostFraction(Quantile(p), Quantile(q))
<1> DEFINE n == Len(samples)
           b == StatisticsBucketOf(p)
           c == StatisticsBucketOf(q)
<1>1. n \in Nat /\ n > 0 /\ NBuckets \in Nat
  <2>1. samples \in Seq(Nat)
    BY DEF HistogramInv
  <2>2. n \in Nat /\ n > 0
    BY <2>1
  <2> QED
    BY <2>2, BucketsInOrder
<1>2. /\ b \in 1..NBuckets /\ InBucket(Quantile(p), b)
      /\ Quantile(p).top \in Nat /\ Quantile(p).bottom \in Nat
  BY QuantileInBucket, SMTT(20)
<1>3. /\ c \in 1..NBuckets /\ InBucket(Quantile(q), c)
      /\ Quantile(q).top \in Nat /\ Quantile(q).bottom \in Nat
  BY QuantileInBucket, SMTT(20)
<1>4. p * n <= q * n /\ p * n \in Nat /\ q * n \in Nat
  <2>1. p \in Nat /\ q \in Nat
    OBVIOUS
  <2> HIDE DEF n
  <2>2. p * n <= q * n
    BY <1>1, <2>1, GreaterProduct
  <2> QED
    BY <1>1, <2>1, <2>2
<1>5. b <= c
  <2>1. /\ RankFor(p) \in 1..n /\ RankFor(q) \in 1..n
        /\ \A u \in Nat : 100 * u >= p * n <=> u >= RankFor(p)
        /\ \A u \in Nat : 100 * u >= q * n <=> u >= RankFor(q)
    <3> HIDE DEF n
    <3>1. IsRank(p, n, RankIn(p, n)) /\ IsRank(q, n, RankIn(q, n))
      BY <1>1, RankOfPercentage, Zenon
    <3>2. RankFor(p) = RankIn(p, n) /\ RankFor(q) = RankIn(q, n)
      BY DEF RankFor, n
    <3> QED
      BY <3>1, <3>2 DEF IsRank
  <2>2. RankFor(p) \in Nat /\ RankFor(q) \in Nat
    <3>1. \A k \in 1..n : k \in Nat
      BY <1>1
    <3> QED
      BY <2>1, <3>1, Zenon
  <2>3. UpTo(c) >= RankFor(q) /\ UpTo(c) \in Nat
    <3>1. c \in 0..NBuckets
      BY <1>1, <1>3
    <3> QED
      BY <2>1, <3>1, StatisticsBucket, CountsAddUp DEF StatisticsBucketOf
  <2>4. c < b => UpTo(c) < RankFor(p)
    <3>1. c \in 0..NBuckets
      BY <1>1, <1>3
    <3> QED
      BY <2>1, <3>1, StatisticsBucket DEF StatisticsBucketOf
  <2> HIDE DEF b, c, n
  <2>5. 100 * UpTo(c) >= q * n
    BY <2>1, <2>3
  <2>6. 100 * UpTo(c) >= p * n
    BY <1>4, <2>3, <2>5
  <2>7. UpTo(c) >= RankFor(p)
    BY <2>1, <2>3, <2>6
  <2>8. b \in Nat /\ c \in Nat
    BY <1>1, <1>2, <1>3
  <2> QED
    BY <2>2, <2>3, <2>4, <2>7, <2>8
<1>6. CASE b = c
  <2> DEFINE lower == LowerOf(b)
             width == BucketBounds[b] - LowerOf(b)
             before == 100 * UpTo(b - 1)
             whole == 100 * buckets[b]
             base == LowerOf(b) * 100 * buckets[b]
  <2>1. /\ buckets[b] \in Nat
        /\ Quantile(p) = [top |-> base + width * ShareOf(p, b), bottom |-> whole]
        /\ Quantile(q) = [top |-> base + width * ShareOf(q, b), bottom |-> whole]
        /\ ShareOf(p, b) \in Nat /\ ShareOf(q, b) \in Nat
    <3>1. QuantileBy(p, b) /\ QuantileBy(q, b)
      BY <1>6, QuantileIs, Zenon
    <3> QED
      BY <3>1, Zenon DEF QuantileBy
  <2>2. width \in Nat /\ whole \in Nat /\ base \in Nat
    <3>1. LowerOf(b) \in Nat /\ BucketBounds[b] \in Nat /\ LowerOf(b) <= BucketBounds[b]
      BY <1>2, LowerBound
    <3>2. width \in Nat
      BY <3>1
    <3>3. whole \in Nat
      BY <2>1
    <3>4. LowerOf(b) * 100 \in Nat
      BY <3>1
    <3>5. base \in Nat
      BY <2>1, <3>4
    <3> QED
      BY <3>2, <3>3, <3>5
  <2>3. ShareOf(p, b) <= ShareOf(q, b)
    <3>1. UpTo(b - 1) \in Nat
      <4>1. b - 1 \in 0..NBuckets
        BY <1>1, <1>2
      <4> QED
        BY <4>1, CountsAddUp
    <3> DEFINE pn == p * n
               qn == q * n
               u == 100 * UpTo(b - 1)
    <3>2. u \in Nat /\ pn \in Nat /\ qn \in Nat /\ pn <= qn
      BY <1>4, <3>1
    <3> HIDE DEF pn, qn, u
    <3>3. pn - u <= qn - u
      BY <3>2
    <3> QED
      BY <3>3 DEF ShareOf, pn, qn, u
  <2> HIDE DEF width, base, whole
  <2>4. width * ShareOf(p, b) <= width * ShareOf(q, b)
    <3> DEFINE sp == ShareOf(p, b)
               sq == ShareOf(q, b)
    <3>1. sp \in Int /\ sq \in Int /\ sp <= sq
      BY <2>1, <2>3
    <3> HIDE DEF sp, sq
    <3>2. width * sp <= width * sq
      BY <2>2, <3>1, GreaterProduct
    <3> QED
      BY <3>2 DEF sp, sq
  <2>5. /\ Quantile(p).top = base + width * ShareOf(p, b) /\ Quantile(p).bottom = whole
        /\ Quantile(q).top = base + width * ShareOf(q, b) /\ Quantile(q).bottom = whole
    BY <2>1
  <2>6. Quantile(p).top <= Quantile(q).top
    <3>1. width * ShareOf(p, b) \in Nat /\ width * ShareOf(q, b) \in Nat
      BY <2>1, <2>2, SMTT(20)
    <3> QED
      BY <2>2, <2>4, <2>5, <3>1
  <2>7. Quantile(p).top * whole <= Quantile(q).top * whole
    BY <1>2, <1>3, <2>2, <2>6, GreaterProduct
  <2> QED
    BY <2>5, <2>7 DEF AtMostFraction
<1>7. CASE b # c
  <2>1. b < c
    BY <1>1, <1>2, <1>3, <1>5, <1>7
  <2>2. BucketBounds[b] <= LowerOf(c) /\ BucketBounds[b] \in Nat /\ LowerOf(c) \in Nat
    BY <1>2, <1>3, <2>1, LowerBound
  <2>3. /\ Quantile(p).top <= BucketBounds[b] * Quantile(p).bottom
        /\ LowerOf(c) * Quantile(q).bottom <= Quantile(q).top
    BY <1>2, <1>3 DEF InBucket
  <2>4. Quantile(p).top * Quantile(q).bottom <= Quantile(q).top * Quantile(p).bottom
    <3> DEFINE top == Quantile(p).top
               bottom == Quantile(p).bottom
               top2 == Quantile(q).top
               bottom2 == Quantile(q).bottom
               upper == BucketBounds[b]
               lower == LowerOf(c)
    <3>1. /\ top \in Nat /\ bottom \in Nat /\ top2 \in Nat /\ bottom2 \in Nat
          /\ upper \in Nat /\ lower \in Nat
      BY <1>2, <1>3, <2>2
    <3>2. top <= upper * bottom /\ upper <= lower /\ lower * bottom2 <= top2
      BY <2>2, <2>3
    <3> HIDE DEF top, bottom, top2, bottom2, upper, lower
    <3>3. top * bottom2 <= top2 * bottom
      BY <3>1, <3>2, FractionsApart, SMTT(20)
    <3> QED
      BY <3>3 DEF top, bottom, top2, bottom2
  <2> QED
    BY <2>4 DEF AtMostFraction
<1> QED
  BY <1>6, <1>7

\* What the invariant says of the quantiles.
LEMMA HistogramTells == ASSUME SupervisionAssumption, HistogramInv PROVE QuantilesFollowSamples
<1> DEFINE n == Len(samples)
           Rank(percent) == ((percent * n) + 99) \div 100
           Statistic(rank) ==
             CHOOSE x \in {samples[i] : i \in DOMAIN samples} :
               /\ Cardinality({i \in DOMAIN samples : samples[i] < x}) < rank
               /\ Cardinality({i \in DOMAIN samples : samples[i] <= x}) >= rank
<1>1. n = 0 => samples = <<>>
  <2>1. samples \in Seq(Nat)
    BY DEF HistogramInv
  <2> QED
    BY <2>1
<1>2. CASE samples = <<>>
  <2>1. ~(n > 0)
    BY <1>2
  <2> QED
    BY <2>1 DEF QuantilesFollowSamples
<1>3. CASE samples # <<>>
  <2>1. \A percent : BucketOf(Statistic(Rank(percent))) = StatisticsBucketOf(percent)
    BY DEF StatisticsBucketOf, StatisticOf, RankFor, RankIn
  <2>2. \A percent \in {50, 95, 99} : InBucket(Quantile(percent), StatisticsBucketOf(percent))
    BY <1>3, QuantileInBucket
  <2>3. AtMostFraction(Quantile(50), Quantile(95))
    BY <1>3, QuantilesInOrder
  <2>4. AtMostFraction(Quantile(95), Quantile(99))
    BY <1>3, QuantilesInOrder
  <2>5. ASSUME NEW percent \in {50, 95, 99}
        PROVE  LET q == Quantile(percent)
                   b == BucketOf(Statistic(Rank(percent)))
               IN  /\ (IF b = 1 THEN 0 ELSE BucketBounds[b - 1]) * q.bottom <= q.top
                   /\ q.top <= BucketBounds[b] * q.bottom
    <3> HIDE DEF Statistic, Rank
    <3>1. InBucket(Quantile(percent), BucketOf(Statistic(Rank(percent))))
      BY <2>1, <2>2
    <3> QED
      BY <3>1 DEF InBucket, LowerOf
  <2> QED
    BY <2>3, <2>4, <2>5, Zenon DEF QuantilesFollowSamples, AtMostFraction
<1> QED
  BY <1>2, <1>3

(***************************************************************************)
(* The supervisor, its histogram and its CPU gauge take turns.             *)
(***************************************************************************)
ServiceInv == SupervisorInv /\ HistogramInv

LEMMA SupervisionKeeps ==
  ASSUME SupervisionAssumption, ServiceInv,
         [SupervisorNext \/ HistogramNext \/ ResourcesNext]_supervisionVars
  PROVE  ServiceInv'
<1>1. CASE SupervisorNext
  <2>1. HistogramInv'
    <3>1. UNCHANGED histogramVars
      BY <1>1 DEF SupervisorNext, StartService, BeginDrain, StopService, RecordFailure, WorkArrives,
         WorkFinishes, TimePasses
    <3> QED
      BY <3>1 DEF histogramVars, ServiceInv, HistogramInv, Landed
  <2>2. SupervisorInv'
    BY <1>1, StartKeeps, FailureKeeps, OtherStepsKeep DEF SupervisorNext, ServiceInv
  <2> QED
    BY <2>1, <2>2 DEF ServiceInv
<1>2. ASSUME UNCHANGED supervisorVars PROVE SupervisorInv'
  <2>1. SupervisorTyped'
    BY <1>2 DEF supervisorVars, ServiceInv, SupervisorInv, SupervisorTyped
  <2>2. KeptAreRecent'
    BY <1>2 DEF supervisorVars, ServiceInv, SupervisorInv, KeptAreRecent
  <2>3. RestartsBounded'
    BY <1>2 DEF supervisorVars, ServiceInv, SupervisorInv, RestartsBounded, CloseTo
  <2>4. DrainBounded'
    BY <1>2 DEF supervisorVars, ServiceInv, SupervisorInv, DrainBounded
  <2>5. UNCHANGED <<svcState, failuresKept, failedAt>> /\ SupervisorInv
    BY <1>2 DEF supervisorVars, ServiceInv
  <2> QED
    BY <2>1, <2>2, <2>3, <2>4, <2>5 DEF SupervisorInv
<1>3. CASE HistogramNext
  BY <1>2, <1>3, ObserveKeeps DEF HistogramNext, Observe, ServiceInv
<1>4. CASE ResourcesNext
  <2>1. CASE TimePasses
    BY <1>1, <2>1 DEF SupervisorNext
  <2>2. CASE \E reading \in CpuReadings : TakeSample(reading)
    <3>1. UNCHANGED supervisorVars /\ UNCHANGED histogramVars
      BY <2>2 DEF TakeSample
    <3>2. HistogramInv'
      BY <3>1 DEF histogramVars, ServiceInv, HistogramInv, Landed
    <3> QED
      BY <1>2, <3>1, <3>2 DEF ServiceInv
  <2> QED
    BY <1>4, <2>1, <2>2 DEF ResourcesNext
<1>5. CASE UNCHANGED supervisionVars
  <2>1. UNCHANGED supervisorVars /\ UNCHANGED histogramVars
    BY <1>5 DEF supervisionVars
  <2>2. HistogramInv'
    BY <2>1 DEF histogramVars, ServiceInv, HistogramInv, Landed
  <2> QED
    BY <1>2, <2>1, <2>2 DEF ServiceInv
<1> QED
  BY <1>1, <1>3, <1>4, <1>5

\* A restart by itself follows a failure only when it is at most the MaxRestarts-th of
\* its window, a drain lasts no longer than its timeout and leaves work behind only
\* then, and each percentile lies in the bucket of the latency of its rank, in order
\* (record_failure, prune_restarts, should_restart, drain_complete, quantile_micros).
THEOREM ServiceStaysSupervised == SupervisionSpec => []ServiceIsSupervised
<1>1. SupervisionInit => ServiceInv
  BY SupervisionAssumption, InitSupervisor, InitHistogram DEF ServiceInv
<1>2. ServiceInv /\ [SupervisorNext \/ HistogramNext \/ ResourcesNext]_supervisionVars => ServiceInv'
  BY SupervisionAssumption, SupervisionKeeps
<1>3. ServiceInv => ServiceIsSupervised
  BY SupervisionAssumption, HoldsBack, HistogramTells DEF ServiceInv, ServiceIsSupervised
<1> QED
  BY <1>1, <1>2, <1>3, PTL DEF SupervisionSpec

-----------------------------------------------------------------------------
(***************************************************************************)
(* FeaturePipeline.  Ranks are the places of a sorted list of the values:  *)
(* the list exists, and the places of one value lie between those of the   *)
(* smaller ones and those of the greater ones.                             *)
(***************************************************************************)
Listing(s, D, value) ==
  /\ \A j \in D : \E k \in DOMAIN s : s[k] = j
  /\ \A k, l \in DOMAIN s : k < l => Before(s[k], s[l], value)

(***************************************************************************)
(* A finite set of instruments has one that comes after all others.        *)
(***************************************************************************)
LEMMA LastInOrder ==
  ASSUME NEW D \in SUBSET Int, IsFiniteSet(D), NEW value, \A j \in D : value[j] \in Int, D # {}
  PROVE  \E x \in D : \A y \in D \ {x} : Before(y, x, value)
<1> DEFINE P == {s \in SUBSET D : s # {} => \E x \in s : \A y \in s \ {x} : Before(y, x, value)}
<1>1. {} \in P
  OBVIOUS
<1>2. ASSUME NEW s \in SUBSET D, NEW x \in D \ s, s \in P PROVE s \cup {x} \in P
  <2>1. CASE s = {}
    BY <2>1
  <2>2. CASE s # {}
    <3>1. PICK z \in s : \A y \in s \ {z} : Before(y, z, value)
      BY <1>2, <2>2
    <3>2. CASE Before(x, z, value)
      BY <3>1, <3>2
    <3>3. CASE ~Before(x, z, value)
      <4>1. x \in Int /\ z \in Int /\ value[x] \in Int /\ value[z] \in Int /\ x # z
        BY <1>2, <3>1
      <4>2. Before(z, x, value)
        BY <3>3, <4>1 DEF Before
      <4>3. \A y \in s \ {z} : Before(y, x, value)
        <5> TAKE y \in s \ {z}
        <5>1. y \in Int /\ value[y] \in Int /\ Before(y, z, value)
          BY <3>1
        <5> QED
          BY <5>1, <4>1, <4>2 DEF Before
      <4> QED
        BY <4>2, <4>3
    <3> QED
      BY <3>2, <3>3
  <2> QED
    BY <2>1, <2>2
<1> HIDE DEF P
<1>3. D \in P
  BY <1>1, <1>2, FiniteInduction
<1> QED
  BY <1>3 DEF P

(***************************************************************************)
(* A finite set of instruments can be listed in order of their values.     *)
(***************************************************************************)
LEMMA ListingExists ==
  ASSUME NEW U \in SUBSET Int, IsFiniteSet(U), NEW value, \A j \in U : value[j] \in Int
  PROVE  \E s \in [1..Cardinality(U) -> U] : Listing(s, U, value)
<1> DEFINE Listed == {n \in Nat : \A D \in SUBSET U : Cardinality(D) = n =>
                                    \E s \in [1..n -> D] : Listing(s, D, value)}
<1>1. \A D \in SUBSET U : IsFiniteSet(D) /\ Cardinality(D) \in Nat
  BY FS_Subset, FS_CardinalityType
<1>2. 0 \in Listed
  <2> SUFFICES ASSUME NEW D \in SUBSET U, Cardinality(D) = 0
               PROVE  \E s \in [1..0 -> D] : Listing(s, D, value)
    OBVIOUS
  <2>1. D = {}
    BY <1>1, FS_EmptySet
  <2>2. [k \in 1..0 |-> k] \in [1..0 -> D] /\ Listing([k \in 1..0 |-> k], D, value)
    BY <2>1 DEF Listing
  <2> QED
    BY <2>2
<1>3. ASSUME NEW n \in Nat, n \in Listed PROVE n + 1 \in Listed
  <2> SUFFICES ASSUME NEW D \in SUBSET U, Cardinality(D) = n + 1
               PROVE  \E s \in [1..(n + 1) -> D] : Listing(s, D, value)
    OBVIOUS
  <2>1. D # {}
    BY FS_EmptySet
  <2>2. PICK x \in D : \A y \in D \ {x} : Before(y, x, value)
    BY <1>1, <2>1, LastInOrder
  <2>3. Cardinality(D \ {x}) = n
    BY <1>1, FS_RemoveElement
  <2>4. PICK s \in [1..n -> D \ {x}] : Listing(s, D \ {x}, value)
    BY <1>3, <2>3
  <2> DEFINE longer == [k \in 1..(n + 1) |-> IF k = n + 1 THEN x ELSE s[k]]
  <2>5. longer \in [1..(n + 1) -> D] /\ longer[n + 1] = x /\ \A k \in 1..n : longer[k] = s[k]
    OBVIOUS
  <2>6. \A j \in D : \E k \in 1..(n + 1) : longer[k] = j
    <3> TAKE j \in D
    <3>1. CASE j = x
      BY <3>1, <2>5
    <3>2. CASE j # x
      <4>1. PICK k \in 1..n : s[k] = j
        BY <2>4, <3>2 DEF Listing
      <4> QED
        BY <4>1, <2>5
    <3> QED
      BY <3>1, <3>2
  <2>7. \A k, l \in 1..(n + 1) : k < l => Before(longer[k], longer[l], value)
    <3> SUFFICES ASSUME NEW k \in 1..(n + 1), NEW l \in 1..(n + 1), k < l
                 PROVE  Before(longer[k], longer[l], value)
      OBVIOUS
    <3>1. k \in 1..n /\ s[k] \in D \ {x} /\ longer[k] = s[k]
      BY <2>5
    <3>2. CASE l = n + 1
      BY <3>1, <3>2, <2>2, <2>5
    <3>3. CASE l # n + 1
      <4>1. l \in 1..n /\ longer[l] = s[l]
        BY <3>3, <2>5
      <4> QED
        BY <3>1, <4>1, <2>4 DEF Listing
    <3> QED
      BY <3>2, <3>3
  <2> HIDE DEF longer
  <2>8. Listing(longer, D, value)
    BY <2>5, <2>6, <2>7 DEF Listing
  <2> QED
    BY <2>5, <2>8
<1> HIDE DEF Listed
<1>4. \A n \in Nat : n \in Listed
  BY <1>2, <1>3, NaturalInduction
<1>5. Cardinality(U) \in Listed /\ U \in SUBSET U
  BY <1>1, <1>4
<1> QED
  BY <1>5 DEF Listed

(***************************************************************************)
(* A set of places that leaves no earlier place out is all places up to    *)
(* its size.                                                               *)
(***************************************************************************)
LEMMA PlacesFromFirst ==
  ASSUME NEW n \in Nat, NEW S \in SUBSET (1..n), \A k \in 1..n, l \in S : k < l => k \in S
  PROVE  S = 1..Cardinality(S) /\ Cardinality(S) \in Nat
<1>1. CASE S = {}
  BY <1>1, FS_EmptySet
<1>2. CASE S # {}
  <2>1. Max(S) \in S /\ \A y \in S : y <= Max(S)
    BY <1>2, LargestIn
  <2> DEFINE m == Max(S)
  <2>2. m \in 1..n
    BY <2>1
  <2> HIDE DEF m
  <2>3. m \in S /\ \A y \in S : y <= m
    BY <2>1 DEF m
  <2>4. S = 1..m
    <3>1. \A k \in S : k \in 1..m
      BY <2>2, <2>3
    <3>2. \A k \in 1..m : k \in S
      <4> TAKE k \in 1..m
      <4>1. k \in 1..n /\ (k = m \/ k < m)
        BY <2>2
      <4> QED
        BY <2>3, <4>1
    <3> QED
      BY <3>1, <3>2
  <2>5. Cardinality(1..m) = m
    BY <2>2, FS_Interval
  <2> QED
    BY <2>2, <2>4, <2>5
<1> QED
  BY <1>1, <1>2

SameCount(n, D, s, value, V) ==
  Cardinality({k \in 1..n : value[s[k]] \in V}) = Cardinality({j \in D : value[j] \in V})

(***************************************************************************)
(* As many places as instruments: those that satisfy a condition on the    *)
(* value are as many on the list as in the set.                            *)
(***************************************************************************)
LEMMA AsManyPlaces ==
  ASSUME NEW n \in Nat, NEW D, NEW s \in [1..n -> D], NEW value, Listing(s, D, value),
         D \in SUBSET Int, \A j \in D : value[j] \in Int, NEW V
  PROVE  SameCount(n, D, s, value, V)
<1> DEFINE K == {k \in 1..n : value[s[k]] \in V}
           J == {j \in D : value[j] \in V}
           f == [k \in K |-> s[k]]
<1>1. IsFiniteSet(K)
  BY FS_Interval, FS_Subset
<1>2. \A k, l \in 1..n : k # l => s[k] # s[l]
  <2> SUFFICES ASSUME NEW k \in 1..n, NEW l \in 1..n, k < l PROVE s[k] # s[l]
    OBVIOUS
  <2>1. Before(s[k], s[l], value)
    BY DEF Listing
  <2>2. s[k] \in Int /\ s[l] \in Int /\ value[s[k]] \in Int /\ value[s[l]] \in Int
    OBVIOUS
  <2> QED
    BY <2>1, <2>2 DEF Before
<1>3. f \in [K -> J]
  OBVIOUS
<1>4. \A j \in J : \E k \in K : f[k] = j
  <2> TAKE j \in J
  <2>1. PICK k \in 1..n : s[k] = j
    BY DEF Listing
  <2> QED
    BY <2>1
<1>5. f \in Injection(K, J)
  BY <1>2, <1>3 DEF Injection, IsInjective
<1>6. f \in Surjection(K, J)
  BY <1>3, <1>4 DEF Surjection
<1>7. ExistsBijection(K, J)
  BY <1>5, <1>6 DEF ExistsBijection, Bijection
<1> HIDE DEF K, J, f
<1>8. Cardinality(J) = Cardinality(K)
  BY <1>1, <1>7, FS_Bijection
<1> QED
  BY <1>8 DEF K, J, SameCount

(***************************************************************************)
(* The places of a value in the sorted list: from behind those below it to *)
(* the last of those not above it.                                         *)
(***************************************************************************)
PlacesAre(D, value, i) ==
  LET b == Cardinality({j \in D : value[j] < value[i]})
      c == Cardinality({j \in D : value[j] <= value[i]})
      e == Cardinality({j \in D : value[j] = value[i]})
  IN  /\ Sorted(value) \in [1..Cardinality(D) -> D]
      /\ b \in Nat /\ c \in Nat /\ e \in Nat /\ b < c /\ c <= Cardinality(D) /\ c = b + e
      /\ \A k \in 1..Cardinality(D) : value[Sorted(value)[k]] = value[i] <=> b < k /\ k <= c

LEMMA PlacesOnList ==
  ASSUME NEW D \in SUBSET Int, IsFiniteSet(D), NEW value \in [D -> Int], NEW i \in D
  PROVE  PlacesAre(D, value, i)
<1> DEFINE b == Cardinality({j \in D : value[j] < value[i]})
           c == Cardinality({j \in D : value[j] <= value[i]})
           n == Cardinality(D)
           s == Sorted(value)
           under == {k \in 1..n : value[s[k]] < value[i]}
           upto == {k \in 1..n : value[s[k]] <= value[i]}
           below == {j \in D : value[j] < value[i]}
           beside == {j \in D : value[j] = value[i]}
           most == {j \in D : value[j] <= value[i]}
<1>1. n \in Nat /\ DOMAIN value = D /\ \A j \in D : value[j] \in Int
  BY FS_CardinalityType
<1>2. b = Cardinality(below) /\ c = Cardinality(most)
  BY DEF b, c
<1> HIDE DEF b, c
<1>3. \E t \in [1..n -> D] : Listing(t, D, value)
  BY <1>1, ListingExists
<1>4. \A t \in [1..n -> D] : Ascending(t, value) <=> Listing(t, D, value)
  BY <1>1 DEF Ascending, Listing
<1>5. s \in [1..n -> D] /\ Ascending(s, value)
  BY <1>1, <1>3, <1>4 DEF Sorted
<1>6. Listing(s, D, value)
  BY <1>4, <1>5
<1> HIDE DEF s
<1> HIDE DEF n
<1>7. \A k, l \in 1..n : k < l => value[s[k]] <= value[s[l]]
  <2> SUFFICES ASSUME NEW k \in 1..n, NEW l \in 1..n, k < l PROVE value[s[k]] <= value[s[l]]
    OBVIOUS
  <2>1. Before(s[k], s[l], value)
    BY <1>5, <1>6 DEF Listing
  <2>2. value[s[k]] \in Int /\ value[s[l]] \in Int
    BY <1>1, <1>5
  <2> QED
    BY <2>1, <2>2 DEF Before
<1>8. \A k \in 1..n : value[s[k]] \in Int /\ value[i] \in Int
  BY <1>1, <1>5
<1>9. under = 1..Cardinality(under) /\ Cardinality(under) \in Nat
  <2>1. \A k \in 1..n, l \in under : k < l => k \in under
    BY <1>7, <1>8
  <2>2. under \in SUBSET (1..n)
    OBVIOUS
  <2> HIDE DEF under
  <2> QED
    BY <1>1, <2>1, <2>2, PlacesFromFirst
<1>10. upto = 1..Cardinality(upto) /\ Cardinality(upto) \in Nat
  <2>1. \A k \in 1..n, l \in upto : k < l => k \in upto
    BY <1>7, <1>8
  <2>2. upto \in SUBSET (1..n)
    OBVIOUS
  <2> HIDE DEF upto
  <2> QED
    BY <1>1, <2>1, <2>2, PlacesFromFirst
<1>12. PICK p \in 1..n : s[p] = i
  BY <1>5, <1>6 DEF Listing
<1>13. p \in upto /\ p \notin under
  BY <1>8, <1>12
<1>14. b = Cardinality(under)
  <2> DEFINE V == {v \in Int : v < value[i]}
  <2>1. under = {k \in 1..n : value[s[k]] \in V} /\ below = {j \in D : value[j] \in V}
    BY <1>1, <1>8
  <2> HIDE DEF V, under, below
  <2>2. SameCount(n, D, s, value, V)
    BY <1>1, <1>5, <1>6, AsManyPlaces, Zenon
  <2> QED
    BY <1>2, <2>1, <2>2 DEF SameCount
<1>15. c = Cardinality(upto)
  <2> DEFINE V == {v \in Int : v <= value[i]}
  <2>1. upto = {k \in 1..n : value[s[k]] \in V} /\ most = {j \in D : value[j] \in V}
    BY <1>1, <1>8
  <2> HIDE DEF V, upto, most
  <2>2. SameCount(n, D, s, value, V)
    BY <1>1, <1>5, <1>6, AsManyPlaces, Zenon
  <2> QED
    BY <1>2, <2>1, <2>2 DEF SameCount
<1>16. c = b + Cardinality(beside) /\ Cardinality(beside) \in Nat
  <2>1. most = below \cup beside /\ below \cap beside = {}
    <3>1. \A j \in D : value[j] \in Int /\ value[i] \in Int
      BY <1>1
    <3>2. \A j \in D : /\ value[j] <= value[i] <=> (value[j] < value[i] \/ value[j] = value[i])
                       /\ ~(value[j] < value[i] /\ value[j] = value[i])
      BY <3>1
    <3> QED
      BY <3>2, Zenon
  <2>2. IsFiniteSet(below) /\ IsFiniteSet(beside)
    BY FS_Subset
  <2> HIDE DEF below, beside, most
  <2>3. Cardinality(below \cup beside)
          = Cardinality(below) + Cardinality(beside) - Cardinality(below \cap beside)
    BY <2>2, FS_Union
  <2>4. Cardinality(below \cap beside) = 0 /\ Cardinality(below) \in Nat /\ Cardinality(beside) \in Nat
    BY <2>1, <2>2, FS_EmptySet, FS_CardinalityType
  <2> QED
    BY <1>2, <2>1, <2>3, <2>4
<1>17. Cardinality(most) <= n
  <2>1. most \in SUBSET D
    OBVIOUS
  <2> HIDE DEF most
  <2>2. Cardinality(most) <= Cardinality(D)
    BY <2>1, FS_Subset, Zenon
  <2> QED
    BY <2>2 DEF n
<1>18. under = 1..b /\ upto = 1..c /\ b \in Nat /\ c \in Nat
  BY <1>9, <1>10, <1>14, <1>15
<1>19. \A k \in 1..n : value[s[k]] = value[i] <=> k \in upto /\ k \notin under
  BY <1>8
<1> HIDE DEF under, upto, below, beside, most, s
<1>20. b < c
  BY <1>13, <1>18
<1>21. \A k \in 1..n : value[s[k]] = value[i] <=> b < k /\ k <= c
  <2> SUFFICES ASSUME NEW k \in 1..n PROVE value[s[k]] = value[i] <=> b < k /\ k <= c
    OBVIOUS
  <2>1. k \in Int /\ 1 <= k
    BY <1>1
  <2>2. (k \in upto <=> k <= c) /\ (k \in under <=> k <= b)
    BY <1>18, <2>1
  <2>3. k <= b <=> ~(b < k)
    BY <1>18, <2>1
  <2> QED
    BY <1>19, <2>2, <2>3, Zenon
<1>22. c <= n /\ s \in [1..n -> D]
  BY <1>2, <1>5, <1>17
<1> QED
  BY <1>16, <1>18, <1>20, <1>21, <1>22, Zenon DEF s, b, c, n, beside, PlacesAre

(***************************************************************************)
(* The rank of an instrument: twice those below it and those beside it     *)
(* but itself.                                                             *)
(***************************************************************************)
LEMMA RankCounts ==
  ASSUME NEW D \in SUBSET Int, IsFiniteSet(D), NEW value \in [D -> Int], NEW i \in D,
         Cardinality(D) # 1
  PROVE  PercentileRank(i, value) = 2 * Cardinality({j \in D : value[j] < value[i]})
                                      + Cardinality({j \in D : value[j] = value[i]}) - 1
<1> DEFINE n == Cardinality(D)
           places == {k \in 1..n : value[Sorted(value)[k]] = value[i]}
           b == Cardinality({j \in D : value[j] < value[i]})
           c == Cardinality({j \in D : value[j] <= value[i]})
           e == Cardinality({j \in D : value[j] = value[i]})
<1>1. n \in Nat /\ DOMAIN value = D
  BY FS_CardinalityType
<1>2. PercentileRank(i, value) = (Min(places) - 1) + (Max(places) - 1)
  BY <1>1 DEF PercentileRank
<1>3. /\ b \in Nat /\ c \in Nat /\ e \in Nat /\ b < c /\ c <= n /\ c = b + e
      /\ \A k \in 1..n : value[Sorted(value)[k]] = value[i] <=> b < k /\ k <= c
  <2>1. PlacesAre(D, value, i)
    BY PlacesOnList
  <2> QED
    BY <2>1, Zenon DEF PlacesAre
<1> HIDE DEF n, b, c, e
<1>4. places = (b + 1)..c
  BY <1>1, <1>3
<1> HIDE DEF places
<1>5. Min(places) = b + 1
  <2>1. b + 1 \in places /\ \A x \in places : b + 1 <= x /\ x \in Int
    BY <1>3, <1>4
  <2> QED
    BY <1>3, <2>1 DEF Min
<1>6. Max(places) = c
  <2>1. c \in places /\ \A x \in places : c >= x
    BY <1>3, <1>4
  <2>2. Max(places) \in places /\ \A x \in places : Max(places) >= x
    BY <2>1, Zenon DEF Max
  <2> QED
    BY <1>3, <1>4, <2>1, <2>2
<1>7. e = c - b
  BY <1>3
<1>8. PercentileRank(i, value) = 2 * b + e - 1
  BY <1>2, <1>3, <1>5, <1>6, <1>7
<1> QED
  BY <1>8 DEF b, e

(***************************************************************************)
(* The rank nearest to a quantile is a place of the list.                  *)
(***************************************************************************)
LEMMA NearestIsPlace ==
  ASSUME NEW n \in Nat \ {0}, NEW q \in 0..100
  PROVE  NearestRank(q, n) \in 0..(n - 1) /\ IsNearest(NearestRank(q, n), q, n)
<1> DEFINE m == n - 1
           x == q * m
           k == (2 * x + 100) \div 200
<1>1. m \in Nat
  OBVIOUS
<1>2. x \in Nat /\ x <= 100 * m
  <2>1. \A a, d \in Nat : a <= 100 => a * d \in Nat /\ a * d <= 100 * d
    BY SMTT(20)
  <2> QED
    BY <1>1, <2>1
<1>3. 2 * q * (n - 1) = 2 * x
  <2>1. \A a, d \in Int : 2 * a * d = 2 * (a * d)
    BY SMTT(20)
  <2> QED
    BY <1>1, <2>1
<1> HIDE DEF m, x
<1>4. k \in Int /\ 200 * k <= 2 * x + 100 /\ 2 * x + 100 < 200 * (k + 1)
  BY <1>2
<1>5. NearestRank(q, n) = k
  BY <1>3 DEF NearestRank
<1> HIDE DEF k
<1>6. 0 <= k /\ k <= m
  BY <1>1, <1>2, <1>4
<1> QED
  BY <1>3, <1>4, <1>5, <1>6 DEF IsNearest, m

(***************************************************************************)
(* The quantile by counting is the one on the list.                        *)
(***************************************************************************)
QuantileFrom(of, D, value, q) ==
  QuantileReturn(of, q) = value[Sorted(value)[NearestRank(q, Cardinality(D)) + 1]]

LEMMA QuantileOnList ==
  ASSUME NEW of, NEW D, D = DOMAIN of, D \in SUBSET Int, IsFiniteSet(D),
         NEW value \in [D -> Int], \A j \in D : value[j] = of[j].logReturn,
         NEW q \in 0..100, D # {}
  PROVE  QuantileFrom(of, D, value, q)
<1> DEFINE n == Cardinality(D)
           k == NearestRank(q, n)
           x == Sorted(value)[k + 1]
           Has(j, l) == IsNearest(l, q, n) /\ ReturnsBelow(of, j) <= l /\ l < ReturnsUpTo(of, j)
           y == CHOOSE j \in D : \E l \in 0..(n - 1) : Has(j, l)
<1>1. n \in Nat \ {0}
  BY FS_CardinalityType, FS_EmptySet
<1>2. k \in 0..(n - 1) /\ IsNearest(k, q, n)
  BY <1>1, NearestIsPlace
<1>3. ASSUME NEW j \in D
      PROVE  /\ Sorted(value) \in [1..n -> D]
             /\ ReturnsBelow(of, j) \in Nat /\ ReturnsUpTo(of, j) \in Nat
             /\ \A l \in 1..n : value[Sorted(value)[l]] = value[j]
                               <=> ReturnsBelow(of, j) < l /\ l <= ReturnsUpTo(of, j)
  <2>1. /\ {i \in D : value[i] < value[j]} = {i \in DOMAIN of : of[i].logReturn < of[j].logReturn}
        /\ {i \in D : value[i] <= value[j]} = {i \in DOMAIN of : of[i].logReturn <= of[j].logReturn}
    OBVIOUS
  <2>2. /\ ReturnsBelow(of, j) = Cardinality({i \in D : value[i] < value[j]})
        /\ ReturnsUpTo(of, j) = Cardinality({i \in D : value[i] <= value[j]})
    BY <2>1 DEF ReturnsBelow, ReturnsUpTo
  <2>3. PlacesAre(D, value, j)
    BY PlacesOnList
  <2> QED
    BY <2>2, <2>3, Zenon DEF PlacesAre
<1>4. x \in D
  <2>1. PICK j \in D : TRUE
    OBVIOUS
  <2>2. Sorted(value) \in [1..n -> D]
    BY <1>3, <2>1
  <2>3. k + 1 \in 1..n
    BY <1>1, <1>2
  <2> QED
    BY <2>2, <2>3
<1> HIDE DEF n, k
<1>5. Has(x, k)
  <2>1. k + 1 \in 1..n /\ k \in Nat
    BY <1>1, <1>2
  <2>2. ReturnsBelow(of, x) < k + 1 /\ k + 1 <= ReturnsUpTo(of, x)
    BY <1>3, <1>4, <2>1
  <2> QED
    BY <1>2, <1>3, <1>4, <2>1, <2>2
<1> HIDE DEF x
<1>6. y \in D /\ \E l \in 0..(n - 1) : Has(y, l)
  BY <1>2, <1>4, <1>5, Zenon
<1> HIDE DEF y
<1>7. PICK l \in 0..(n - 1) : Has(y, l)
  BY <1>6
<1>8. l = k
  <2>1. l \in Int /\ k \in Int /\ IsNearest(l, q, n) /\ IsNearest(k, q, n)
    BY <1>1, <1>2, <1>7
  <2>2. 2 * q * (n - 1) + 100 \in Int
    BY <1>1
  <2> QED
    BY <2>1, <2>2 DEF IsNearest
<1>9. value[x] = value[y]
  <2>1. k + 1 \in 1..n /\ k \in Nat
    BY <1>1, <1>2
  <2>2. ReturnsBelow(of, y) < k + 1 /\ k + 1 <= ReturnsUpTo(of, y)
    BY <1>3, <1>6, <1>7, <1>8, <2>1
  <2> QED
    BY <1>3, <1>6, <2>1, <2>2 DEF x
<1>10. QuantileReturn(of, q) = of[y].logReturn
  BY DEF QuantileReturn, n, y
<1> QED
  BY <1>6, <1>9, <1>10 DEF x, k, n, QuantileFrom

(***************************************************************************)
(* winsorize() cuts as the reference does.                                 *)
(***************************************************************************)
CrossConfig == [winsorize: BOOLEAN, lower: Nat, upper: Nat, neutral: BOOLEAN, complete: BOOLEAN]

LEMMA WinsorizeCuts ==
  ASSUME NEW config \in CrossConfig, NEW of, NEW D, D = DOMAIN of, D \in SUBSET Int, IsFiniteSet(D),
         NEW value \in [D -> Int], \A j \in D : value[j] = of[j].logReturn, D # {}
  PROVE  /\ Winsorized(config, value) \in [D -> Int]
         /\ \A i \in D : Winsorized(config, value)[i] = CutReturn(config, of, i)
<1> DEFINE n == Cardinality(D)
           low == value[Sorted(value)[NearestRank(config.lower, n) + 1]]
           high == value[Sorted(value)[NearestRank(config.upper, n) + 1]]
<1>1. DOMAIN value = D /\ n \in Nat
  BY FS_CardinalityType
<1>2. CASE ~Winsorizes(config, n)
  BY <1>1, <1>2 DEF Winsorized, CutReturn
<1>3. CASE Winsorizes(config, n)
  <2>1. config.lower \in 0..100 /\ config.upper \in 0..100
    BY <1>3 DEF Winsorizes, CrossConfig
  <2>2. low = QuantileReturn(of, config.lower) /\ high = QuantileReturn(of, config.upper)
    <3> HIDE DEF n
    <3>1. n = Cardinality(D)
      BY DEF n
    <3>2. QuantileFrom(of, D, value, config.lower) /\ QuantileFrom(of, D, value, config.upper)
      BY <2>1, QuantileOnList
    <3> QED
      BY <3>1, <3>2, Zenon DEF QuantileFrom
  <2>3. low \in Int /\ high \in Int
    <3>1. PICK j \in D : TRUE
      OBVIOUS
    <3>2. n \in Nat \ {0}
      BY <1>1, FS_EmptySet
    <3>3. NearestRank(config.lower, n) \in 0..(n - 1) /\ NearestRank(config.upper, n) \in 0..(n - 1)
      BY <2>1, <3>2, NearestIsPlace
    <3>4. PlacesAre(D, value, j)
      BY <3>1, PlacesOnList
    <3>5. Sorted(value) \in [1..n -> D]
      BY <3>4, Zenon DEF PlacesAre
    <3> QED
      BY <3>2, <3>3, <3>5
  <2>4. Winsorized(config, value)
          = [i \in D |-> IF value[i] < low THEN low ELSE IF value[i] > high THEN high ELSE value[i]]
    BY <1>1, <1>3 DEF Winsorized
  <2> HIDE DEF low, high
  <2>5. \A i \in D : CutReturn(config, of, i)
                   = IF value[i] < low THEN low ELSE IF value[i] > high THEN high ELSE value[i]
    BY <1>3, <2>2 DEF CutReturn
  <2> QED
    BY <2>3, <2>4, <2>5
<1> QED
  BY <1>2, <1>3

(***************************************************************************)
(* What a group's members differ from its mean by sums to zero.            *)
(***************************************************************************)
LEMMA DemeanedToZero ==
  ASSUME NEW G, IsFiniteSet(G), NEW value, \A x \in G : value[x] \in Int,
         NEW h, \A x \in G : h[x] = Demeaned(x, value, G)
  PROVE  SumFunctionOnSet(h, G) = 0
<1> DEFINE F(s) == SumFunctionOnSet(value, s)
           H(s) == SumFunctionOnSet(h, s)
           c == Cardinality(G)
           t == SumFunctionOnSet(value, G)
           P == {s \in SUBSET G : H(s) = F(s) * c - Cardinality(s) * t}
<1>1. c \in Nat /\ t \in Int
  BY FS_CardinalityType, SumType
<1>2. \A x \in G : h[x] = value[x] * c - t /\ h[x] \in Int /\ value[x] \in Int
  <2> TAKE x \in G
  <2>1. h[x] = value[x] * c - t
    BY DEF Demeaned
  <2> HIDE DEF c, t
  <2> QED
    BY <1>1, <2>1
<1>3. \A s \in SUBSET G : IsFiniteSet(s) /\ Cardinality(s) \in Nat /\ F(s) \in Int /\ H(s) \in Int
  BY <1>2, FS_Subset, FS_CardinalityType, SumType
<1>4. {} \in P
  <2>1. F({}) = 0 /\ H({}) = 0 /\ Cardinality({}) = 0
    BY SumEmpty, FS_EmptySet
  <2> HIDE DEF F, H, c, t
  <2> QED
    BY <1>1, <2>1
<1>5. ASSUME NEW s \in SUBSET G, NEW x \in G \ s, s \in P PROVE s \cup {x} \in P
  <2>1. IsFiniteSet(s \cup {x}) /\ (s \cup {x}) \ {x} = s /\ Cardinality(s \cup {x}) = Cardinality(s) + 1
    BY <1>3, FS_AddElement
  <2>2. F(s \cup {x}) = value[x] + F(s)
    BY <1>2, <2>1, SumTakingAny
  <2>3. H(s \cup {x}) = h[x] + H(s)
    BY <1>2, <2>1, SumTakingAny
  <2>4. F(s) \in Int /\ H(s) = F(s) * c - Cardinality(s) * t /\ Cardinality(s) \in Int
    BY <1>3, <1>5
  <2> HIDE DEF F, H, c, t
  <2>5. \A a, b, d, n, u \in Int : (a * d - u) + (b * d - n * u) = (a + b) * d - (n + 1) * u
    BY SMTT(20)
  <2>6. value[x] \in Int /\ c \in Int /\ t \in Int /\ h[x] = value[x] * c - t
    BY <1>1, <1>2
  <2>7. h[x] + H(s) = (value[x] + F(s)) * c - (Cardinality(s) + 1) * t
    BY <2>4, <2>5, <2>6
  <2>8. H(s \cup {x}) = F(s \cup {x}) * c - Cardinality(s \cup {x}) * t
    BY <2>1, <2>2, <2>3, <2>7
  <2> QED
    BY <2>8
<1>6. G \in P
  <2> HIDE DEF P
  <2> QED
    BY <1>4, <1>5, FiniteInduction
<1>7. H(G) = t * c - c * t
  BY <1>6
<1> HIDE DEF c, t
<1>8. t * c - c * t = 0
  <2>1. \A a, b \in Int : a * b - b * a = 0
    BY SMTT(20)
  <2> QED
    BY <1>1, <2>1
<1> QED
  BY <1>7, <1>8

(***************************************************************************)
(* The invariant.  What a set keeps is of its last two bars; what waits at *)
(* the barrier is of its bar; the matrix, and every one that was saved, is *)
(* in time order, and the file's hash is of one that was saved.            *)
(***************************************************************************)
SetRecord == [close: Int, logReturn: Int, hasReturn: BOOLEAN, end: Int, volume: Int]
BarRecord == [close: Int, volume: Int, at: Int]

FollowsBars(s, bars) ==
  LET m == Len(bars)
  IN  /\ m = 0 => s.close = 0
      /\ m > 0 => s.close = bars[m].close /\ s.close > 0 /\ s.end >= bars[m].at
      /\ m > 1 => s.logReturn = bars[m].close - bars[m - 1].close

SetsInv ==
  /\ sets \in [Universe -> SetRecord] /\ barsOf \in [Universe -> Seq(BarRecord)]
  /\ \A i \in Universe : FollowsBars(sets[i], barsOf[i])

StageInv ==
  /\ stageConfig \in CrossConfig
  /\ barTime \in Int /\ DOMAIN pending \subseteq Universe
  /\ \A i \in DOMAIN pending :
       pending[i].at = barTime /\ pending[i].logReturn \in Int /\ pending[i].volume \in Int
  /\ barTime = NoBarTime => DOMAIN pending = {}

InTimeOrder(rows) == \A k \in 1..Len(rows) - 1 : rows[k].at <= rows[k + 1].at
Matrices == {rows \in Seq([instrument: Universe, at: Int]) : InTimeOrder(rows)}

MatrixInv ==
  /\ matrix \in Matrices /\ reloaded.saved \subseteq Matrices
  /\ fileKept.hashOf \in reloaded.saved /\ reloaded.last \in reloaded.saved
  /\ reloaded = [last |-> reloaded.last, saved |-> reloaded.saved]
  /\ fileKept = [rows |-> fileKept.rows, hashOf |-> fileKept.hashOf, whole |-> fileKept.whole]

\* The cross-section that was computed last.
RankedInv == RankedOf(stageConfig, ranked.of, ranked.at, ranked.rows)

FeatureInv == SetsInv /\ StageInv /\ RankedInv /\ MatrixInv

(***************************************************************************)
(* A bar that arrives keeps what the set keeps of its bars.                *)
(***************************************************************************)
LEMMA BarKeeps ==
  ASSUME SetsInv, NEW i \in Universe, NEW close \in LogPrices, NEW volume \in BarVolumes,
         NEW at \in 1..MaxBarTime, TakesBar(i, close, volume, at)
  PROVE  SetsInv'
<1> DEFINE s == sets[i]
           t == [s EXCEPT !.close = close, !.end = at,
                          !.logReturn = IF s.close > 0 THEN ReturnOf(s, close) ELSE @,
                          !.hasReturn = @ \/ s.close > 0,
                          !.volume = volume]
           bar == [close |-> close, volume |-> volume, at |-> at]
           bars == barsOf[i]
           m == Len(bars)
<1>1. close \in Int /\ close > 0 /\ volume \in Int /\ at \in Int
  BY BarsAssumption
<1>2. s \in SetRecord /\ bars \in Seq(BarRecord) /\ FollowsBars(s, bars) /\ bar \in BarRecord
  BY <1>1 DEF SetsInv, BarRecord
<1>3. sets' = [sets EXCEPT ![i] = t] /\ barsOf' = [barsOf EXCEPT ![i] = Append(bars, bar)]
  BY DEF TakesBar
<1>4. /\ t \in SetRecord /\ t.close = close /\ t.end = at
      /\ s.close > 0 => t.logReturn = close - s.close
  <2>1. /\ s.close \in Int /\ s.logReturn \in Int /\ s.hasReturn \in BOOLEAN
        /\ s = [close |-> s.close, logReturn |-> s.logReturn, hasReturn |-> s.hasReturn,
                end |-> s.end, volume |-> s.volume]
    BY <1>2 DEF SetRecord
  <2>2. t = [close |-> close,
             logReturn |-> IF s.close > 0 THEN close - s.close ELSE s.logReturn,
             hasReturn |-> s.hasReturn \/ s.close > 0, end |-> at, volume |-> volume]
    <3> DEFINE t1 == [s EXCEPT !.close = close]
               t2 == [t1 EXCEPT !.end = at]
               t3 == [t2 EXCEPT !.logReturn = IF s.close > 0 THEN ReturnOf(s, close) ELSE @]
               t4 == [t3 EXCEPT !.hasReturn = @ \/ s.close > 0]
    <3>1. t = [t4 EXCEPT !.volume = volume]
      OBVIOUS
    <3>2. t1 = [close |-> close, logReturn |-> s.logReturn, hasReturn |-> s.hasReturn,
                end |-> s.end, volume |-> s.volume]
      BY <2>1
    <3> HIDE DEF t1, s, t
    <3>3. t2 = [close |-> close, logReturn |-> s.logReturn, hasReturn |-> s.hasReturn,
                end |-> at, volume |-> s.volume]
      BY <3>2
    <3> HIDE DEF t2
    <3>4. t3 = [close |-> close, logReturn |-> IF s.close > 0 THEN close - s.close ELSE s.logReturn,
                hasReturn |-> s.hasReturn, end |-> at, volume |-> s.volume]
      BY <3>3 DEF ReturnOf
    <3> HIDE DEF t3
    <3>5. t4 = [close |-> close, logReturn |-> IF s.close > 0 THEN close - s.close ELSE s.logReturn,
                hasReturn |-> s.hasReturn \/ s.close > 0, end |-> at, volume |-> s.volume]
      BY <3>4
    <3> HIDE DEF t4
    <3> QED
      BY <3>1, <3>5
  <2> HIDE DEF t
  <2>3. (s.hasReturn \/ s.close > 0) \in BOOLEAN
    OBVIOUS
  <2> QED
    BY <1>1, <2>1, <2>2, <2>3 DEF SetRecord
<1>5. /\ Append(bars, bar) \in Seq(BarRecord) /\ Len(Append(bars, bar)) = m + 1 /\ m \in Nat
      /\ Append(bars, bar)[m + 1] = bar /\ \A k \in 1..m : Append(bars, bar)[k] = bars[k]
  BY <1>2
<1> HIDE DEF s, t, bar, bars
<1>6. FollowsBars(t, Append(bars, bar))
  <2>1. m > 0 => s.close = bars[m].close /\ s.close > 0
    BY <1>2 DEF FollowsBars
  <2>2. bar.close = close /\ bar.at = at
    BY DEF bar
  <2>3. m > 0 => Append(bars, bar)[m] = bars[m]
    BY <1>5
  <2>4. m > 0 => t.logReturn = bar.close - bars[m].close
    BY <1>4, <2>1, <2>2
  <2>5. m + 1 > 0 /\ m + 1 # 0 /\ (m + 1) - 1 = m /\ (m + 1 > 1 => m > 0)
    BY <1>5
  <2> DEFINE longer == Append(bars, bar)
  <2>6. Len(longer) = m + 1 /\ longer[m + 1] = bar /\ longer[(m + 1) - 1] = longer[m]
    BY <1>5, <2>5
  <2> HIDE DEF longer, m
  <2>7. t.close = longer[m + 1].close /\ t.close > 0 /\ t.end >= longer[m + 1].at
    BY <1>1, <1>4, <2>2, <2>6
  <2>8. m + 1 > 1 => t.logReturn = longer[m + 1].close - longer[(m + 1) - 1].close
    BY <2>2, <2>3, <2>4, <2>5, <2>6 DEF longer
  <2>9. FollowsBars(t, longer)
    BY <2>5, <2>6, <2>7, <2>8 DEF FollowsBars
  <2> QED
    BY <2>9 DEF longer
<1> QED
  BY <1>3, <1>4, <1>5, <1>6 DEF SetsInv

(***************************************************************************)
(* So does a quote, which only moves the time, and a reset.                *)
(***************************************************************************)
LEMMA QuoteKeeps ==
  ASSUME SetsInv, NEW i \in Universe, NEW at \in 1..MaxBarTime, TakesQuote(i, at)
  PROVE  SetsInv'
<1> DEFINE s == sets[i]
           t == [s EXCEPT !.end = IF at > s.end THEN at ELSE s.end]
<1>1. s \in SetRecord /\ FollowsBars(s, barsOf[i]) /\ barsOf[i] \in Seq(BarRecord) /\ at \in Int
  BY DEF SetsInv
<1>2. sets' = [sets EXCEPT ![i] = t] /\ barsOf' = barsOf
  BY DEF TakesQuote, SetsInv
<1>3. t \in SetRecord /\ t.end >= s.end /\ t.close = s.close /\ t.logReturn = s.logReturn
  BY <1>1 DEF SetRecord
<1>4. s.end \in Int /\ t.end \in Int /\ (Len(barsOf[i]) > 0 => barsOf[i][Len(barsOf[i])].at \in Int)
  <2>1. ASSUME Len(barsOf[i]) > 0 PROVE barsOf[i][Len(barsOf[i])].at \in Int
    <3>1. Len(barsOf[i]) \in 1..Len(barsOf[i])
      BY <1>1, <2>1
    <3>2. barsOf[i][Len(barsOf[i])] \in BarRecord
      BY <1>1, <3>1
    <3> QED
      BY <3>2 DEF BarRecord
  <2> QED
    BY <1>1, <1>3, <2>1 DEF SetRecord
<1> HIDE DEF s, t
<1>5. FollowsBars(t, barsOf[i])
  BY <1>1, <1>3, <1>4 DEF FollowsBars
<1> QED
  BY <1>2, <1>3, <1>5 DEF SetsInv

LEMMA ResetKeeps ==
  ASSUME SetsInv, NEW i \in Universe, ResetSet(i)
  PROVE  SetsInv'
<1>1. sets' = [sets EXCEPT ![i] = EmptySet] /\ barsOf' = [barsOf EXCEPT ![i] = <<>>]
  BY DEF ResetSet
<1>2. EmptySet \in SetRecord /\ FollowsBars(EmptySet, <<>>) /\ <<>> \in Seq(BarRecord)
  BY DEF EmptySet, SetRecord, FollowsBars, NoBarTime
<1> QED
  BY <1>1, <1>2 DEF SetsInv

(***************************************************************************)
(* The barrier takes contributions of one bar only.                        *)
(***************************************************************************)
LEMMA ContributeKeeps ==
  ASSUME SetsInv, StageInv, NEW i \in Universe, Contribute(i)
  PROVE  StageInv'
<1> DEFINE s == sets[i]
           given == [logReturn |-> s.logReturn, volume |-> s.volume, at |-> s.end]
<1>1. s \in SetRecord
  BY DEF SetsInv
<1>2. s.end # NoBarTime /\ (barTime = NoBarTime \/ s.end = barTime) /\ s.end \in Int
  BY <1>1 DEF Contribute, OfThisBar, SetRecord
<1>3. barTime' = s.end /\ UNCHANGED stageConfig
  BY <1>2 DEF Contribute
<1>4. /\ DOMAIN pending' = DOMAIN pending \cup {i} /\ pending'[i] = given
      /\ \A j \in DOMAIN pending : j # i => pending'[j] = pending[j]
  BY DEF Contribute
<1>5. given.at = s.end /\ given.logReturn \in Int /\ given.volume \in Int
  BY <1>1 DEF SetRecord
<1>6. \A j \in DOMAIN pending : barTime = s.end
  BY <1>2 DEF StageInv
<1> HIDE DEF s, given
<1> QED
  BY <1>2, <1>3, <1>4, <1>5, <1>6 DEF StageInv

(***************************************************************************)
(* Differences of relative returns are those of the returns they are made  *)
(* from, whether they are relative to the proxy or to the mean.            *)
(***************************************************************************)
LEMMA RelativeDiffers ==
  ASSUME StageInv, NEW clipped \in [DOMAIN pending -> Int],
         NEW i \in DOMAIN pending, NEW j \in DOMAIN pending
  PROVE  /\ MarketRelative(i, clipped) \in Int
         /\ MarketRelative(i, clipped) - MarketRelative(j, clipped)
              = Cardinality(DOMAIN pending) * (clipped[i] - clipped[j])
<1> DEFINE n == Cardinality(DOMAIN pending)
           total == SumFunctionOnSet(clipped, DOMAIN pending)
           proxy == pending[MarketProxy].logReturn
           a == clipped[i]
           b == clipped[j]
<1>1. IsFiniteSet(DOMAIN pending)
  BY BarsAssumption, FS_Subset DEF StageInv
<1>2. n \in Int /\ total \in Int /\ a \in Int /\ b \in Int
  <2>1. \A k \in DOMAIN pending : clipped[k] \in Int
    OBVIOUS
  <2> QED
    BY <1>1, <2>1, FS_CardinalityType, SumType
<1>3. CASE MarketProxy \in DOMAIN pending
  <2>1. MarketRelative(i, clipped) = n * (a - proxy) /\ MarketRelative(j, clipped) = n * (b - proxy)
    BY <1>3 DEF MarketRelative
  <2>2. proxy \in Int
    BY <1>3 DEF StageInv
  <2> HIDE DEF n, a, b, proxy
  <2>3. \A x, y, m, r \in Int : x * (y - r) - x * (m - r) = x * (y - m) /\ x * (y - r) \in Int
    BY SMTT(20)
  <2>4. n * (a - proxy) - n * (b - proxy) = n * (a - b) /\ n * (a - proxy) \in Int
    BY <1>2, <2>2, <2>3
  <2> QED
    BY <2>1, <2>4 DEF n, a, b
<1>4. CASE MarketProxy \notin DOMAIN pending
  <2>1. MarketRelative(i, clipped) = a * n - total /\ MarketRelative(j, clipped) = b * n - total
    BY <1>4 DEF MarketRelative, Demeaned
  <2> HIDE DEF n, a, b, total
  <2>2. \A x, y, m, r \in Int : (y * x - r) - (m * x - r) = x * (y - m) /\ y * x - r \in Int
    BY SMTT(20)
  <2>3. (a * n - total) - (b * n - total) = n * (a - b) /\ a * n - total \in Int
    BY <1>2, <2>2
  <2> QED
    BY <2>1, <2>3 DEF n, a, b
<1> QED
  BY <1>3, <1>4

(***************************************************************************)
(* compute() ranks and compares what waited.                               *)
(***************************************************************************)
LEMMA ComputeRanks ==
  ASSUME StageInv, Compute
  PROVE  RankedInv'
<1> DEFINE D == DOMAIN pending
           n == Cardinality(D)
           returns == [j \in D |-> pending[j].logReturn]
           sizes == [j \in D |-> pending[j].volume]
           clipped == Winsorized(stageConfig, returns)
           InSector(i) == IF stageConfig.neutral THEN Demeaned(i, clipped, SectorMates(i))
                          ELSE MarketRelative(i, clipped)
           row == [i \in D |->
                    [rank |-> PercentileRank(i, clipped), volumeRank |-> PercentileRank(i, sizes),
                     relative |-> MarketRelative(i, clipped), inSector |-> InSector(i)]]
           cut == [of |-> pending, at |-> barTime, rows |-> row]
<1>1. ranked' = cut /\ (stageConfig.complete => D = Universe) /\ UNCHANGED stageConfig
  BY DEF Compute
<1>2. /\ D \in SUBSET Int /\ IsFiniteSet(D) /\ returns \in [D -> Int] /\ stageConfig \in CrossConfig
      /\ \A i \in D : returns[i] = pending[i].logReturn /\ pending[i].at = barTime
  BY BarsAssumption, FS_Subset DEF StageInv
<1>3. cut.of = pending /\ cut.at = barTime /\ cut.rows = row
  OBVIOUS
<1>4. \A i \in D : /\ row[i].rank = PercentileRank(i, clipped) /\ row[i].relative = MarketRelative(i, clipped)
                   /\ row[i].inSector = InSector(i)
  OBVIOUS
<1> HIDE DEF returns, sizes, row, cut
<1>5. ASSUME NEW i \in D PROVE clipped \in [D -> Int] /\ clipped[i] = CutReturn(stageConfig, pending, i)
  <2>1. D # {}
    BY <1>5
  <2> QED
    BY <1>2, <2>1, WinsorizeCuts
<1> HIDE DEF clipped
<1>6. n \in Nat
  BY <1>2, FS_CardinalityType
<1>7. ASSUME NEW i \in D, NEW j \in D
      PROVE  /\ row[i].relative \in Int /\ row[j].relative \in Int
             /\ row[i].relative - row[j].relative = n * (clipped[i] - clipped[j])
  <2>1. /\ MarketRelative(i, clipped) \in Int /\ MarketRelative(j, clipped) \in Int
        /\ MarketRelative(i, clipped) - MarketRelative(j, clipped) = n * (clipped[i] - clipped[j])
    BY <1>5, RelativeDiffers
  <2> QED
    BY <1>4, <2>1
<1>8. ASSUME NEW i \in D, n > 1
      PROVE  row[i].rank = 2 * Cardinality({j \in D : row[j].relative < row[i].relative})
                             + Cardinality({j \in D : row[j].relative = row[i].relative}) - 1
  <2>1. PercentileRank(i, clipped) = 2 * Cardinality({j \in D : clipped[j] < clipped[i]})
                                    + Cardinality({j \in D : clipped[j] = clipped[i]}) - 1
    BY <1>2, <1>5, <1>8, RankCounts
  <2>2. \A j \in D : /\ row[j].relative < row[i].relative <=> clipped[j] < clipped[i]
                     /\ row[j].relative = row[i].relative <=> clipped[j] = clipped[i]
    <3> TAKE j \in D
    <3>1. /\ row[i].relative \in Int /\ row[j].relative \in Int /\ clipped[i] \in Int /\ clipped[j] \in Int
          /\ row[j].relative - row[i].relative = n * (clipped[j] - clipped[i])
      BY <1>5, <1>7
    <3>2. \A m \in Nat, x, y, u, v \in Int :
            m > 1 /\ x - y = m * (u - v) => (x < y <=> u < v) /\ (x = y <=> u = v)
      <4> SUFFICES ASSUME NEW m \in Nat, NEW x \in Int, NEW y \in Int, NEW u \in Int, NEW v \in Int,
                          m > 1, x - y = m * (u - v)
                   PROVE  (x < y <=> u < v) /\ (x = y <=> u = v)
        OBVIOUS
      <4> DEFINE d == u - v
      <4>1. d \in Int /\ x - y = m * d
        OBVIOUS
      <4> HIDE DEF d
      <4>2. (d < 0 => m * d < 0) /\ (d = 0 => m * d = 0) /\ (d > 0 => m * d > 0)
        BY <4>1, SMTT(20)
      <4>3. (d < 0 <=> u < v) /\ (d = 0 <=> u = v)
        BY DEF d
      <4>4. (d < 0 <=> x - y < 0) /\ (d = 0 <=> x - y = 0)
        BY <4>1, <4>2
      <4> QED
        BY <4>3, <4>4
    <3> HIDE DEF n
    <3>3. n \in Nat /\ n > 1
      BY <1>6, <1>8
    <3> QED
      <4> DEFINE x == row[j].relative
                 y == row[i].relative
                 u == clipped[j]
                 v == clipped[i]
      <4>1. x \in Int /\ y \in Int /\ u \in Int /\ v \in Int /\ x - y = n * (u - v)
        BY <3>1
      <4> HIDE DEF x, y, u, v
      <4>2. (x < y <=> u < v) /\ (x = y <=> u = v)
        BY <3>2, <3>3, <4>1
      <4> QED
        BY <4>2 DEF x, y, u, v
  <2>3. /\ {j \in D : clipped[j] < clipped[i]} = {j \in D : row[j].relative < row[i].relative}
        /\ {j \in D : clipped[j] = clipped[i]} = {j \in D : row[j].relative = row[i].relative}
    BY <2>2
  <2> QED
    BY <1>4, <2>1, <2>3
<1>9. ASSUME NEW i \in D, stageConfig.neutral
      PROVE  SumFunctionOnSet([j \in D |-> row[j].inSector], {j \in D : SectorOf[j] = SectorOf[i]}) = 0
  <2> DEFINE G == {j \in D : SectorOf[j] = SectorOf[i]}
             h == [j \in D |-> row[j].inSector]
  <2>1. IsFiniteSet(G) /\ \A j \in G : clipped[j] \in Int
    BY <1>2, <1>5, FS_Subset
  <2>2. \A j \in G : h[j] = Demeaned(j, clipped, G)
    <3> TAKE j \in G
    <3>1. SectorMates(j) = G
      BY DEF SectorMates
    <3> QED
      BY <1>4, <1>9, <3>1
  <2> HIDE DEF G, h
  <2>3. SumFunctionOnSet(h, G) = 0
    BY <2>1, <2>2, DemeanedToZero
  <2> QED
    BY <2>3 DEF G, h
<1>10. ASSUME NEW i \in D, ~stageConfig.neutral PROVE row[i].inSector = row[i].relative
  BY <1>4, <1>10
<1>11. ASSUME NEW i \in D, NEW j \in D
       PROVE  row[i].relative - row[j].relative
                = n * (CutReturn(stageConfig, pending, i) - CutReturn(stageConfig, pending, j))
  BY <1>5, <1>7
<1>12. RankedOf(stageConfig, pending, barTime, row)
  <2>1. ASSUME NEW i \in D
        PROVE  /\ pending[i].at = barTime
               /\ \A j \in D : row[i].relative - row[j].relative
                     = n * (CutReturn(stageConfig, pending, i) - CutReturn(stageConfig, pending, j))
               /\ n > 1 => row[i].rank = 2 * Cardinality({j \in D : row[j].relative < row[i].relative})
                                + Cardinality({j \in D : row[j].relative = row[i].relative}) - 1
               /\ IF stageConfig.neutral
                  THEN SumFunctionOnSet([j \in D |-> row[j].inSector],
                                        {j \in D : SectorOf[j] = SectorOf[i]}) = 0
                  ELSE row[i].inSector = row[i].relative
    BY <1>2, <1>8, <1>9, <1>10, <1>11, Zenon
  <2> QED
    BY <1>1, <2>1, Zenon DEF RankedOf
<1>13. ranked'.of = pending /\ ranked'.at = barTime /\ ranked'.rows = row
  BY <1>1, <1>3
<1>14. RankedOf(stageConfig', ranked'.of, ranked'.at, ranked'.rows)
  BY <1>1, <1>12, <1>13
<1> QED
  BY <1>14 DEF RankedInv

(***************************************************************************)
(* The matrix only grows at its end, by a row that is not earlier, or is   *)
(* one that was saved: a file with another content than its hash is not    *)
(* accepted.                                                               *)
(***************************************************************************)
LEMMA RowKeeps ==
  ASSUME SetsInv, MatrixInv, NEW i \in Universe, AppendRow(i)
  PROVE  MatrixInv'
<1> DEFINE row == [instrument |-> i, at |-> sets[i].end]
           n == Len(matrix)
           longer == Append(matrix, row)
<1>1. sets[i].end \in Int
  BY DEF SetsInv, SetRecord
<1>2. matrix \in Seq([instrument: Universe, at: Int]) /\ n \in Nat /\ InTimeOrder(matrix)
  BY DEF MatrixInv, Matrices
<1>3. /\ longer \in Seq([instrument: Universe, at: Int]) /\ Len(longer) = n + 1
      /\ \A k \in 1..n : longer[k] = matrix[k]
      /\ longer[n + 1] = row /\ row.at = sets[i].end
  BY <1>1, <1>2
<1>4. n > 0 => matrix[n].at <= row.at
  BY <1>2 DEF AppendRow, NotEarlier, Last
<1> HIDE DEF row, longer, n
<1>5. InTimeOrder(longer)
  <2> SUFFICES ASSUME NEW k \in 1..Len(longer) - 1 PROVE longer[k].at <= longer[k + 1].at
    BY DEF InTimeOrder
  <2>1. k \in 1..n
    BY <1>2, <1>3
  <2>2. CASE k = n
    BY <1>2, <1>3, <1>4, <2>1, <2>2
  <2>3. CASE k # n
    <3>1. k + 1 \in 1..n /\ k \in 1..n - 1
      BY <1>2, <2>1, <2>3
    <3>2. matrix[k].at <= matrix[k + 1].at
      BY <1>2, <3>1 DEF InTimeOrder, n
    <3> QED
      BY <1>3, <2>1, <3>1, <3>2
  <2> QED
    BY <2>2, <2>3
<1>6. matrix' = longer /\ UNCHANGED <<fileKept, reloaded>>
  BY DEF AppendRow, longer, row
<1> QED
  BY <1>3, <1>5, <1>6 DEF MatrixInv, Matrices

LEMMA MatrixStepsKeep ==
  ASSUME SetsInv, MatrixInv, MatrixStep
  PROVE  MatrixInv'
<1>1. CASE \E i \in Universe : AppendRow(i)
  BY <1>1, RowKeeps
<1>2. CASE SaveMatrix
  BY <1>2 DEF SaveMatrix, MatrixInv
<1>3. CASE FileDamaged
  BY <1>3 DEF FileDamaged, MatrixInv
<1>4. CASE LoadMatrix
  BY <1>4 DEF LoadMatrix, Acceptable, MatrixInv
<1> QED
  BY <1>1, <1>2, <1>3, <1>4 DEF MatrixStep

LEMMA NothingRanked ==
  ASSUME NEW config
  PROVE  RankedOf(config, NoCrossSection.of, NoCrossSection.at, NoCrossSection.rows)
<1>1. DOMAIN NoCrossSection.of = {} /\ Cardinality({}) = 0
  BY FS_EmptySet DEF NoCrossSection
<1> QED
  BY <1>1 DEF RankedOf

LEMMA InitFeatures == FeatureInit => FeatureInv
<1> SUFFICES ASSUME FeatureInit PROVE FeatureInv
  OBVIOUS
<1>1. SetsInv
  BY DEF FeatureInit, SetsInv, SetRecord, EmptySet, FollowsBars, NoBarTime
<1>2. StageInv
  BY BarsAssumption DEF FeatureInit, StageInv, NoBarTime, CrossConfig
<1>3. RankedInv
  <2>1. ranked = NoCrossSection
    BY DEF FeatureInit
  <2> QED
    BY <2>1, NothingRanked DEF RankedInv
<1>4. MatrixInv
  <2>1. <<>> \in Matrices
    BY DEF Matrices, InTimeOrder
  <2> QED
    BY <2>1 DEF FeatureInit, MatrixInv
<1> QED
  BY <1>1, <1>2, <1>3, <1>4 DEF FeatureInv

LEMMA StepFeatures == FeatureInv /\ [FeatureNext]_featureVars => FeatureInv'
<1> SUFFICES ASSUME FeatureInv, [FeatureNext]_featureVars PROVE FeatureInv'
  OBVIOUS
<1> USE DEF FeatureInv
<1>1. ASSUME UNCHANGED setVars PROVE SetsInv'
  BY <1>1 DEF setVars, SetsInv
<1>2. ASSUME UNCHANGED stageVars PROVE StageInv' /\ RankedInv'
  BY <1>2 DEF stageVars, StageInv, RankedInv
<1>3. ASSUME UNCHANGED matrixVars PROVE MatrixInv'
  BY <1>3 DEF matrixVars, MatrixInv
<1>4. CASE SetStep
  <2>1. UNCHANGED <<stageVars, matrixVars>>
    BY <1>4, Zenon DEF SetStep, TakesBar, TakesQuote, ResetSet
  <2>2. SetsInv'
    BY <1>4, BarKeeps, QuoteKeeps, ResetKeeps DEF SetStep
  <2> QED
    BY <1>2, <1>3, <2>1, <2>2
<1>5. CASE StageStep
  <2>1. UNCHANGED <<setVars, matrixVars>>
    BY <1>5 DEF StageStep, Contribute, Compute, ClearStage
  <2>2. StageInv' /\ RankedInv'
    <3>1. CASE \E i \in Universe : Contribute(i)
      <4>1. StageInv'
        BY <3>1, ContributeKeeps
      <4>2. ranked' = NoCrossSection
        BY <3>1 DEF Contribute
      <4> QED
        BY <4>1, <4>2, NothingRanked DEF RankedInv
    <3>2. CASE Compute
      <4>1. StageInv'
        BY <3>2 DEF Compute, StageInv, NoBarTime
      <4> QED
        BY <3>2, <4>1, ComputeRanks
    <3>3. CASE ClearStage
      <4>1. StageInv' /\ UNCHANGED <<ranked, stageConfig>>
        BY <3>3 DEF ClearStage, StageInv, NoBarTime
      <4> QED
        BY <4>1 DEF RankedInv
    <3> QED
      BY <1>5, <3>1, <3>2, <3>3 DEF StageStep
  <2> QED
    BY <1>1, <1>3, <2>1, <2>2
<1>6. CASE MatrixStep
  <2>1. UNCHANGED <<setVars, stageVars>>
    BY <1>6 DEF MatrixStep, AppendRow, SaveMatrix, FileDamaged, LoadMatrix
  <2> QED
    BY <1>1, <1>2, <1>6, <2>1, MatrixStepsKeep
<1>7. CASE UNCHANGED featureVars
  BY <1>1, <1>2, <1>3, <1>7 DEF featureVars
<1> QED
  BY <1>4, <1>5, <1>6, <1>7 DEF FeatureNext

LEMMA FeaturesTell == FeatureInv => FeaturesAreOfTheirBar
<1> SUFFICES ASSUME FeatureInv PROVE FeaturesAreOfTheirBar
  OBVIOUS
<1>1. RankedOf(stageConfig, ranked.of, ranked.at, ranked.rows)
  BY DEF FeatureInv, RankedInv
<1>2. ASSUME NEW i \in Universe
      PROVE  LET bars == barsOf[i]
                 m == Len(bars)
             IN  /\ m > 1 => sets[i].logReturn = bars[m].close - bars[m - 1].close
                 /\ m > 0 => sets[i].end >= bars[m].at
  BY DEF FeatureInv, SetsInv, FollowsBars
<1>3. InTimeOrder(matrix) /\ reloaded.last \in reloaded.saved
  BY DEF FeatureInv, MatrixInv, Matrices
<1> QED
  BY <1>1, <1>2, <1>3, Zenon DEF FeaturesAreOfTheirBar, InTimeOrder

(***************************************************************************)
(* The rows of a cross-section are of one bar and rank its instruments, a  *)
(* set's return is of its last two bars, and a matrix that load() returns  *)
(* was saved (cross_sectional.cpp, feature_set.cpp, matrix.cpp).           *)
(***************************************************************************)
THEOREM FeaturesStayOfTheirBar == FeatureSpec => []FeaturesAreOfTheirBar
<1>1. FeatureInit => FeatureInv
  BY InitFeatures
<1>2. FeatureInv /\ [FeatureNext]_featureVars => FeatureInv'
  BY StepFeatures
<1>3. FeatureInv => FeaturesAreOfTheirBar
  BY FeaturesTell
<1> QED
  BY <1>1, <1>2, <1>3, PTL DEF FeatureSpec

-----------------------------------------------------------------------------
(***************************************************************************)
(* PerformanceBook's drawdowns.  What is lost at a point of the curve is   *)
(* a fraction of the greatest point up to it; fractions are compared by    *)
(* cross-multiplication.                                                   *)
(***************************************************************************)
IsCurve(c) ==
  /\ \E S : c \in Seq(S)
  /\ \A k \in 1..Len(c) : c[k].at \in Int /\ c[k].equity \in Int
  /\ \A k, l \in 1..Len(c) : k <= l => c[k].at <= c[l].at

AllPositive(c) == \A k \in 1..Len(c) : c[k].equity > 0

GreatestAt(c, k) ==
  CHOOSE e \in {c[j].equity : j \in 1..k} : \A j \in 1..k : c[j].equity <= e
LossAt(c, k) == [lost |-> GreatestAt(c, k) - c[k].equity, of |-> GreatestAt(c, k)]
UnderPeak(c) == {k \in 1..Len(c) : c[k].equity < GreatestAt(c, k)}
RecoveriesOf(c) == {k \in 2..Len(c) : k - 1 \in UnderPeak(c) /\ k \notin UnderPeak(c)}

IsGreatest(c, k, e) ==
  /\ e \in Int /\ \A j \in 1..k : c[j].equity <= e
  /\ \E j \in 1..k : c[j].equity = e

(***************************************************************************)
(* The greatest point is one of the curve, and there is only one value.    *)
(***************************************************************************)
LEMMA GreatestIs ==
  ASSUME NEW c, IsCurve(c), NEW k \in 1..Len(c)
  PROVE  IsGreatest(c, k, GreatestAt(c, k))
<1> DEFINE s == [j \in 1..Len(c) |-> c[j].equity]
           n == Len(c)
<1>1. n \in Nat /\ \A j \in 1..n : s[j] = c[j].equity /\ s[j] \in Int
  BY DEF IsCurve
<1>2. 1..k \in SUBSET (1..n) /\ 1..k # {}
  BY <1>1
<1> HIDE DEF s, n
<1>3. \E i \in 1..k : \A j \in 1..k : s[j] <= s[i]
  BY <1>1, <1>2, ExtremeIndices
<1>4. PICK i \in 1..k : \A j \in 1..k : s[j] <= s[i]
  BY <1>3
<1>5. \E e \in {c[j].equity : j \in 1..k} : \A j \in 1..k : c[j].equity <= e
  BY <1>1, <1>2, <1>4
<1> DEFINE e == GreatestAt(c, k)
<1>6. e \in {c[j].equity : j \in 1..k} /\ \A j \in 1..k : c[j].equity <= e
  BY <1>5 DEF GreatestAt
<1> HIDE DEF e
<1>7. PICK j \in 1..k : e = c[j].equity
  BY <1>6
<1>8. IsGreatest(c, k, e)
  BY <1>1, <1>2, <1>6, <1>7 DEF IsGreatest
<1> QED
  BY <1>8 DEF e

LEMMA OneGreatest ==
  ASSUME NEW c, NEW k, NEW e, NEW g, IsGreatest(c, k, e), IsGreatest(c, k, g)
  PROVE  e = g
BY DEF IsGreatest

(***************************************************************************)
(* A point added at the end leaves the greatest points before it, and is   *)
(* the greatest itself or leaves the last one.                             *)
(***************************************************************************)
Longer(c, p, d) ==
  /\ IsCurve(d) /\ Len(d) = Len(c) + 1 /\ Len(c) \in Nat
  /\ \A k \in 1..Len(c) : d[k] = c[k] /\ k \in 1..Len(d)
  /\ d[Len(c) + 1] = p

LEMMA PointAdded ==
  ASSUME NEW c, IsCurve(c), NEW p, p.at \in Int, p.equity \in Int,
         \A k \in 1..Len(c) : c[k].at <= p.at
  PROVE  Longer(c, p, Append(c, p))
<1> DEFINE d == Append(c, p)
           n == Len(c)
<1>1. PICK S : c \in Seq(S)
  BY DEF IsCurve
<1> DEFINE T == S \cup {p}
<1>2. c \in Seq(T)
  <2>1. n \in Nat /\ c \in [1..n -> S]
    BY <1>1
  <2>2. c \in [1..n -> T]
    BY <2>1
  <2> QED
    BY <2>1, <2>2, SeqDef
<1>3. /\ d \in Seq(T) /\ Len(d) = n + 1 /\ n \in Nat
      /\ \A i \in 1..n : d[i] = c[i] /\ d[n + 1] = p
  BY <1>2
<1>4. d[n + 1] = p
  BY <1>2
<1> HIDE DEF d, n, T
<1>5. \A k \in 1..Len(d) : d[k].at \in Int /\ d[k].equity \in Int
  <2> TAKE k \in 1..Len(d)
  <2>1. CASE k = n + 1
    BY <1>4, <2>1
  <2>2. CASE k # n + 1
    <3>1. k \in 1..n
      BY <1>3, <2>2
    <3> QED
      BY <1>3, <3>1 DEF IsCurve, n
  <2> QED
    BY <2>1, <2>2
<1>6. \A k, l \in 1..Len(d) : k <= l => d[k].at <= d[l].at
  <2> SUFFICES ASSUME NEW k \in 1..Len(d), NEW l \in 1..Len(d), k <= l PROVE d[k].at <= d[l].at
    OBVIOUS
  <2>1. CASE k = n + 1
    <3>1. l = k
      BY <1>3, <2>1
    <3> QED
      BY <1>5, <3>1
  <2>2. CASE k # n + 1 /\ l = n + 1
    <3>1. k \in 1..n
      BY <1>3, <2>2
    <3> QED
      BY <1>3, <1>4, <2>2, <3>1 DEF n
  <2>3. CASE k # n + 1 /\ l # n + 1
    <3>1. k \in 1..n /\ l \in 1..n
      BY <1>3, <2>3
    <3> QED
      BY <1>3, <3>1 DEF IsCurve, n
  <2> QED
    BY <2>1, <2>2, <2>3
<1>7. IsCurve(d)
  BY <1>3, <1>5, <1>6 DEF IsCurve
<1>8. Longer(c, p, d)
  BY <1>3, <1>4, <1>7 DEF Longer, n
<1> QED
  BY <1>8 DEF d

LEMMA PrefixKept ==
  ASSUME NEW c, IsCurve(c), NEW p, NEW d, Longer(c, p, d), NEW k \in 1..Len(c)
  PROVE  GreatestAt(d, k) = GreatestAt(c, k) /\ LossAt(d, k) = LossAt(c, k)
<1>1. IsGreatest(c, k, GreatestAt(c, k))
  BY GreatestIs
<1>2. IsGreatest(d, k, GreatestAt(d, k))
  BY GreatestIs DEF Longer
<1>3. \A j \in 1..k : d[j] = c[j]
  BY DEF Longer
<1>4. IsGreatest(d, k, GreatestAt(c, k))
  BY <1>1, <1>3 DEF IsGreatest
<1>5. GreatestAt(d, k) = GreatestAt(c, k)
  BY <1>2, <1>4, OneGreatest
<1> QED
  BY <1>5 DEF LossAt, Longer

LEMMA NextGreatest ==
  ASSUME NEW c, IsCurve(c), NEW n \in Nat, n + 1 \in 1..Len(c)
  PROVE  GreatestAt(c, n + 1)
           = IF n = 0 THEN c[n + 1].equity ELSE Larger(GreatestAt(c, n), c[n + 1].equity)
<1> DEFINE x == c[n + 1].equity
           g == GreatestAt(c, n)
           e == IF n = 0 THEN x ELSE Larger(g, x)
<1>1. x \in Int /\ Len(c) \in Nat /\ \A j \in 1..n : j \in 1..Len(c) /\ c[j].equity \in Int
  BY DEF IsCurve
<1>2. IsGreatest(c, n + 1, GreatestAt(c, n + 1))
  BY GreatestIs
<1>3. n > 0 => IsGreatest(c, n, g)
  BY <1>1, GreatestIs
<1> HIDE DEF g, x
<1>4. \A j \in 1..(n + 1) : j \in 1..n \/ (j = n + 1 /\ c[j].equity = x)
  BY DEF x
<1>5. c[n + 1].equity = x /\ n + 1 \in 1..(n + 1)
  BY DEF x
<1>6. IsGreatest(c, n + 1, e)
  <2>1. CASE n = 0
    BY <1>1, <1>4, <1>5, <2>1 DEF IsGreatest
  <2>2. CASE n > 0
    <3>1. g \in Int /\ \A j \in 1..n : c[j].equity <= g
      BY <1>3, <2>2 DEF IsGreatest
    <3>2. PICK i \in 1..n : c[i].equity = g
      BY <1>3, <2>2 DEF IsGreatest
    <3>3. e \in Int /\ e >= g /\ e >= x /\ (e = g \/ e = x)
      BY <1>1, <2>2, <3>1 DEF Larger
    <3> HIDE DEF e
    <3>4. \A j \in 1..(n + 1) : c[j].equity <= e
      <4> TAKE j \in 1..(n + 1)
      <4>1. CASE j \in 1..n
        BY <1>1, <3>1, <3>3, <4>1
      <4>2. CASE c[j].equity = x
        BY <1>1, <3>3, <4>2
      <4> QED
        BY <1>4, <4>1, <4>2
    <3>5. \E j \in 1..(n + 1) : c[j].equity = e
      <4>1. i \in 1..(n + 1)
        BY <3>2
      <4> QED
        BY <1>5, <3>2, <3>3, <4>1
    <3> QED
      BY <3>3, <3>4, <3>5 DEF IsGreatest
  <2> QED
    BY <2>1, <2>2
<1>7. GreatestAt(c, n + 1) = e
  BY <1>2, <1>6, OneGreatest
<1> QED
  BY <1>7 DEF g, x

LEMMA LastPoint ==
  ASSUME NEW c, IsCurve(c), NEW p, NEW d, Longer(c, p, d)
  PROVE  LET n == Len(c)
         IN  GreatestAt(d, n + 1) = IF n = 0 THEN p.equity ELSE Larger(GreatestAt(c, n), p.equity)
<1> DEFINE n == Len(c)
<1>1. n \in Nat /\ n + 1 \in 1..Len(d) /\ d[n + 1] = p /\ IsCurve(d)
  BY DEF Longer
<1>2. n > 0 => GreatestAt(d, n) = GreatestAt(c, n)
  BY <1>1, PrefixKept
<1>3. GreatestAt(d, n + 1) = IF n = 0 THEN d[n + 1].equity ELSE Larger(GreatestAt(d, n), d[n + 1].equity)
  BY <1>1, NextGreatest
<1> HIDE DEF n
<1>4. GreatestAt(d, n + 1) = IF n = 0 THEN p.equity ELSE Larger(GreatestAt(c, n), p.equity)
  BY <1>1, <1>2, <1>3
<1> QED
  BY <1>4 DEF n

LEMMA UnderAfter ==
  ASSUME NEW c, IsCurve(c), NEW p, NEW d, Longer(c, p, d), p.equity \in Int
  PROVE  LET n == Len(c)
             below == n > 0 /\ p.equity < GreatestAt(c, n)
         IN  /\ UnderPeak(d) = UnderPeak(c) \cup (IF below THEN {n + 1} ELSE {})
             /\ RecoveriesOf(d) = RecoveriesOf(c) \cup (IF n \in UnderPeak(c) /\ ~below THEN {n + 1} ELSE {})
<1> DEFINE n == Len(c)
           below == n > 0 /\ p.equity < GreatestAt(c, n)
<1>1. n \in Nat /\ Len(d) = n + 1 /\ d[n + 1] = p
  BY DEF Longer
<1>2. \A k \in 1..n : k \in UnderPeak(d) <=> k \in UnderPeak(c)
  BY PrefixKept, <1>1 DEF UnderPeak, Longer
<1>3. n + 1 \in UnderPeak(d) <=> below
  <2>1. GreatestAt(d, n + 1) = IF n = 0 THEN p.equity ELSE Larger(GreatestAt(c, n), p.equity)
    BY LastPoint
  <2>2. n > 0 => GreatestAt(c, n) \in Int
    BY <1>1, GreatestIs DEF IsGreatest
  <2>3. n + 1 \in UnderPeak(d) <=> p.equity < GreatestAt(d, n + 1)
    BY <1>1 DEF UnderPeak
  <2> HIDE DEF n
  <2> QED
    BY <1>1, <2>1, <2>2, <2>3 DEF Larger
<1>4. \A k \in UnderPeak(c) : k \in 1..n
  BY DEF UnderPeak
<1>5. \A k \in UnderPeak(d) : k \in 1..(n + 1)
  BY <1>1 DEF UnderPeak
<1>6. UnderPeak(d) = UnderPeak(c) \cup (IF below THEN {n + 1} ELSE {})
  <2> HIDE DEF n, below
  <2>1. \A k \in 1..(n + 1) : k \in 1..n \/ k = n + 1
    BY <1>1
  <2>2. \A k : k \in UnderPeak(d) <=> (k \in UnderPeak(c) \/ (below /\ k = n + 1))
    BY <1>2, <1>3, <1>4, <1>5, <2>1
  <2> QED
    BY <2>2
<1> HIDE DEF n, below
<1>7. \A k \in 2..n : k - 1 \in 1..n /\ k \in 1..n
  BY <1>1
<1>8. \A k : k \in RecoveriesOf(c) <=> k \in 2..n /\ k - 1 \in UnderPeak(c) /\ k \notin UnderPeak(c)
  BY DEF RecoveriesOf, n
<1>9. \A k : k \in RecoveriesOf(d) <=> k \in 2..(n + 1) /\ k - 1 \in UnderPeak(d) /\ k \notin UnderPeak(d)
  BY <1>1 DEF RecoveriesOf
<1>10. ASSUME NEW k
       PROVE  k \in RecoveriesOf(d) <=>
                k \in RecoveriesOf(c) \/ (n \in UnderPeak(c) /\ ~below /\ k = n + 1)
  <2>1. CASE k \in 2..n
    BY <2>1, <1>1, <1>2, <1>7, <1>8, <1>9
  <2>2. CASE k = n + 1
    <3>1. k \notin RecoveriesOf(c) /\ k - 1 = n
      BY <1>1, <1>8, <2>2
    <3>2. n \in UnderPeak(d) <=> n \in UnderPeak(c)
      <4>1. CASE n = 0
        <5>1. 0 \notin UnderPeak(d) /\ 0 \notin UnderPeak(c)
          BY <1>4, <1>5, <1>1, <4>1
        <5> QED
          BY <4>1, <5>1
      <4>2. CASE n > 0
        BY <1>1, <1>2, <4>2
      <4> QED
        BY <1>1, <4>1, <4>2
    <3>3. n \in UnderPeak(c) => n + 1 \in 2..(n + 1)
      BY <1>1, <1>4
    <3> QED
      BY <1>3, <1>9, <2>2, <3>1, <3>2, <3>3
  <2>3. CASE k \notin 2..n /\ k # n + 1
    <3>1. k \notin 2..(n + 1)
      BY <1>1, <2>3
    <3> QED
      BY <1>8, <1>9, <2>3, <3>1
  <2> QED
    BY <2>1, <2>2, <2>3
<1>11. RecoveriesOf(d) = RecoveriesOf(c) \cup (IF n \in UnderPeak(c) /\ ~below THEN {n + 1} ELSE {})
  BY <1>10
<1> QED
  BY <1>6, <1>11 DEF n, below

(***************************************************************************)
(* Of two losses against the same one, the deeper is deeper than the one   *)
(* that is not.                                                            *)
(***************************************************************************)
LEMMA StaysShallower ==
  ASSUME NEW al \in Int, NEW ao \in Nat \ {0}, NEW wl \in Int, NEW wo \in Nat \ {0},
         NEW cl \in Int, NEW co \in Nat \ {0},
         al * wo <= wl * ao, wl * co <= cl * wo
  PROVE  al * co <= cl * ao
<1> DEFINE p == al * co
           q == cl * ao
           a == al * wo
           b == wl * ao
           x == wl * co
           y == cl * wo
<1>0. p \in Int /\ q \in Int /\ a \in Int /\ b \in Int /\ x \in Int /\ y \in Int /\ a <= b /\ x <= y
  OBVIOUS
<1>1. a * co <= b * co /\ x * ao <= y * ao
  <2> HIDE DEF a, b, x, y
  <2> QED
    BY <1>0, GreaterProduct
<1>2. a * co = p * wo /\ b * co = x * ao /\ y * ao = q * wo
  <2>1. \A m, n, o \in Int : (m * n) * o = (m * o) * n
    BY SMTT(20)
  <2> QED
    BY <2>1
<1> HIDE DEF p, q, a, b, x, y
<1>3. p * wo <= q * wo
  <2>1. a * co \in Int /\ b * co \in Int /\ y * ao \in Int
    BY <1>0
  <2> QED
    BY <1>1, <1>2, <2>1
<1>4. ASSUME q + 1 <= p PROVE FALSE
  <2>1. (q + 1) * wo <= p * wo
    BY <1>0, <1>4, GreaterProduct
  <2>2. (q + 1) * wo = q * wo + wo /\ q * wo \in Int /\ p * wo \in Int
    BY <1>0
  <2> DEFINE u == q * wo
             v == p * wo
  <2>3. u \in Int /\ v \in Int /\ v <= u /\ u + wo <= v
    BY <1>3, <2>1, <2>2
  <2> HIDE DEF u, v
  <2> QED
    BY <2>3
<1>5. p <= q
  BY <1>0, <1>4
<1> QED
  BY <1>5 DEF p, q

IsLoss(x) == x.lost \in Nat /\ x.of \in Nat \ {0}

\* A loss that none of the curve's first points is deeper than, and one of theirs.
WorstOf(c, n, w) ==
  /\ IsLoss(w) /\ (w = None \/ \E k \in 1..n : w = LossAt(c, k))
  /\ \A k \in 1..n : ~Deeper(LossAt(c, k), w)

LEMMA LossIs ==
  ASSUME NEW c, IsCurve(c), AllPositive(c), NEW k \in 1..Len(c)
  PROVE  IsLoss(LossAt(c, k))
<1>0. k \in Nat /\ 1 <= k
  BY DEF IsCurve
<1>4. k \in 1..k
  BY <1>0
<1>5. IsGreatest(c, k, GreatestAt(c, k))
  BY GreatestIs, Zenon
<1>1. IsGreatest(c, k, GreatestAt(c, k)) /\ k \in 1..k
  BY <1>4, <1>5
<1>2. c[k].equity \in Int /\ c[k].equity > 0 /\ c[k].equity <= GreatestAt(c, k)
  BY <1>1 DEF IsCurve, AllPositive, IsGreatest
<1>3. GreatestAt(c, k) \in Int
  BY <1>1 DEF IsGreatest
<1> QED
  BY <1>2, <1>3 DEF IsLoss, LossAt

LEMMA NoneIsShallow ==
  ASSUME NEW x, IsLoss(x)
  PROVE  ~Deeper(None, x) /\ IsLoss(None) /\ ~Deeper(x, x)
<1>1. None.lost = 0 /\ None.of = 1
  BY DEF None
<1> QED
  BY <1>1 DEF Deeper, IsLoss

\* Two such losses are equally deep.
LEMMA EquallyDeep ==
  ASSUME NEW c, NEW n, NEW w, WorstOf(c, n, w), NEW v, WorstOf(c, n, v)
  PROVE  ~Deeper(w, v)
<1>1. CASE w = None
  BY <1>1, NoneIsShallow DEF WorstOf
<1>2. CASE \E k \in 1..n : w = LossAt(c, k)
  BY <1>2 DEF WorstOf
<1> QED
  BY <1>1, <1>2 DEF WorstOf

\* The next loss is the worst when it is deeper.
LEMMA WorseOf ==
  ASSUME NEW c, IsCurve(c), AllPositive(c), NEW n \in Nat, n + 1 \in 1..Len(c), NEW w, WorstOf(c, n, w)
  PROVE  WorstOf(c, n + 1, IF Deeper(LossAt(c, n + 1), w) THEN LossAt(c, n + 1) ELSE w)
<1> DEFINE x == LossAt(c, n + 1)
           v == IF Deeper(x, w) THEN x ELSE w
<1>1. Len(c) \in Nat /\ \A k \in 1..n : k \in 1..Len(c)
  BY DEF IsCurve
<1>2. \A k \in 1..n : IsLoss(LossAt(c, k))
  BY <1>1, LossIs
<1>3. IsLoss(x) /\ IsLoss(w)
  BY LossIs DEF WorstOf
<1>4. \A k \in 1..n : ~Deeper(LossAt(c, k), w)
  BY DEF WorstOf
<1> HIDE DEF x
<1>5. ASSUME NEW k \in 1..(n + 1) PROVE ~Deeper(LossAt(c, k), v)
  <2>1. CASE k = n + 1
    BY <1>3, <2>1, NoneIsShallow DEF x
  <2>2. CASE k # n + 1
    <3>1. k \in 1..n
      BY <2>2
    <3> DEFINE a == LossAt(c, k)
    <3>2. IsLoss(a) /\ ~Deeper(a, w)
      BY <1>2, <1>4, <3>1
    <3> HIDE DEF a
    <3>3. CASE Deeper(x, w)
      <4>1. a.lost * w.of <= w.lost * a.of /\ w.lost * x.of <= x.lost * w.of
        <5>1. ~(a.lost * w.of > w.lost * a.of) /\ x.lost * w.of > w.lost * x.of
          BY <3>2, <3>3, Zenon DEF Deeper
        <5>2. /\ a.lost * w.of \in Int /\ w.lost * a.of \in Int
              /\ x.lost * w.of \in Int /\ w.lost * x.of \in Int
          BY <1>3, <3>2, SMTT(20) DEF IsLoss
        <5> QED
          BY <5>1, <5>2
      <4>2. a.lost * x.of <= x.lost * a.of
        <5> DEFINE al == a.lost
                   ao == a.of
                   wl == w.lost
                   wo == w.of
                   xl == x.lost
                   xo == x.of
        <5>1. /\ al \in Int /\ ao \in Nat \ {0} /\ wl \in Int /\ wo \in Nat \ {0}
              /\ xl \in Int /\ xo \in Nat \ {0} /\ al * wo <= wl * ao /\ wl * xo <= xl * wo
          BY <1>3, <3>2, <4>1 DEF IsLoss
        <5> HIDE DEF al, ao, wl, wo, xl, xo
        <5>2. al * xo <= xl * ao
          BY <5>1, StaysShallower
        <5> QED
          BY <5>2 DEF al, ao, xl, xo
      <4>3. ~Deeper(a, x)
        BY <1>3, <3>2, <4>2 DEF Deeper, IsLoss
      <4> QED
        BY <3>3, <4>3 DEF a
    <3>4. CASE ~Deeper(x, w)
      BY <3>2, <3>4 DEF a
    <3> QED
      BY <3>3, <3>4
  <2> QED
    BY <2>1, <2>2
<1>6. v = None \/ \E k \in 1..(n + 1) : v = LossAt(c, k)
  <2>1. w = None \/ \E k \in 1..n : w = LossAt(c, k)
    BY DEF WorstOf
  <2>2. \A k \in 1..n : k \in 1..(n + 1)
    OBVIOUS
  <2>3. n + 1 \in 1..(n + 1) /\ x = LossAt(c, n + 1)
    BY DEF x
  <2> QED
    BY <2>1, <2>2, <2>3
<1>7. IsLoss(v)
  BY <1>3
<1>8. WorstOf(c, n + 1, v)
  BY <1>5, <1>6, <1>7 DEF WorstOf
<1> QED
  BY <1>8 DEF x

LEMMA WorstKept ==
  ASSUME NEW c, IsCurve(c), NEW p, NEW d, Longer(c, p, d), NEW w, WorstOf(c, Len(c), w)
  PROVE  WorstOf(d, Len(c), w)
BY PrefixKept DEF WorstOf

(***************************************************************************)
(* What the tracker knows of the curve.                                    *)
(***************************************************************************)
IsTracker(t) ==
  t = [peak |-> t.peak, peakTime |-> t.peakTime, current |-> t.current, worst |-> t.worst,
       underwater |-> t.underwater, longest |-> t.longest, episodes |-> t.episodes,
       inEpisode |-> t.inEpisode, active |-> t.active, begun |-> t.begun]
IsEpisode(x) ==
  x = [peakTime |-> x.peakTime, peak |-> x.peak, troughTime |-> x.troughTime, trough |-> x.trough,
       recovered |-> x.recovered]

KnowsPeak(c, t) ==
  LET n == Len(c)
  IN  /\ t.inEpisode \in BOOLEAN
      /\ n = 0 => ~t.begun /\ ~t.inEpisode
      /\ n > 0 => /\ t.begun /\ t.peak = GreatestAt(c, n) /\ (t.inEpisode <=> n \in UnderPeak(c))
                  /\ t.peakTime \in Int /\ t.peakTime <= c[n].at
                  /\ ~t.inEpisode => t.peakTime = c[n].at

\* An episode that has begun: since its peak the curve is between its trough and it.
KnowsEpisode(c, t) ==
  t.inEpisode =>
    /\ IsEpisode(t.active) /\ t.active.peak = t.peak /\ t.active.peakTime = t.peakTime
    /\ t.active.trough \in Int
    /\ \A k \in 1..Len(c) : t.peakTime < c[k].at =>
                               t.active.trough <= c[k].equity /\ c[k].equity < t.peak

Lasts(c, ep) ==
  \A k \in 1..Len(c) : (ep.peakTime < c[k].at /\ c[k].at < ep.recovered) =>
                          ep.trough <= c[k].equity /\ c[k].equity < ep.peak

KnowsEpisodes(c, t) ==
  /\ \E S : t.episodes \in Seq(S)
  /\ IsFiniteSet(RecoveriesOf(c)) /\ Len(t.episodes) = Cardinality(RecoveriesOf(c))
  /\ \A i \in 1..Len(t.episodes) :
       /\ Len(c) > 0 /\ t.episodes[i].recovered \in Int /\ t.episodes[i].recovered <= c[Len(c)].at
       /\ Lasts(c, t.episodes[i])

KnowsRuns(c, t) ==
  LET n == Len(c)
  IN  /\ t.underwater \in Nat /\ t.underwater <= n
      /\ \A k \in (n + 1 - t.underwater)..n : k \in UnderPeak(c)
      /\ t.longest \in Nat
      /\ t.longest > 0 => \E from \in 1..n : /\ from + t.longest - 1 <= n
                                             /\ from..(from + t.longest - 1) \subseteq UnderPeak(c)

Knows(c, t) ==
  /\ IsTracker(t) /\ KnowsPeak(c, t) /\ KnowsEpisode(c, t) /\ KnowsEpisodes(c, t)
  /\ KnowsRuns(c, t) /\ WorstOf(c, Len(c), t.worst)

(***************************************************************************)
(* What an update leaves: at a new high, and below it.                     *)
(***************************************************************************)
LEMMA AtNewHigh ==
  ASSUME NEW t, IsTracker(t), NEW at, NEW e, AtPeak(t, e)
  PROVE  TrackedAt(t, at, e) =
           [peak |-> e, peakTime |-> at, current |-> None, worst |-> t.worst, underwater |-> 0,
            longest |-> t.longest,
            episodes |-> IF t.inEpisode THEN Append(t.episodes, [t.active EXCEPT !.recovered = at])
                         ELSE t.episodes,
            inEpisode |-> FALSE, active |-> t.active, begun |-> TRUE]
<1> DEFINE yes == TRUE
           no == FALSE
           closed == IF t.inEpisode THEN Append(t.episodes, [t.active EXCEPT !.recovered = at])
                     ELSE t.episodes
           t1 == [t EXCEPT !.peak = e]
           t2 == [t1 EXCEPT !.peakTime = at]
           t3 == [t2 EXCEPT !.current = None]
           t4 == [t3 EXCEPT !.underwater = 0]
           t5 == [t4 EXCEPT !.begun = yes]
           t6 == [t5 EXCEPT !.inEpisode = no]
           t7 == [t6 EXCEPT !.episodes = closed]
           R(peak, peakTime, current, underwater, begun, inEpisode, episodes) ==
             [peak |-> peak, peakTime |-> peakTime, current |-> current, worst |-> t.worst,
              underwater |-> underwater, longest |-> t.longest, episodes |-> episodes,
              inEpisode |-> inEpisode, active |-> t.active, begun |-> begun]
<1>1. t = R(t.peak, t.peakTime, t.current, t.underwater, t.begun, t.inEpisode, t.episodes)
  BY DEF IsTracker
<1>2. t1 = R(e, t.peakTime, t.current, t.underwater, t.begun, t.inEpisode, t.episodes)
  BY <1>1
<1>3. t6.episodes = t.episodes
  <2>1. t1.episodes = t.episodes /\ DOMAIN t1 = DOMAIN t
    BY <1>1
  <2> QED
    BY <1>1, <2>1
<1>4. TrackedAt(t, at, e) = t7
  BY <1>3 DEF TrackedAt
<1> HIDE DEF t1, yes, no
<1>5. t2 = R(e, at, t.current, t.underwater, t.begun, t.inEpisode, t.episodes)
  BY <1>2
<1> HIDE DEF t2
<1>6. t3 = R(e, at, None, t.underwater, t.begun, t.inEpisode, t.episodes)
  BY <1>5
<1> HIDE DEF t3
<1>7. t4 = R(e, at, None, 0, t.begun, t.inEpisode, t.episodes)
  BY <1>6
<1> HIDE DEF t4
<1>8. t5 = R(e, at, None, 0, yes, t.inEpisode, t.episodes)
  BY <1>7
<1> HIDE DEF t5
<1>9. t6 = R(e, at, None, 0, yes, no, t.episodes)
  BY <1>8
<1> HIDE DEF t6
<1>10. t7 = R(e, at, None, 0, yes, no, closed)
  BY <1>9
<1> HIDE DEF t7
<1> QED
  BY <1>4, <1>10 DEF yes, no

LossNow(t, e) == IF t.peak > 0 THEN [lost |-> t.peak - e, of |-> t.peak] ELSE None

ActiveNow(t, at, e) ==
  CASE ~t.inEpisode -> [peakTime |-> t.peakTime, peak |-> t.peak, troughTime |-> at, trough |-> e,
                        recovered |-> 0]
    [] t.inEpisode /\ e < t.active.trough -> [t.active EXCEPT !.troughTime = at, !.trough = e]
    [] OTHER -> t.active

LEMMA BelowHigh ==
  ASSUME NEW t, IsTracker(t), NEW at, NEW e, ~AtPeak(t, e)
  PROVE  TrackedAt(t, at, e) =
           [peak |-> t.peak, peakTime |-> t.peakTime, current |-> LossNow(t, e),
            worst |-> IF Deeper(LossNow(t, e), t.worst) THEN LossNow(t, e) ELSE t.worst,
            underwater |-> t.underwater + 1, longest |-> Larger(t.longest, t.underwater + 1),
            episodes |-> t.episodes, inEpisode |-> TRUE, active |-> ActiveNow(t, at, e),
            begun |-> t.begun]
<1> DEFINE yes == TRUE
           loss == LossNow(t, e)
           act == ActiveNow(t, at, e)
           deepest == IF Deeper(loss, t.worst) THEN loss ELSE t.worst
           t1 == [t EXCEPT !.current = loss]
           t2 == [t1 EXCEPT !.underwater = t.underwater + 1]
           t3 == [t2 EXCEPT !.longest = Larger(t.longest, t.underwater + 1)]
           t4 == [t3 EXCEPT !.inEpisode = yes]
           t5 == [t4 EXCEPT !.active = act]
           t6 == [t5 EXCEPT !.worst = deepest]
           R(current, underwater, longest, inEpisode, active, worst) ==
             [peak |-> t.peak, peakTime |-> t.peakTime, current |-> current, worst |-> worst,
              underwater |-> underwater, longest |-> longest, episodes |-> t.episodes,
              inEpisode |-> inEpisode, active |-> active, begun |-> t.begun]
<1>1. t = R(t.current, t.underwater, t.longest, t.inEpisode, t.active, t.worst)
  BY DEF IsTracker
<1>2. t1.underwater = t.underwater /\ t2.longest = t.longest /\ t4.active = t.active /\ t5.worst = t.worst
  BY <1>1
<1>3. TrackedAt(t, at, e) = t6
  BY <1>2 DEF TrackedAt, LossNow, ActiveNow
<1> HIDE DEF yes, loss, act, deepest
<1>4. t1 = R(loss, t.underwater, t.longest, t.inEpisode, t.active, t.worst)
  BY <1>1
<1> HIDE DEF t1
<1>5. t2 = R(loss, t.underwater + 1, t.longest, t.inEpisode, t.active, t.worst)
  BY <1>4
<1> HIDE DEF t2
<1>6. t3 = R(loss, t.underwater + 1, Larger(t.longest, t.underwater + 1), t.inEpisode, t.active, t.worst)
  BY <1>5
<1> HIDE DEF t3
<1>7. t4 = R(loss, t.underwater + 1, Larger(t.longest, t.underwater + 1), yes, t.active, t.worst)
  BY <1>6
<1> HIDE DEF t4
<1>8. t5 = R(loss, t.underwater + 1, Larger(t.longest, t.underwater + 1), yes, act, t.worst)
  BY <1>7
<1> HIDE DEF t5
<1>9. t6 = R(loss, t.underwater + 1, Larger(t.longest, t.underwater + 1), yes, act, deepest)
  BY <1>8
<1> HIDE DEF t6
<1> QED
  BY <1>3, <1>9 DEF yes, loss, act, deepest

(***************************************************************************)
(* An episode that ended before the last point stays as it was.            *)
(***************************************************************************)
LEMMA LastsOn ==
  ASSUME NEW c, IsCurve(c), NEW p, p.at \in Int, NEW d, Longer(c, p, d),
         NEW ep, ep.recovered \in Int, ep.recovered <= p.at, Lasts(c, ep)
  PROVE  Lasts(d, ep)
<1> SUFFICES ASSUME NEW k \in 1..Len(d), ep.peakTime < d[k].at, d[k].at < ep.recovered
             PROVE  ep.trough <= d[k].equity /\ d[k].equity < ep.peak
  BY DEF Lasts
<1>1. k # Len(c) + 1
  BY DEF Longer
<1>2. k \in 1..Len(c) /\ d[k] = c[k]
  BY <1>1 DEF Longer
<1> QED
  BY <1>2 DEF Lasts

(***************************************************************************)
(* A new high closes the episode.                                          *)
(***************************************************************************)
LEMMA HighKeeps ==
  ASSUME NEW c, IsCurve(c), AllPositive(c), NEW t, Knows(c, t),
         NEW p, p.at \in Int, p.equity \in Int, \A k \in 1..Len(c) : c[k].at <= p.at,
         NEW d, Longer(c, p, d), AllPositive(d), AtPeak(t, p.equity)
  PROVE  Knows(d, TrackedAt(t, p.at, p.equity))
<1> DEFINE n == Len(c)
           e == p.equity
           at == p.at
           u == TrackedAt(t, at, e)
           ended == [t.active EXCEPT !.recovered = at]
           closed == IF t.inEpisode THEN Append(t.episodes, ended) ELSE t.episodes
<1>1. n \in Nat /\ Len(d) = n + 1 /\ d[n + 1] = p /\ \A k \in 1..n : d[k] = c[k]
  BY DEF Longer
<1>2. n > 0 => n \in 1..n /\ c[n].at <= at /\ c[n].at \in Int
  BY <1>1 DEF IsCurve
<1>3. /\ u.peak = e /\ u.peakTime = at /\ u.worst = t.worst /\ u.underwater = 0
      /\ u.longest = t.longest /\ u.episodes = closed /\ ~u.inEpisode /\ u.begun
      /\ u.inEpisode \in BOOLEAN /\ IsTracker(u)
  <2> DEFINE yes == TRUE
             no == FALSE
  <2>1. u = [peak |-> e, peakTime |-> at, current |-> None, worst |-> t.worst, underwater |-> 0,
             longest |-> t.longest, episodes |-> closed, inEpisode |-> no, active |-> t.active,
             begun |-> yes]
    BY AtNewHigh DEF Knows
  <2>2. no = FALSE /\ yes = TRUE /\ no \in BOOLEAN
    OBVIOUS
  <2> HIDE DEF u, closed, ended, yes, no
  <2>3. /\ u.peak = e /\ u.peakTime = at /\ u.worst = t.worst /\ u.underwater = 0
        /\ u.longest = t.longest /\ u.episodes = closed /\ u.inEpisode = no /\ u.begun = yes
        /\ IsTracker(u)
    BY <2>1 DEF IsTracker
  <2> QED
    BY <2>2, <2>3
<1> HIDE DEF u, closed, ended
<1>4. ~(n > 0 /\ e < GreatestAt(c, n))
  <2> SUFFICES ASSUME n > 0, e < GreatestAt(c, n) PROVE FALSE
    OBVIOUS
  <2>1. t.begun /\ t.peak = GreatestAt(c, n)
    BY DEF Knows, KnowsPeak
  <2>2. GreatestAt(c, n) \in Int
    BY <1>2, GreatestIs DEF IsGreatest
  <2> QED
    BY <2>1, <2>2 DEF AtPeak
<1>5. UnderPeak(d) = UnderPeak(c) /\ n + 1 \notin UnderPeak(d)
  <2>1. UnderPeak(d) = UnderPeak(c) \cup (IF n > 0 /\ e < GreatestAt(c, n) THEN {n + 1} ELSE {})
    BY UnderAfter
  <2>2. \A k \in UnderPeak(c) : k \in 1..n
    BY DEF UnderPeak
  <2> QED
    BY <1>1, <1>4, <2>1, <2>2
<1>6. RecoveriesOf(d) = RecoveriesOf(c) \cup (IF n \in UnderPeak(c) THEN {n + 1} ELSE {})
  BY <1>4, UnderAfter
<1>7. GreatestAt(d, n + 1) = e
  <2>1. GreatestAt(d, n + 1) = IF n = 0 THEN e ELSE Larger(GreatestAt(c, n), e)
    BY LastPoint
  <2>2. n > 0 => GreatestAt(c, n) \in Int
    BY <1>2, GreatestIs DEF IsGreatest
  <2> QED
    BY <1>1, <1>4, <2>1, <2>2 DEF Larger
<1>8. KnowsPeak(d, u)
  BY <1>1, <1>3, <1>5, <1>7 DEF KnowsPeak
<1>9. KnowsEpisode(d, u)
  BY <1>3 DEF KnowsEpisode
<1>10. t.inEpisode <=> n \in UnderPeak(c)
  <2>1. CASE n = 0
    <3>1. n \notin UnderPeak(c)
      BY <1>1, <2>1 DEF UnderPeak
    <3> QED
      BY <2>1, <3>1 DEF Knows, KnowsPeak
  <2>2. CASE n > 0
    BY <2>2 DEF Knows, KnowsPeak
  <2> QED
    BY <1>1, <2>1, <2>2
<1>11. KnowsEpisodes(d, u)
  <2> DEFINE eps == t.episodes
             m == Len(eps)
  <2>1. PICK S : eps \in Seq(S)
    BY DEF Knows, KnowsEpisodes
  <2>2. m \in Nat /\ IsFiniteSet(RecoveriesOf(c)) /\ m = Cardinality(RecoveriesOf(c))
    BY <2>1 DEF Knows, KnowsEpisodes
  <2>3. ASSUME NEW i \in 1..m
        PROVE  eps[i].recovered \in Int /\ eps[i].recovered <= at /\ Lasts(d, eps[i])
    <3>1. n > 0 /\ eps[i].recovered \in Int /\ eps[i].recovered <= c[n].at /\ Lasts(c, eps[i])
      BY DEF Knows, KnowsEpisodes
    <3>2. eps[i].recovered <= at
      BY <1>2, <3>1
    <3> QED
      BY <3>1, <3>2, LastsOn
  <2>4. Len(d) > 0 /\ d[Len(d)].at = at
    BY <1>1
  <2>5. CASE ~t.inEpisode
    <3>1. u.episodes = eps /\ RecoveriesOf(d) = RecoveriesOf(c)
      BY <1>3, <1>6, <1>10, <2>5 DEF closed
    <3> HIDE DEF eps
    <3> QED
      BY <2>1, <2>2, <2>3, <2>4, <3>1 DEF KnowsEpisodes
  <2>6. CASE t.inEpisode
    <3> DEFINE T == S \cup {ended}
               more == Append(eps, ended)
    <3>1. u.episodes = more /\ RecoveriesOf(d) = RecoveriesOf(c) \cup {n + 1}
      BY <1>3, <1>6, <1>10, <2>6 DEF closed
    <3>2. eps \in Seq(T) /\ ended \in T
      <4>1. eps \in [1..m -> S] /\ m \in Nat
        BY <2>1
      <4>2. eps \in [1..m -> T]
        BY <4>1
      <4> QED
        BY <4>1, <4>2, SeqDef
    <3> HIDE DEF T, eps
    <3>3. /\ more \in Seq(T) /\ Len(more) = m + 1
          /\ \A i \in 1..m : more[i] = eps[i]
          /\ more[m + 1] = ended
      BY <3>2, AppendProperties
    <3>4. n + 1 \notin RecoveriesOf(c)
      BY <1>1 DEF RecoveriesOf
    <3>5. IsFiniteSet(RecoveriesOf(d)) /\ Cardinality(RecoveriesOf(d)) = m + 1
      BY <2>2, <3>1, <3>4, FS_AddElement
    <3>6. ended.recovered = at /\ Lasts(d, ended)
      <4>1. IsEpisode(t.active) /\ t.active.peak = t.peak /\ t.active.peakTime = t.peakTime
        BY <2>6 DEF Knows, KnowsEpisode
      <4>2. /\ ended.recovered = at /\ ended.peak = t.peak /\ ended.peakTime = t.peakTime
            /\ ended.trough = t.active.trough
        BY <4>1 DEF ended, IsEpisode
      <4>3. \A k \in 1..n : t.peakTime < c[k].at =>
                              t.active.trough <= c[k].equity /\ c[k].equity < t.peak
        BY <2>6 DEF Knows, KnowsEpisode
      <4>4. ASSUME NEW k \in 1..Len(d), t.peakTime < d[k].at, d[k].at < at
            PROVE  t.active.trough <= d[k].equity /\ d[k].equity < t.peak
        <5>1. k # n + 1
          BY <1>1, <4>4
        <5>2. k \in 1..n
          BY <1>1, <5>1
        <5> QED
          BY <1>1, <4>3, <4>4, <5>2
      <4> QED
        BY <4>2, <4>4 DEF Lasts
    <3> HIDE DEF more, m
    <3>7. \A i \in 1..Len(more) : more[i].recovered \in Int /\ more[i].recovered <= at /\ Lasts(d, more[i])
      <4> TAKE i \in 1..Len(more)
      <4>1. CASE i = m + 1
        BY <3>3, <3>6, <4>1
      <4>2. CASE i # m + 1
        <5>1. i \in 1..m
          BY <2>2, <3>3, <4>2
        <5> QED
          BY <2>3, <3>3, <5>1
      <4> QED
        BY <4>1, <4>2
    <3> QED
      BY <2>4, <3>1, <3>3, <3>5, <3>7 DEF KnowsEpisodes
  <2> QED
    BY <2>5, <2>6
<1>12. KnowsRuns(d, u)
  <2>1. t.longest \in Nat
    BY DEF Knows, KnowsRuns
  <2>2. ASSUME t.longest > 0
        PROVE  \E from \in 1..(n + 1) : /\ from + t.longest - 1 <= n + 1
                                        /\ from..(from + t.longest - 1) \subseteq UnderPeak(c)
    <3>1. PICK from \in 1..n : /\ from + t.longest - 1 <= n
                               /\ from..(from + t.longest - 1) \subseteq UnderPeak(c)
      BY <2>2 DEF Knows, KnowsRuns
    <3>2. from \in 1..(n + 1) /\ from + t.longest - 1 <= n + 1
      BY <1>1, <2>1, <3>1
    <3> QED
      BY <3>1, <3>2
  <2>3. (n + 1 + 1 - 0)..(n + 1) = {}
    BY <1>1
  <2> HIDE DEF n
  <2> QED
    BY <1>1, <1>3, <1>5, <2>1, <2>2, <2>3 DEF KnowsRuns
<1>13. WorstOf(d, n + 1, u.worst)
  <2> DEFINE x == LossAt(d, n + 1)
  <2>1. WorstOf(d, n + 1, IF Deeper(x, t.worst) THEN x ELSE t.worst)
    BY <1>1, WorstKept, WorseOf DEF Knows, Longer
  <2>2. x.lost = e - e /\ x.of = e
    BY <1>1, <1>7 DEF LossAt
  <2>3. e > 0 /\ e \in Int /\ IsLoss(t.worst)
    BY <1>1 DEF AllPositive, Knows, WorstOf
  <2> HIDE DEF x
  <2>4. ~Deeper(x, t.worst)
    <3>1. x.lost = 0
      BY <2>2, <2>3
    <3>2. 0 * t.worst.of = 0 /\ t.worst.lost * e >= 0 /\ t.worst.lost * e \in Int
      BY <2>3 DEF IsLoss
    <3> QED
      BY <2>2, <3>1, <3>2 DEF Deeper
  <2> QED
    BY <1>3, <2>1, <2>4
<1>14. Knows(d, u)
  BY <1>1, <1>3, <1>8, <1>9, <1>11, <1>12, <1>13 DEF Knows
<1> QED
  BY <1>14 DEF u

(***************************************************************************)
(* A point below the peak opens an episode or stays in it.                 *)
(***************************************************************************)
LEMMA BelowKeeps ==
  ASSUME NEW c, IsCurve(c), AllPositive(c), NEW t, Knows(c, t),
         NEW p, p.at \in Int, p.equity \in Int, \A k \in 1..Len(c) : c[k].at <= p.at,
         NEW d, Longer(c, p, d), AllPositive(d), ~AtPeak(t, p.equity)
  PROVE  Knows(d, TrackedAt(t, p.at, p.equity))
<1> DEFINE n == Len(c)
           e == p.equity
           at == p.at
           u == TrackedAt(t, at, e)
           loss == LossNow(t, e)
           act == ActiveNow(t, at, e)
           under == t.underwater + 1
<1>1. n \in Nat /\ Len(d) = n + 1 /\ d[n + 1] = p /\ \A k \in 1..n : d[k] = c[k]
  BY DEF Longer
<1>2. n > 0 /\ n \in 1..n /\ t.begun /\ e < t.peak /\ t.peak = GreatestAt(c, n) /\ t.peak \in Int
  <2>1. t.begun /\ ~(e >= t.peak)
    BY DEF AtPeak
  <2>2. n > 0 /\ n \in 1..n /\ t.peak = GreatestAt(c, n)
    BY <1>1, <2>1 DEF Knows, KnowsPeak
  <2>3. t.peak \in Int
    BY <2>2, GreatestIs DEF IsGreatest
  <2> QED
    BY <2>1, <2>2, <2>3
<1>3. c[n].at \in Int /\ c[n].at <= at /\ e > 0 /\ t.peakTime \in Int /\ t.peakTime <= c[n].at
  BY <1>1, <1>2 DEF IsCurve, AllPositive, Knows, KnowsPeak
<1>4. /\ u.peak = t.peak /\ u.peakTime = t.peakTime /\ u.underwater = under
      /\ u.worst = (IF Deeper(loss, t.worst) THEN loss ELSE t.worst)
      /\ u.longest = Larger(t.longest, under) /\ u.episodes = t.episodes /\ u.inEpisode /\ u.begun
      /\ u.active = act /\ u.inEpisode \in BOOLEAN /\ IsTracker(u)
  <2> DEFINE yes == TRUE
             worse == IF Deeper(loss, t.worst) THEN loss ELSE t.worst
  <2>1. u = [peak |-> t.peak, peakTime |-> t.peakTime, current |-> loss, worst |-> worse,
             underwater |-> under, longest |-> Larger(t.longest, under), episodes |-> t.episodes,
             inEpisode |-> yes, active |-> act, begun |-> t.begun]
    BY BelowHigh DEF Knows
  <2>2. yes = TRUE /\ yes \in BOOLEAN
    OBVIOUS
  <2> HIDE DEF u, loss, act, under, yes, worse
  <2>3. /\ u.peak = t.peak /\ u.peakTime = t.peakTime /\ u.underwater = under /\ u.worst = worse
        /\ u.longest = Larger(t.longest, under) /\ u.episodes = t.episodes /\ u.inEpisode = yes
        /\ u.begun = t.begun /\ u.active = act /\ IsTracker(u)
    BY <2>1 DEF IsTracker
  <2> QED
    BY <1>2, <2>2, <2>3 DEF worse
<1> HIDE DEF u, loss, act, under
<1>5. UnderPeak(d) = UnderPeak(c) \cup {n + 1} /\ RecoveriesOf(d) = RecoveriesOf(c)
  <2>1. n > 0 /\ e < GreatestAt(c, n)
    BY <1>2
  <2>2. /\ UnderPeak(d) = UnderPeak(c) \cup (IF n > 0 /\ e < GreatestAt(c, n) THEN {n + 1} ELSE {})
        /\ RecoveriesOf(d) = RecoveriesOf(c) \cup
             (IF n \in UnderPeak(c) /\ ~(n > 0 /\ e < GreatestAt(c, n)) THEN {n + 1} ELSE {})
    BY UnderAfter
  <2> QED
    BY <2>1, <2>2
<1>6. GreatestAt(d, n + 1) = t.peak
  <2>1. GreatestAt(d, n + 1) = Larger(GreatestAt(c, n), e)
    BY <1>2, LastPoint
  <2> QED
    BY <1>2, <2>1 DEF Larger
<1>7. KnowsPeak(d, u)
  <2>1. d[n + 1].at = at /\ t.peakTime <= at
    BY <1>1, <1>3
  <2>2. n + 1 \in UnderPeak(d)
    BY <1>5
  <2> QED
    BY <1>1, <1>3, <1>4, <1>6, <2>1, <2>2 DEF KnowsPeak
<1>8. KnowsEpisode(d, u)
  <2> DEFINE Between(trough) == \A k \in 1..Len(d) : t.peakTime < d[k].at =>
                                   trough <= d[k].equity /\ d[k].equity < t.peak
  <2>1. ASSUME NEW trough \in Int, trough <= e,
               \A k \in 1..n : t.peakTime < c[k].at => trough <= c[k].equity /\ c[k].equity < t.peak
        PROVE  Between(trough)
    <3> TAKE k \in 1..Len(d)
    <3>1. CASE k = n + 1
      BY <1>1, <1>2, <2>1, <3>1
    <3>2. CASE k # n + 1
      <4>1. k \in 1..n
        BY <1>1, <3>2
      <4> QED
        BY <1>1, <2>1, <4>1
    <3> QED
      BY <3>1, <3>2
  <2>2. CASE ~t.inEpisode
    <3>1. act = [peakTime |-> t.peakTime, peak |-> t.peak, troughTime |-> at, trough |-> e, recovered |-> 0]
      BY <2>2, Zenon DEF act, ActiveNow
    <3>2. t.peakTime = c[n].at
      BY <1>2, <2>2 DEF Knows, KnowsPeak
    <3>3. \A k \in 1..n : ~(t.peakTime < c[k].at)
      BY <1>2, <3>2 DEF IsCurve
    <3>4. Between(e)
      BY <2>1, <3>3
    <3>5. /\ IsEpisode(act) /\ act.peak = t.peak /\ act.peakTime = t.peakTime /\ act.trough = e
      BY <3>1 DEF IsEpisode
    <3> HIDE DEF Between
    <3>6. KnowsEpisode(d, u) <=> Between(e)
      BY <1>4, <3>5 DEF KnowsEpisode, Between
    <3> QED
      BY <3>4, <3>6
  <2>3. CASE t.inEpisode
    <3> DEFINE old == t.active
    <3>1. /\ IsEpisode(old) /\ old.peak = t.peak /\ old.peakTime = t.peakTime /\ old.trough \in Int
          /\ \A k \in 1..n : t.peakTime < c[k].at => old.trough <= c[k].equity /\ c[k].equity < t.peak
      BY <2>3 DEF Knows, KnowsEpisode
    <3>2. CASE e < old.trough
      <4> DEFINE mid == [old EXCEPT !.troughTime = at]
      <4>1. act = [mid EXCEPT !.trough = e]
        BY <2>3, <3>2 DEF act, ActiveNow
      <4>2. mid = [peakTime |-> old.peakTime, peak |-> old.peak, troughTime |-> at,
                   trough |-> old.trough, recovered |-> old.recovered]
        BY <3>1 DEF IsEpisode
      <4> HIDE DEF mid
      <4>3. act = [peakTime |-> old.peakTime, peak |-> old.peak, troughTime |-> at, trough |-> e,
                   recovered |-> old.recovered]
        BY <4>1, <4>2
      <4>4. IsEpisode(act) /\ act.peak = t.peak /\ act.peakTime = t.peakTime /\ act.trough = e
        BY <3>1, <4>3 DEF IsEpisode
      <4>5. \A k \in 1..n : c[k].equity \in Int
        BY DEF IsCurve
      <4>8. old.trough \in Int /\ e \in Int /\ e < old.trough
        BY <2>1, <3>1, <3>2
      <4>9. ASSUME NEW k \in 1..n, t.peakTime < c[k].at PROVE e <= c[k].equity /\ c[k].equity < t.peak
        <5>1. c[k].equity \in Int /\ old.trough <= c[k].equity /\ c[k].equity < t.peak
          BY <3>1, <4>5, <4>9
        <5> HIDE DEF old
        <5> QED
          BY <4>8, <5>1
      <4>6. Between(e)
        BY <2>1, <4>8, <4>9, SMTT(30)
      <4> HIDE DEF Between, old
      <4>7. KnowsEpisode(d, u) <=> Between(e)
        BY <1>4, <4>4 DEF KnowsEpisode, Between
      <4> QED
        BY <4>6, <4>7
    <3>3. CASE ~(e < old.trough)
      <4>1. act = old
        BY <2>3, <3>3 DEF act, ActiveNow
      <4>2. Between(old.trough)
        BY <2>1, <3>1, <3>3
      <4> HIDE DEF Between, old
      <4>3. KnowsEpisode(d, u) <=> Between(old.trough)
        BY <1>4, <3>1, <4>1 DEF KnowsEpisode, Between
      <4> QED
        BY <4>2, <4>3
    <3> QED
      BY <3>2, <3>3
  <2> QED
    BY <2>2, <2>3
<1>9. KnowsEpisodes(d, u)
  <2> DEFINE eps == t.episodes
  <2>1. ASSUME NEW i \in 1..Len(eps)
        PROVE  eps[i].recovered \in Int /\ eps[i].recovered <= at /\ Lasts(d, eps[i])
    <3>1. eps[i].recovered \in Int /\ eps[i].recovered <= c[n].at /\ Lasts(c, eps[i])
      BY DEF Knows, KnowsEpisodes
    <3>2. eps[i].recovered <= at
      BY <1>3, <3>1
    <3> QED
      BY <3>1, <3>2, LastsOn
  <2>2. Len(d) > 0 /\ d[Len(d)].at = at
    BY <1>1
  <2>3. /\ \E S : eps \in Seq(S)
        /\ IsFiniteSet(RecoveriesOf(c)) /\ Len(eps) = Cardinality(RecoveriesOf(c))
    BY DEF Knows, KnowsEpisodes
  <2>4. u.episodes = eps
    BY <1>4
  <2> HIDE DEF eps
  <2> QED
    BY <1>5, <2>1, <2>2, <2>3, <2>4 DEF KnowsEpisodes
<1>10. KnowsRuns(d, u)
  <2>1. /\ t.underwater \in Nat /\ t.underwater <= n /\ t.longest \in Nat
        /\ \A k \in (n + 1 - t.underwater)..n : k \in UnderPeak(c)
    BY DEF Knows, KnowsRuns
  <2>2. under \in Nat /\ under > 0 /\ under <= n + 1 /\ (n + 1) + 1 - under = n + 1 - t.underwater
    BY <1>1, <2>1 DEF under
  <2>3. \A k \in (n + 1 - t.underwater)..(n + 1) : k \in UnderPeak(d)
    <3> TAKE k \in (n + 1 - t.underwater)..(n + 1)
    <3>1. k = n + 1 \/ k \in (n + 1 - t.underwater)..n
      BY <1>1, <2>1
    <3> QED
      BY <1>5, <2>1, <3>1
  <2> DEFINE Run(from, length) == /\ from \in 1..(n + 1) /\ from + length - 1 <= n + 1
                                  /\ from..(from + length - 1) \subseteq UnderPeak(d)
             best == Larger(t.longest, under)
  <2>4. Run(n + 1 - t.underwater, under)
    <3>1. n + 1 - t.underwater \in 1..(n + 1) /\ (n + 1 - t.underwater) + under - 1 = n + 1
      BY <1>1, <2>1 DEF under
    <3> HIDE DEF n
    <3> QED
      BY <2>3, <3>1, <1>1
  <2>5. t.longest > 0 => \E from \in 1..n : Run(from, t.longest)
    <3> SUFFICES ASSUME t.longest > 0 PROVE \E from \in 1..n : Run(from, t.longest)
      OBVIOUS
    <3>1. PICK from \in 1..n : /\ from + t.longest - 1 <= n
                               /\ from..(from + t.longest - 1) \subseteq UnderPeak(c)
      BY DEF Knows, KnowsRuns
    <3>2. from \in 1..(n + 1) /\ from + t.longest - 1 <= n + 1
      BY <1>1, <2>1, <3>1
    <3>3. Run(from, t.longest)
      BY <1>5, <3>1, <3>2
    <3> QED
      BY <3>3
  <2>6. best \in Nat /\ (best = t.longest \/ best = under) /\ best > 0
    BY <2>1, <2>2 DEF Larger
  <2> HIDE DEF best, Run
  <2>7. \E from : Run(from, best)
    BY <2>4, <2>5, <2>6
  <2>8. \E from \in 1..(n + 1) : /\ from + best - 1 <= n + 1
                                 /\ from..(from + best - 1) \subseteq UnderPeak(d)
    BY <2>7 DEF Run
  <2>9. u.underwater = under /\ u.longest = best
    BY <1>4 DEF best
  <2> HIDE DEF n
  <2> QED
    BY <1>1, <2>2, <2>3, <2>6, <2>8, <2>9 DEF KnowsRuns
<1>11. WorstOf(d, n + 1, u.worst)
  <2>1. loss = LossAt(d, n + 1)
    <3>1. t.peak > 0
      BY <1>2, <1>3
    <3> QED
      BY <1>1, <1>6, <3>1 DEF loss, LossNow, LossAt
  <2>2. WorstOf(d, n + 1, IF Deeper(loss, t.worst) THEN loss ELSE t.worst)
    BY <1>1, <2>1, WorstKept, WorseOf DEF Knows, Longer
  <2> QED
    BY <1>4, <2>2
<1>12. Knows(d, u)
  BY <1>1, <1>4, <1>7, <1>8, <1>9, <1>10, <1>11 DEF Knows
<1> QED
  BY <1>12 DEF u

(***************************************************************************)
(* The rolling drawdown over a window as long as the curve goes through    *)
(* its points one by one.                                                  *)
(***************************************************************************)
RollingBase == [peak |-> -1, worst |-> None]
RollingStates == [peak: Int, worst: [lost: Int, of: Int]]

RollingFold(s, g) ==
  g = [S \in SUBSET DOMAIN s |-> IF S = {} THEN RollingBase ELSE RollingStep(g[S \ {Max(S)}], s[Max(S)])]

Rolled(s) == FoldLeft(RollingStep, RollingBase, s)

\* What is known on the way through the points.
RolledOn(t, s, n) ==
  /\ t[0] = RollingBase /\ Rolled(s) = t[n]
  /\ \A i \in 1..n : t[i] = RollingStep(t[i - 1], s[i])

\* What the definitions of the fold come to.
LEMMA RolledIsFold ==
  ASSUME NEW s
  PROVE  Rolled(s) = (CHOOSE g : RollingFold(s, g))[DOMAIN s]
BY DEF Rolled, FoldLeft, MapThenFoldSet, RollingFold

\* There is such a way for any points.
LEMMA RollingTrace ==
  ASSUME NEW s, NEW n \in Nat, DOMAIN s = 1..n, \A i \in 1..n : s[i].equity \in Int
  PROVE  \E t : RolledOn(t, s, n)
<1> DEFINE A == RollingStates
           F == [i \in 1..n |-> [a \in A |-> RollingStep(a, s[i])]]
           C == [S \in SUBSET (1..n) |-> Max(S)]
           D == 1..n
           base == RollingBase
<1>1. IsFiniteSet(D) /\ base \in A
  BY FS_Interval DEF RollingBase, RollingStates, None
<1>2. \A S \in SUBSET D : S # {} => C[S] \in S /\ C[S] = Max(S)
  BY LargestIn
<1>3. \A i \in D : \A a \in A : F[i][a] \in A /\ F[i][a] = RollingStep(a, s[i])
  <2> TAKE i \in D
  <2> TAKE a \in A
  <2> DEFINE b == RollingStep(a, s[i])
             peak == Larger(a.peak, s[i].equity)
             here == [lost |-> peak - s[i].equity, of |-> peak]
  <2>1. a.peak \in Int /\ a.worst \in [lost: Int, of: Int] /\ s[i].equity \in Int
    BY DEF RollingStates
  <2>2. peak \in Int
    BY <2>1 DEF Larger
  <2> HIDE DEF peak
  <2>3. here \in [lost: Int, of: Int]
    BY <2>1, <2>2
  <2>4. b = [peak |-> peak, worst |-> IF peak > 0 /\ Deeper(here, a.worst) THEN here ELSE a.worst]
    BY DEF RollingStep, peak
  <2> HIDE DEF here, b
  <2>5. b \in A
    BY <2>1, <2>2, <2>3, <2>4 DEF RollingStates
  <2>6. F[i][a] = b
    BY DEF b
  <2> QED
    BY <2>5, <2>6 DEF b
<1> HIDE DEF A, F, C, D, base
<1>4. PICK g : RecursiveOver(g, D, A, base, C, F)
  BY <1>1, <1>2, <1>3, RecursionOverSets
<1>5. RollingFold(s, g)
  <2>1. \A S \in SUBSET D : g[S] = IF S = {} THEN base ELSE RollingStep(g[S \ {Max(S)}], s[Max(S)])
    BY <1>2, <1>3, <1>4 DEF RecursiveOver
  <2>2. DOMAIN s = D
    BY DEF D
  <2> QED
    BY <1>4, <2>1, <2>2 DEF RollingFold, RecursiveOver, base
<1> DEFINE h == CHOOSE h : RollingFold(s, h)
           t == [i \in 0..n |-> h[1..i]]
<1>6. RollingFold(s, h)
  BY <1>5
<1>7. Rolled(s) = h[1..n]
  BY RolledIsFold
<1> HIDE DEF h
<1>8. \A S \in SUBSET (1..n) : h[S] = IF S = {} THEN RollingBase ELSE RollingStep(h[S \ {Max(S)}], s[Max(S)])
  BY <1>6 DEF RollingFold
<1>9. \A i \in 1..n : h[1..i] = RollingStep(h[1..(i - 1)], s[i])
  BY <1>8, LastOfSegment
<1>10. h[1..0] = RollingBase
  <2>1. 1..0 = {}
    OBVIOUS
  <2> QED
    BY <1>8, <2>1
<1>11. t[0] = RollingBase /\ Rolled(s) = t[n] /\ \A i \in 1..n : t[i] = RollingStep(t[i - 1], s[i])
  <2>1. \A i \in 1..n : t[i] = h[1..i] /\ t[i - 1] = h[1..(i - 1)]
    OBVIOUS
  <2> QED
    BY <1>7, <1>9, <1>10, <2>1
<1> HIDE DEF t
<1> QED
  BY <1>11 DEF RolledOn

LEMMA RollingIsWorst ==
  ASSUME NEW c, IsCurve(c), AllPositive(c), NEW n \in Nat, n = Len(c), n > 0
  PROVE  WorstOf(c, n, RollingDrawdown(c, n))
<1> DEFINE s == SubSeq(c, 1, n)
<1>1. PICK S : c \in Seq(S)
  BY DEF IsCurve
<1>2. \A i \in 1..n : c[i] \in S /\ c[i].equity \in Int
  BY <1>1 DEF IsCurve
<1>3. s \in Seq(S) /\ Len(s) = n /\ \A i \in 1..n : s[i] = c[i]
  BY <1>2, SubSeqProperties
<1>4. DOMAIN s = 1..n
  BY <1>3
<1>5. RollingDrawdown(c, n) = Rolled(s).worst
  <2>1. n >= n /\ n + 1 - n = 1
    OBVIOUS
  <2> QED
    BY <2>1 DEF RollingDrawdown, Rolled, RollingBase
<1> HIDE DEF s
<1>6. PICK t : RolledOn(t, s, n)
  BY <1>2, <1>3, <1>4, RollingTrace
<1>7. t[0] = RollingBase /\ Rolled(s) = t[n] /\ \A i \in 1..n : t[i] = RollingStep(t[i - 1], c[i])
  BY <1>3, <1>6 DEF RolledOn
<1> DEFINE P == {i \in Nat : i <= n => /\ WorstOf(c, i, t[i].worst)
                                       /\ t[i].peak = IF i = 0 THEN -1 ELSE GreatestAt(c, i)}
<1>8. 0 \in P
  <2>1. t[0].worst = None /\ t[0].peak = -1
    BY <1>7 DEF RollingBase
  <2>2. WorstOf(c, 0, None)
    BY DEF WorstOf, IsLoss, None
  <2> QED
    BY <2>1, <2>2
<1>9. ASSUME NEW i \in Nat, i \in P PROVE i + 1 \in P
  <2> SUFFICES ASSUME i + 1 <= n
               PROVE  WorstOf(c, i + 1, t[i + 1].worst) /\ t[i + 1].peak = GreatestAt(c, i + 1)
    OBVIOUS
  <2> DEFINE e == c[i + 1].equity
             w == t[i].worst
             g == GreatestAt(c, i + 1)
             x == LossAt(c, i + 1)
  <2>1. i + 1 \in 1..n /\ WorstOf(c, i, w) /\ t[i].peak = IF i = 0 THEN -1 ELSE GreatestAt(c, i)
    BY <1>9
  <2>2. t[i + 1] = RollingStep(t[i], c[i + 1])
    <3>1. (i + 1) - 1 = i
      OBVIOUS
    <3> QED
      BY <1>7, <2>1, <3>1
  <2>3. e \in Int /\ e > 0
    BY <2>1 DEF IsCurve, AllPositive
  <2>4. g = IF i = 0 THEN e ELSE Larger(GreatestAt(c, i), e)
    BY <2>1, NextGreatest
  <2>5. Larger(t[i].peak, e) = g
    BY <2>1, <2>3, <2>4 DEF Larger
  <2>6. g \in Int /\ g >= e
    <3>1. IsGreatest(c, i + 1, g) /\ i + 1 \in 1..(i + 1)
      BY <2>1, GreatestIs
    <3> QED
      BY <3>1 DEF IsGreatest
  <2>7. x = [lost |-> g - e, of |-> g] /\ g > 0
    BY <2>3, <2>6 DEF LossAt
  <2> HIDE DEF g, e, x, w
  <2>8. t[i + 1] = [peak |-> g, worst |-> IF Deeper(x, w) THEN x ELSE w]
    BY <2>2, <2>5, <2>7 DEF RollingStep, e, w
  <2>9. WorstOf(c, i + 1, IF Deeper(x, w) THEN x ELSE w)
    BY <2>1, WorseOf DEF x
  <2> QED
    BY <2>8, <2>9 DEF g
<1> HIDE DEF P
<1>10. n \in P
  BY <1>8, <1>9, NaturalInduction
<1> QED
  BY <1>5, <1>7, <1>10 DEF P

(***************************************************************************)
(* The invariant.                                                          *)
(***************************************************************************)
CurveInv ==
  /\ marked.at \in Int /\ marked.price \in Int
  /\ holding = [quantity |-> holding.quantity, average |-> holding.average,
                realized |-> holding.realized, costs |-> holding.costs, cash |-> holding.cash]
  /\ holding.quantity \in Int /\ holding.cash \in Int
  /\ IsCurve(equityCurve) /\ \A k \in 1..Len(equityCurve) : equityCurve[k].at <= marked.at
  /\ AllPositive(equityCurve) => Knows(equityCurve, drawdown)

LEMMA InitCurve == PerformanceInit => CurveInv
<1> SUFFICES ASSUME PerformanceInit PROVE CurveInv
  OBVIOUS
<1>1. equityCurve = <<>> /\ drawdown = EmptyTracker /\ Len(<<>>) = 0
  BY DEF PerformanceInit
<1>2. IsCurve(<<>>)
  BY EmptySeq DEF IsCurve
<1>3. Knows(<<>>, EmptyTracker)
  <2> DEFINE t == EmptyTracker
             no == FALSE
  <2>0. UnderPeak(<<>>) = {} /\ RecoveriesOf(<<>>) = {}
    BY <1>1 DEF UnderPeak, RecoveriesOf
  <2>1. t = [peak |-> 0, peakTime |-> 0, current |-> None, worst |-> None, underwater |-> 0,
             longest |-> 0, episodes |-> <<>>, inEpisode |-> no, active |-> NoEpisode, begun |-> no]
    BY DEF EmptyTracker
  <2>2. no = FALSE /\ no \in BOOLEAN
    OBVIOUS
  <2> HIDE DEF t, no
  <2>3. /\ IsTracker(t) /\ t.inEpisode = no /\ t.begun = no /\ t.episodes = <<>> /\ t.underwater = 0
        /\ t.longest = 0 /\ t.worst = None
    BY <2>1 DEF IsTracker
  <2>4. KnowsPeak(<<>>, t) /\ KnowsEpisode(<<>>, t)
    BY <1>1, <2>2, <2>3 DEF KnowsPeak, KnowsEpisode
  <2>5. KnowsEpisodes(<<>>, t)
    <3>1. <<>> \in Seq(Int) /\ IsFiniteSet({}) /\ Cardinality({}) = 0
      BY FS_EmptySet
    <3>2. \E S : t.episodes \in Seq(S)
      BY <2>3, <3>1
    <3>3. Len(t.episodes) = 0 /\ 1..Len(t.episodes) = {}
      BY <1>1, <2>3
    <3> QED
      BY <2>0, <3>1, <3>2, <3>3 DEF KnowsEpisodes
  <2>6. KnowsRuns(<<>>, t)
    BY <1>1, <2>3 DEF KnowsRuns
  <2>7. WorstOf(<<>>, 0, None)
    BY DEF WorstOf, IsLoss, None
  <2>8. Knows(<<>>, t)
    BY <1>1, <2>3, <2>4, <2>5, <2>6, <2>7 DEF Knows
  <2> QED
    BY <2>8 DEF t
<1>4. marked.at \in Int /\ marked.price \in Int /\ InitialCash \in Int
  <2>1. marked \in [at : {1}, price : Marks]
    BY DEF PerformanceInit
  <2>2. marked.at = 1 /\ marked.price \in Marks
    BY <2>1
  <2>3. \A x \in Marks : x \in Int
    BY PerformanceAssumption
  <2>4. InitialCash \in Int
    BY PerformanceAssumption
  <2> QED
    BY <2>2, <2>3, <2>4
<1>5. holding = NoHolding
  BY DEF PerformanceInit
<1> QED
  BY <1>1, <1>2, <1>3, <1>4, <1>5 DEF CurveInv, NoHolding

\* A fill leaves whole numbers of shares and cents.
LEMMA AppliedIsWhole ==
  ASSUME NEW h, h = [quantity |-> h.quantity, average |-> h.average, realized |-> h.realized,
                     costs |-> h.costs, cash |-> h.cash],
         h.quantity \in Int, h.cash \in Int, NEW f, f.delta \in Int, f.price \in Int,
         NEW g, g = Applied(h, f)
  PROVE  /\ g = [quantity |-> g.quantity, average |-> g.average, realized |-> g.realized,
                 costs |-> g.costs, cash |-> g.cash]
         /\ g.quantity \in Int /\ g.cash \in Int
<1> DEFINE after == h.quantity + f.delta
           spent == h.cash - f.delta * f.price - FillCost
           h1 == [h EXCEPT !.quantity = after]
           h2 == [h1 EXCEPT !.costs = @ + FillCost]
           paid == [h2 EXCEPT !.cash = @ - f.delta * f.price - FillCost]
           closing == Smaller(Size(f.delta), Size(h.quantity))
           added == [paid EXCEPT !.average = (@ * h.quantity + f.price * Scale * f.delta) \div after]
           reduced == [paid EXCEPT !.realized = @ + (f.price * Scale - h.average) * closing * Sign(h.quantity)]
           left == [reduced EXCEPT
                     !.average = CASE after = 0 -> 0
                                   [] Size(f.delta) > Size(h.quantity) -> AverageReversed(@, f.price)
                                   [] OTHER -> @]
<1>1. g = IF SameSide(h.quantity, f.delta) THEN added ELSE left
  BY DEF Applied
<1>2. after \in Int /\ spent \in Int
  <2>1. f.delta * f.price \in Int /\ FillCost = 1
    BY DEF FillCost
  <2> QED
    BY <2>1
<1>3. h1 = [quantity |-> after, average |-> h.average, realized |-> h.realized, costs |-> h.costs,
            cash |-> h.cash]
  OBVIOUS
<1> HIDE DEF h1
<1>4. h2 = [quantity |-> after, average |-> h.average, realized |-> h.realized,
            costs |-> h.costs + FillCost, cash |-> h.cash]
  BY <1>3
<1> HIDE DEF h2
<1>5. paid = [quantity |-> after, average |-> h.average, realized |-> h.realized,
              costs |-> h.costs + FillCost, cash |-> spent]
  BY <1>4
<1> HIDE DEF after, spent
<1> DEFINE Keeps(x) == /\ x = [quantity |-> x.quantity, average |-> x.average, realized |-> x.realized,
                               costs |-> x.costs, cash |-> x.cash]
                       /\ x.quantity = after /\ x.cash = spent
<1>6. Keeps(paid)
  BY <1>5
<1> HIDE DEF paid
<1>7. Keeps(added)
  BY <1>6
<1>8. Keeps(reduced)
  BY <1>6
<1> HIDE DEF reduced
<1>9. Keeps(left)
  BY <1>8
<1> HIDE DEF added, left
<1>10. Keeps(g)
  BY <1>1, <1>7, <1>9
<1> QED
  BY <1>2, <1>10

LEMMA FillKeepsCurve ==
  ASSUME CurveInv, NEW side \in {-1, 1}, NEW quantity \in Quantities, NEW slip \in Slips,
         Books(side, quantity, slip)
  PROVE  CurveInv'
<1> DEFINE f == [delta |-> side * quantity, price |-> marked.price + side * slip,
                 arrival |-> marked.price, at |-> marked.at]
<1>1. /\ holding' = Applied(holding, f) /\ UNCHANGED <<marked, equityCurve, drawdown>>
  BY DEF Books
<1>2. f.delta \in Int /\ f.price \in Int
  <2>1. side \in Int /\ quantity \in Int /\ slip \in Int /\ marked.price \in Int
    BY PerformanceAssumption DEF CurveInv
  <2> QED
    BY <2>1
<1> HIDE DEF f
<1>3. /\ holding' = [quantity |-> holding'.quantity, average |-> holding'.average,
                     realized |-> holding'.realized, costs |-> holding'.costs, cash |-> holding'.cash]
      /\ holding'.quantity \in Int /\ holding'.cash \in Int
  BY <1>1, <1>2, AppliedIsWhole DEF CurveInv
<1> QED
  BY <1>1, <1>3 DEF CurveInv

LEMMA SnapshotKeeps ==
  ASSUME CurveInv, TakeSnapshot
  PROVE  CurveInv'
<1> DEFINE p == [at |-> marked.at, equity |-> Equity(holding, marked.price),
                 realized |-> holding.realized, unrealized |-> Unrealized(holding, marked.price)]
           c == equityCurve
           d == Append(c, p)
           t == drawdown
<1>1. equityCurve' = d /\ drawdown' = TrackedAt(t, p.at, p.equity) /\ UNCHANGED <<marked, holding>>
  BY DEF TakeSnapshot
<1>2. p.at \in Int /\ p.at = marked.at /\ p.equity \in Int
  <2>1. holding.quantity * marked.price \in Int /\ holding.cash \in Int /\ marked.at \in Int
    BY DEF CurveInv
  <2> QED
    BY <2>1 DEF Equity
<1> HIDE DEF p
<1>3. IsCurve(c) /\ \A k \in 1..Len(c) : c[k].at <= p.at
  BY <1>2 DEF CurveInv
<1>4. Longer(c, p, d)
  BY <1>2, <1>3, PointAdded
<1>5. AllPositive(c) => Knows(c, t)
  BY DEF CurveInv
<1> HIDE DEF c, d, t
<1>6. ASSUME AllPositive(d) PROVE Knows(d, TrackedAt(t, p.at, p.equity))
  <2>1. AllPositive(c)
    BY <1>4, <1>6 DEF AllPositive, Longer
  <2>2. CASE AtPeak(t, p.equity)
    BY <1>2, <1>3, <1>4, <1>5, <1>6, <2>1, <2>2, HighKeeps
  <2>3. CASE ~AtPeak(t, p.equity)
    BY <1>2, <1>3, <1>4, <1>5, <1>6, <2>1, <2>3, BelowKeeps
  <2> QED
    BY <2>2, <2>3
<1>7. \A k \in 1..Len(d) : d[k].at <= p.at
  <2> TAKE k \in 1..Len(d)
  <2>1. CASE k = Len(c) + 1
    BY <1>2, <1>4, <2>1 DEF Longer
  <2>2. CASE k # Len(c) + 1
    <3>1. k \in 1..Len(c)
      BY <1>4, <2>2 DEF Longer
    <3> QED
      BY <1>3, <1>4, <3>1 DEF Longer
  <2> QED
    BY <2>1, <2>2
<1>8. IsCurve(d)
  BY <1>4 DEF Longer
<1>9. /\ IsCurve(equityCurve') /\ \A k \in 1..Len(equityCurve') : equityCurve'[k].at <= marked'.at
      /\ AllPositive(equityCurve') => Knows(equityCurve', drawdown')
  BY <1>1, <1>2, <1>6, <1>7, <1>8 DEF t
<1> QED
  BY <1>1, <1>9 DEF CurveInv

LEMMA StepCurve == CurveInv /\ [PerformanceNext]_performanceVars => CurveInv'
<1> SUFFICES ASSUME CurveInv, [PerformanceNext]_performanceVars PROVE CurveInv'
  OBVIOUS
<1>1. CASE MarkMoved
  <2>1. PICK price \in Marks : marked' = [at |-> marked.at + 1, price |-> price]
    BY <1>1 DEF MarkMoved
  <2>2. marked'.at = marked.at + 1 /\ marked'.price \in Int /\ marked.at \in Int
    BY <2>1, PerformanceAssumption DEF CurveInv
  <2>3. UNCHANGED <<booked, holding, equityCurve, drawdown>>
    BY <1>1 DEF MarkMoved
  <2>4. \A k \in 1..Len(equityCurve) : equityCurve[k].at <= marked'.at
    BY <2>2 DEF CurveInv, IsCurve
  <2> QED
    BY <2>2, <2>3, <2>4 DEF CurveInv
<1>2. CASE TakeSnapshot
  BY <1>2, SnapshotKeeps
<1>3. CASE \E side \in {-1, 1}, quantity \in Quantities, slip \in Slips : Books(side, quantity, slip)
  BY <1>3, FillKeepsCurve
<1>4. CASE UNCHANGED performanceVars
  BY <1>4 DEF performanceVars, CurveInv
<1> QED
  BY <1>1, <1>2, <1>3, <1>4 DEF PerformanceNext

(***************************************************************************)
(* The tracker's results are those of the curve.                           *)
(***************************************************************************)
LEMMA CurveTells == CurveInv => DrawdownFollowsCurve
<1> SUFFICES ASSUME CurveInv, AllPositive(equityCurve) PROVE DrawdownFollowsCurve
  BY DEF DrawdownFollowsCurve, AllPositive
<1> DEFINE c == equityCurve
           n == Len(c)
           t == drawdown
<1>1. IsCurve(c) /\ Knows(c, t) /\ n \in Nat
  BY DEF CurveInv, IsCurve
<1>2. \A k \in 1..n : ~Deeper(LossAt(c, k), t.worst)
  BY <1>1 DEF Knows, WorstOf
<1>3. ASSUME t.worst.lost > 0 PROVE \E k \in 1..n : ~Deeper(t.worst, LossAt(c, k))
  <2>1. t.worst # None
    BY <1>3 DEF None
  <2>2. PICK k \in 1..n : t.worst = LossAt(c, k)
    BY <1>1, <2>1 DEF Knows, WorstOf
  <2>3. IsLoss(t.worst)
    BY <1>1 DEF Knows, WorstOf
  <2>4. ~Deeper(t.worst, t.worst)
    BY <2>3, NoneIsShallow
  <2> QED
    BY <2>2, <2>4
<1>4. n > 0 => t.inEpisode = (n \in UnderPeak(c))
  BY <1>1 DEF Knows, KnowsPeak
<1>5. Len(t.episodes) = Cardinality(RecoveriesOf(c)) /\ DOMAIN t.episodes = 1..Len(t.episodes)
  BY <1>1 DEF Knows, KnowsEpisodes
<1>6. \A i \in DOMAIN t.episodes : Lasts(c, t.episodes[i])
  BY <1>1, <1>5 DEF Knows, KnowsEpisodes
<1>7. t.longest > 0 => \E from \in 1..n : /\ from + t.longest - 1 <= n
                                         /\ from..(from + t.longest - 1) \subseteq UnderPeak(c)
  BY <1>1 DEF Knows, KnowsRuns
<1>8. ASSUME n > 0
      PROVE  ~Deeper(t.worst, RollingDrawdown(c, n)) /\ ~Deeper(RollingDrawdown(c, n), t.worst)
  <2>1. WorstOf(c, n, RollingDrawdown(c, n))
    BY <1>1, <1>8, RollingIsWorst
  <2>2. WorstOf(c, n, t.worst)
    BY <1>1 DEF Knows
  <2> QED
    BY <2>1, <2>2, EquallyDeep
<1> QED
  BY <1>2, <1>3, <1>4, <1>5, <1>6, <1>7, <1>8, Zenon
     DEF DrawdownFollowsCurve, LossAt, GreatestAt, UnderPeak, RecoveriesOf, Lasts

(***************************************************************************)
(* The worst drawdown, the episodes and the longest one under water are    *)
(* those of the curve, whatever fills and marks it was made of             *)
(* (drawdown.cpp).                                                         *)
(***************************************************************************)
THEOREM DrawdownIsOfTheCurve == PerformanceSpec => []DrawdownFollowsCurve
<1>1. PerformanceInit => CurveInv
  BY InitCurve
<1>2. CurveInv /\ [PerformanceNext]_performanceVars => CurveInv'
  BY StepCurve
<1>3. CurveInv => DrawdownFollowsCurve
  BY CurveTells
<1> QED
  BY <1>1, <1>2, <1>3, PTL DEF PerformanceSpec

-----------------------------------------------------------------------------
(***************************************************************************)
(* ModelPipeline.  A pipeline that was never fitted does not say it is,    *)
(* one that is sound holds the scaler and the parameters of one fit, and   *)
(* so does what is left of a sound one's stream, as far as a hash vouches  *)
(* for it.                                                                 *)
(***************************************************************************)
PipelineFields == {"kind", "standardize", "fitted", "scaler", "modelFitted", "params"}

OneFit(pl) ==
  /\ pl.params.scaled = ScaleUsed(pl) /\ pl.params.rows # Garbage
  /\ ScaleUsed(pl) = Unscaled \/ ScaleUsed(pl) = pl.params.rows

PipelineInv(pl, stands) ==
  /\ DOMAIN pl = PipelineFields /\ pl.kind \in Kinds /\ pl.standardize \in BOOLEAN
  /\ stands = "never" => ~pl.fitted
  /\ stands = "sound" /\ pl.modelFitted => OneFit(pl)

BadHash == [GarbledParameters EXCEPT !.scaled = {-2}]

\* What is left of a stream with a scaler, and of one without.
HoldsBlock(s, i, what, vals) == i \in DOMAIN s => s[i].what = what /\ s[i].val \in vals

WithScaler(s, scaler, p) ==
  /\ Len(s) <= 5 /\ HoldsBlock(s, 2, "scaler", {scaler})
  /\ 3 \in DOMAIN s => s[3].what = "magic"
  /\ HoldsBlock(s, 4, "parameters", {p, GarbledParameters}) /\ HoldsBlock(s, 5, "hash", {p, BadHash})
  /\ 5 \in DOMAIN s =>
       p.rows # Garbage /\ p.scaled = scaler /\ (scaler = Unscaled \/ scaler = p.rows)

WithoutScaler(s, p) ==
  /\ Len(s) <= 4
  /\ 1 \in DOMAIN s => s[1].val = FALSE
  /\ 2 \in DOMAIN s => s[2].what = "magic"
  /\ HoldsBlock(s, 3, "parameters", {p, GarbledParameters}) /\ HoldsBlock(s, 4, "hash", {p, BadHash})
  /\ 4 \in DOMAIN s => p.rows # Garbage /\ p.scaled = Unscaled

StreamInv(s, stands) ==
  /\ \E S : s \in Seq(S)
  /\ \A i \in DOMAIN s : DOMAIN s[i] = {"what", "val"}
  /\ s # <<>> => stands # "never" /\ s[1].what = "flag" /\ s[1].val \in BOOLEAN
  /\ stands = "sound" =>
       (\E scaler, p : WithScaler(s, scaler, p)) \/ (\E p : WithoutScaler(s, p))

AnswerInv ==
  answer.given => /\ standing[answer.by] # "never"
                  /\ standing[answer.by] = "sound" => OfOneFit

ResultInv(r, folds) ==
  /\ \E f \in Range(folds) : f.test = r.test /\ f.train = r.params.rows
  /\ r.params.rows \cap r.test = {}
  /\ r.params.scaled = r.scale /\ (r.scale = Unscaled \/ r.scale = r.params.rows)

WalkInv ==
  /\ DOMAIN walk = {"folds", "next", "pipe", "results", "fitted", "skipped", "status"}
  /\ walk.folds \in Seq([train : SUBSET Nat, test : SUBSET Nat])
  /\ \A i \in DOMAIN walk.folds : walk.folds[i].train \cap walk.folds[i].test = {}
  /\ \E S : walk.results \in Seq(S)
  /\ \A i \in DOMAIN walk.results : ResultInv(walk.results[i], walk.folds)
  /\ walk.next \in Nat /\ walk.fitted \in Nat /\ walk.skipped \in Nat
  /\ walk.next <= Len(walk.folds) + 1 /\ walk.fitted + walk.skipped = walk.next - 1
  /\ walk.status = "done" => walk.next = Len(walk.folds) + 1
  /\ DOMAIN walk.pipe = PipelineFields /\ walk.pipe.standardize \in BOOLEAN /\ walk.pipe.kind \in Kinds

ModelInv ==
  /\ DOMAIN pipelines = Pipelines /\ DOMAIN standing = Pipelines \cup {OnDisk}
  /\ \A p \in Pipelines : PipelineInv(pipelines[p], standing[p])
  /\ StreamInv(stored, standing[OnDisk]) /\ AnswerInv /\ WalkInv

\* What a fit makes of a pipeline (Pipeline::fit).
FitOf(pl, rows, fits, new) ==
  /\ DOMAIN new = PipelineFields /\ new.kind = pl.kind /\ new.standardize = pl.standardize
  /\ fits => /\ new.params = [rows |-> rows, scaled |-> ScaleUsed(new)]
             /\ ScaleUsed(new) = IF pl.standardize THEN rows ELSE Unscaled
  /\ ~fits => new.fitted = pl.fitted /\ new.modelFitted = FALSE

\* Fitted, field by field.
LEMMA FittedIs ==
  ASSUME NEW pl, DOMAIN pl = PipelineFields, pl.standardize \in BOOLEAN, NEW rows, NEW fits \in BOOLEAN,
         NEW new, new = Fitted(pl, rows, fits)
  PROVE  FitOf(pl, rows, fits, new)
<1> DEFINE scaled == [pl EXCEPT !.scaler = ScalerAfterFit(pl, rows)]
           reset == [scaled EXCEPT !.modelFitted = FALSE]
           blank == [reset EXCEPT !.params = NoParameters]
<1>1. /\ DOMAIN scaled = PipelineFields /\ scaled.kind = pl.kind /\ scaled.standardize = pl.standardize
      /\ scaled.fitted = pl.fitted /\ scaled.scaler = ScalerAfterFit(pl, rows)
  BY DEF PipelineFields
<1> HIDE DEF scaled
<1>2. /\ DOMAIN reset = PipelineFields /\ reset.kind = pl.kind /\ reset.standardize = pl.standardize
      /\ reset.fitted = pl.fitted /\ reset.scaler = ScalerAfterFit(pl, rows) /\ reset.modelFitted = FALSE
  BY <1>1 DEF PipelineFields
<1> HIDE DEF reset
<1>3. /\ DOMAIN blank = PipelineFields /\ blank.kind = pl.kind /\ blank.standardize = pl.standardize
      /\ blank.fitted = pl.fitted /\ blank.scaler = ScalerAfterFit(pl, rows) /\ blank.modelFitted = FALSE
  BY <1>2 DEF PipelineFields
<1>4. blank = ResetModel([pl EXCEPT !.scaler = ScalerAfterFit(pl, rows)])
  BY DEF ResetModel, reset, scaled
<1> HIDE DEF blank
<1>5. CASE ~fits
  <2>1. new = blank
    BY <1>4, <1>5 DEF Fitted
  <2> QED
    BY <1>3, <1>5, <2>1 DEF FitOf
<1>6. CASE fits
  <2> DEFINE params == [rows |-> rows, scaled |-> ScaleUsed(blank)]
             ready == [blank EXCEPT !.fitted = TRUE]
             able == [ready EXCEPT !.modelFitted = TRUE]
  <2>1. new = [able EXCEPT !.params = params]
    BY <1>4, <1>6 DEF Fitted
  <2> HIDE DEF params
  <2>2. /\ DOMAIN ready = PipelineFields /\ ready.kind = pl.kind /\ ready.standardize = pl.standardize
        /\ ready.scaler = ScalerAfterFit(pl, rows)
    BY <1>3 DEF PipelineFields
  <2> HIDE DEF ready
  <2>3. /\ DOMAIN able = PipelineFields /\ able.kind = pl.kind /\ able.standardize = pl.standardize
        /\ able.scaler = ScalerAfterFit(pl, rows)
    BY <2>2 DEF PipelineFields
  <2> HIDE DEF able
  <2>4. /\ DOMAIN new = PipelineFields /\ new.kind = pl.kind /\ new.standardize = pl.standardize
        /\ new.scaler = ScalerAfterFit(pl, rows) /\ new.params = params
    BY <2>1, <2>3 DEF PipelineFields
  <2>5. ScaleUsed(new) = IF pl.standardize THEN rows ELSE Unscaled
    BY <2>4 DEF ScaleUsed, ScalerAfterFit
  <2>6. ScaleUsed(blank) = ScaleUsed(new)
    BY <1>3, <2>4 DEF ScaleUsed
  <2> QED
    BY <1>6, <2>4, <2>5, <2>6 DEF params, FitOf
<1> QED
  BY <1>5, <1>6

\* A pipeline fitted once, with the rows given.
OneFitOf(new, rows) == OneFit(new) /\ new.params.rows = rows

\* One fit of rows that the models accept.
LEMMA FittedIsOneFit ==
  ASSUME NEW pl, DOMAIN pl = PipelineFields, pl.standardize \in BOOLEAN,
         NEW rows, Trainable(rows), NEW new, new = Fitted(pl, rows, TRUE)
  PROVE  OneFitOf(new, rows)
<1>1. /\ new.params = [rows |-> rows, scaled |-> ScaleUsed(new)]
      /\ ScaleUsed(new) = IF pl.standardize THEN rows ELSE Unscaled
  <2>1. FitOf(pl, rows, TRUE, new)
    BY FittedIs, Zenon
  <2> QED
    BY <2>1 DEF FitOf
<1>2. rows # Garbage
  BY ModelDataAssumption DEF Trainable, Garbage, ModelDataAssumption
<1>3. new.params.rows = rows /\ new.params.scaled = ScaleUsed(new)
  <2> DEFINE w == ScaleUsed(new)
             given == new.params
  <2>1. given = [rows |-> rows, scaled |-> w]
    BY <1>1
  <2> HIDE DEF w, given
  <2>2. given.rows = rows /\ given.scaled = w
    BY <2>1
  <2> QED
    BY <2>2 DEF w, given
<1>4. ScaleUsed(new) = Unscaled \/ ScaleUsed(new) = rows
  BY <1>1
<1> QED
  BY <1>2, <1>3, <1>4, Zenon DEF OneFit, OneFitOf

(***************************************************************************)
(* A stream is read into the pipeline block by block.                      *)
(***************************************************************************)
\* What a load leaves of the pipeline, and what was read where.
Reads(r, pl, i) ==
  /\ r.ok \in BOOLEAN
  /\ DOMAIN r.pl = PipelineFields /\ r.pl.kind = pl.kind /\ r.pl.fitted = pl.fitted
  /\ r.pl.standardize = pl.standardize /\ r.pl.scaler = pl.scaler
  /\ r.ok => /\ At(i, "magic") /\ At(i + 1, "parameters") /\ At(i + 2, "hash")
             /\ r.pl.params = stored[i + 1].val /\ stored[i + 2].val = stored[i + 1].val

LEMMA ModelReads ==
  ASSUME NEW pl, DOMAIN pl = PipelineFields, NEW i \in Nat, NEW r \in AfterModelLoad(pl, i)
  PROVE  Reads(r, pl, i)
<1> DEFINE no == FALSE
<1>1. CASE ~OwnMagicAt(pl, i)
  <2>1. r = [ok |-> FALSE, pl |-> pl]
    BY <1>1 DEF AfterModelLoad
  <2>2. r.ok = FALSE /\ r.pl = pl
    BY <2>1, Zenon
  <2> QED
    BY <2>2 DEF Reads
<1>2. CASE OwnMagicAt(pl, i) /\ stored[i].val # pl.kind
  <2>1. PICK f : r = [ok |-> FALSE, pl |-> [Garbled(pl) EXCEPT !.modelFitted = f]]
    BY <1>2 DEF AfterModelLoad, AfterForeignLoad
  <2>2. r.ok = FALSE /\ r.pl = [Garbled(pl) EXCEPT !.modelFitted = f]
    BY <2>1, Zenon
  <2> DEFINE g == Garbled(pl)
  <2>3. /\ DOMAIN g = PipelineFields /\ g.kind = pl.kind /\ g.fitted = pl.fitted
        /\ g.standardize = pl.standardize /\ g.scaler = pl.scaler
    BY DEF Garbled, PipelineFields
  <2> HIDE DEF g
  <2> QED
    BY <2>2, <2>3 DEF Reads, g, PipelineFields
<1>3. CASE OwnMagicAt(pl, i) /\ stored[i].val = pl.kind
  <2>1. r = AfterOwnLoad(pl, i + 1) /\ At(i, "magic")
    BY <1>3 DEF AfterModelLoad, OwnMagicAt
  <2>2. CASE ~At(i + 1, "parameters")
    <3>1. r.ok = FALSE /\ r.pl = Garbled(pl)
      <4>1. r = [ok |-> FALSE, pl |-> Garbled(pl)]
        BY <2>1, <2>2 DEF AfterOwnLoad
      <4> QED
        BY <4>1, Zenon
    <3> QED
      BY <3>1 DEF Reads, Garbled, PipelineFields
  <2>3. CASE At(i + 1, "parameters")
    <3> DEFINE able == [pl EXCEPT !.modelFitted = TRUE]
               fine == At(i + 2, "hash") /\ stored[i + 2].val = stored[i + 1].val
    <3>1. i + 1 + 1 = i + 2
      OBVIOUS
    <3>2. r = [ok |-> fine, pl |-> [able EXCEPT !.params = stored[i + 1].val]]
      BY <2>1, <2>3, <3>1 DEF AfterOwnLoad
    <3> HIDE DEF fine
    <3>3. r.ok = fine /\ r.pl = [able EXCEPT !.params = stored[i + 1].val]
      BY <3>2, Zenon
    <3>4. /\ DOMAIN able = PipelineFields /\ able.kind = pl.kind /\ able.fitted = pl.fitted
          /\ able.standardize = pl.standardize /\ able.scaler = pl.scaler
      BY DEF PipelineFields
    <3> HIDE DEF able
    <3>5. /\ DOMAIN r.pl = PipelineFields /\ r.pl.kind = pl.kind /\ r.pl.fitted = pl.fitted
          /\ r.pl.standardize = pl.standardize /\ r.pl.scaler = pl.scaler
          /\ r.pl.params = stored[i + 1].val
      BY <3>3, <3>4 DEF PipelineFields
    <3>6. r.ok \in BOOLEAN /\ (r.ok => fine)
      BY <3>3 DEF fine
    <3> QED
      BY <2>1, <2>3, <3>5, <3>6, Zenon DEF Reads, fine
  <2> QED
    BY <2>2, <2>3
<1> QED
  BY <1>1, <1>2, <1>3

\* A load that reaches its end has read one fit, if the stream was of one.
LEMMA LoadReads ==
  ASSUME StreamInv(stored, standing[OnDisk]), NEW pl, DOMAIN pl = PipelineFields, NEW r \in AfterLoad(pl)
  PROVE  /\ r.ok \in BOOLEAN
         /\ DOMAIN r.pl = PipelineFields /\ r.pl.kind = pl.kind /\ r.pl.fitted = pl.fitted
         /\ r.pl.standardize \in {pl.standardize} \cup BOOLEAN
         /\ r.ok => standing[OnDisk] # "never"
         /\ r.ok /\ standing[OnDisk] = "sound" => OneFit(r.pl)
<1> DEFINE flag == stored[1].val
           flagged == [pl EXCEPT !.standardize = flag]
           scaled == IF flag THEN [flagged EXCEPT !.scaler = stored[2].val] ELSE flagged
           begins == IF flag THEN 3 ELSE 2
<1>1. CASE stored = <<>>
  <2>1. r = [ok |-> FALSE, pl |-> pl]
    BY <1>1 DEF AfterLoad
  <2>2. r.ok = FALSE /\ r.pl = pl
    BY <2>1, Zenon
  <2> QED
    BY <2>2
<1>2. stored # <<>> => flag \in BOOLEAN /\ standing[OnDisk] # "never"
  BY DEF StreamInv
<1>3. /\ DOMAIN flagged = PipelineFields /\ flagged.kind = pl.kind /\ flagged.fitted = pl.fitted
      /\ flagged.standardize = flag
  BY DEF PipelineFields
<1>4. CASE stored # <<>> /\ flag /\ ~At(2, "scaler")
  <2>1. r = [ok |-> FALSE, pl |-> flagged]
    BY <1>4 DEF AfterLoad
  <2> HIDE DEF flagged
  <2>2. r.ok = FALSE /\ r.pl = flagged
    BY <2>1, Zenon
  <2> HIDE DEF flag
  <2> QED
    BY <1>2, <1>3, <1>4, <2>2
<1>5. CASE stored # <<>> /\ ~(flag /\ ~At(2, "scaler"))
  <2>1. r \in AfterModelLoad(scaled, begins)
    BY <1>5, Zenon DEF AfterLoad
  <2>2. /\ DOMAIN scaled = PipelineFields /\ scaled.kind = pl.kind /\ scaled.fitted = pl.fitted
        /\ scaled.standardize = flag /\ (flag => scaled.scaler = stored[2].val)
    <3> HIDE DEF flagged, flag
    <3> QED
      BY <1>3 DEF PipelineFields
  <2>3. Reads(r, scaled, begins)
    <3>1. begins \in Nat
      OBVIOUS
    <3> HIDE DEF scaled, begins
    <3> QED
      BY <2>1, <2>2, <3>1, ModelReads
  <2> HIDE DEF scaled
  <2>4. ASSUME r.ok, standing[OnDisk] = "sound" PROVE OneFit(r.pl)
    <3>1. /\ At(begins, "magic") /\ At(begins + 1, "parameters") /\ At(begins + 2, "hash")
          /\ r.pl.params = stored[begins + 1].val /\ stored[begins + 2].val = stored[begins + 1].val
          /\ r.pl.standardize = flag /\ (flag => r.pl.scaler = stored[2].val)
      BY <2>2, <2>3, <2>4 DEF Reads
    <3>2. 1 \in DOMAIN stored
      <4>1. PICK S : stored \in Seq(S)
        BY DEF StreamInv
      <4> QED
        BY <1>5, <4>1
    <3>3. CASE flag
      <4>1. /\ 3 \in DOMAIN stored /\ stored[3].what = "magic"
            /\ 4 \in DOMAIN stored /\ stored[4].what = "parameters"
            /\ 5 \in DOMAIN stored /\ stored[5].what = "hash"
            /\ r.pl.params = stored[4].val /\ stored[5].val = stored[4].val
            /\ r.pl.standardize = TRUE /\ r.pl.scaler = stored[2].val
        BY <1>2, <1>5, <3>1, <3>3 DEF At
      <4>2. 2 \in DOMAIN stored
        BY <1>5, <3>3 DEF At
      <4>3. PICK scaler, p : WithScaler(stored, scaler, p)
        <5>1. ASSUME NEW p, WithoutScaler(stored, p) PROVE FALSE
          BY <3>2, <3>3, <5>1, Zenon DEF WithoutScaler
        <5> QED
          BY <2>4, <5>1 DEF StreamInv
      <4>4. /\ stored[4].val \in {p, GarbledParameters} /\ stored[5].val \in {p, BadHash}
            /\ p.rows # Garbage /\ p.scaled = scaler /\ (scaler = Unscaled \/ scaler = p.rows)
            /\ stored[2].val = scaler
        BY <4>1, <4>2, <4>3 DEF WithScaler, HoldsBlock
      <4>5. stored[4].val = p
        BY <4>1, <4>4 DEF GarbledParameters, BadHash, Garbage
      <4>6. r.pl.params = p /\ ScaleUsed(r.pl) = scaler
        BY <4>1, <4>4, <4>5 DEF ScaleUsed
      <4> QED
        BY <4>4, <4>6 DEF OneFit
    <3>4. CASE ~flag
      <4>1. /\ 2 \in DOMAIN stored /\ stored[2].what = "magic"
            /\ 3 \in DOMAIN stored /\ stored[3].what = "parameters"
            /\ 4 \in DOMAIN stored /\ stored[4].what = "hash"
            /\ r.pl.params = stored[3].val /\ stored[4].val = stored[3].val
            /\ r.pl.standardize = FALSE
        BY <1>2, <1>5, <3>1, <3>4 DEF At
      <4>3. PICK p : WithoutScaler(stored, p)
        <5>1. ASSUME NEW scaler, NEW p, WithScaler(stored, scaler, p) PROVE FALSE
          BY <4>1, <5>1 DEF WithScaler, HoldsBlock
        <5> QED
          BY <2>4, <5>1 DEF StreamInv
      <4>4. /\ stored[3].val \in {p, GarbledParameters} /\ stored[4].val \in {p, BadHash}
            /\ p.rows # Garbage /\ p.scaled = Unscaled
        BY <4>1, <4>3 DEF WithoutScaler, HoldsBlock
      <4>5. stored[3].val = p
        BY <4>1, <4>4 DEF GarbledParameters, BadHash, Garbage
      <4>6. r.pl.params = p /\ ScaleUsed(r.pl) = Unscaled
        BY <4>1, <4>4, <4>5 DEF ScaleUsed
      <4> QED
        BY <4>4, <4>6 DEF OneFit
    <3> QED
      BY <3>3, <3>4
  <2> HIDE DEF flag
  <2> QED
    BY <1>2, <1>5, <2>2, <2>3, <2>4 DEF Reads
<1> QED
  BY <1>1, <1>4, <1>5

(***************************************************************************)
(* What is left of a stream, cut or damaged, where the scaler's block is   *)
(* spared: no hash covers it.                                              *)
(***************************************************************************)
\* What a fault leaves of a stream: a beginning of it, with blocks changed.
Remains(t, s) ==
  /\ \E S : t \in Seq(S)
  /\ DOMAIN t \subseteq DOMAIN s /\ Len(t) <= Len(s)
  /\ \A j \in DOMAIN t :
       /\ DOMAIN t[j] = {"what", "val"} /\ t[j].what = s[j].what
       /\ t[j].val = s[j].val \/ (s[j].what # "scaler" /\ t[j].val = DamagedValue(s[j].what))

\* What was said of a stream still holds of what is left of it.
LEMMA RemainsSound ==
  ASSUME NEW s, NEW stands, StreamInv(s, stands), NEW t, Remains(t, s)
  PROVE  StreamInv(t, stands)
<1>1. /\ \E S : t \in Seq(S)
      /\ \A i \in DOMAIN t : DOMAIN t[i] = {"what", "val"}
  BY DEF Remains
<1>2. ASSUME NEW i, NEW what \in {"parameters", "hash"}, NEW vals, HoldsBlock(s, i, what, vals),
             DamagedValue(what) \in vals
      PROVE  HoldsBlock(t, i, what, vals)
  BY <1>2 DEF HoldsBlock, Remains
<1>3. ASSUME NEW i, NEW vals, HoldsBlock(s, i, "scaler", vals) PROVE HoldsBlock(t, i, "scaler", vals)
  BY <1>3 DEF HoldsBlock, Remains
<1>4. DamagedValue("parameters") = GarbledParameters /\ DamagedValue("hash") = BadHash
      /\ DamagedValue("flag") = FALSE
  BY DEF DamagedValue, BadHash
<1>5. \A i : i \in DOMAIN t => i \in DOMAIN s /\ t[i].what = s[i].what
  BY DEF Remains
<1>6. /\ Len(t) <= Len(s) /\ Len(t) \in Int /\ Len(s) \in Int
  <2>1. PICK S : t \in Seq(S)
    BY <1>1
  <2>2. PICK R : s \in Seq(R)
    BY DEF StreamInv
  <2> QED
    BY <2>1, <2>2 DEF Remains
<1>7. t # <<>> => s # <<>> /\ 1 \in DOMAIN t
  <2>1. PICK S : t \in Seq(S)
    BY <1>1
  <2>2. t # <<>> => 1 \in DOMAIN t
    BY <2>1
  <2>3. 1 \in DOMAIN s => s # <<>>
    OBVIOUS
  <2> QED
    BY <1>5, <2>2, <2>3
<1>8. t # <<>> => stands # "never" /\ t[1].what = "flag" /\ t[1].val \in BOOLEAN
  <2> SUFFICES ASSUME t # <<>> PROVE stands # "never" /\ t[1].what = "flag" /\ t[1].val \in BOOLEAN
    OBVIOUS
  <2>1. stands # "never" /\ s[1].what = "flag" /\ s[1].val \in BOOLEAN
    BY <1>7 DEF StreamInv
  <2>2. t[1].val = s[1].val \/ t[1].val = FALSE
    BY <1>4, <1>7, <2>1 DEF Remains
  <2> QED
    BY <1>5, <1>7, <2>1, <2>2
<1>9. ASSUME NEW scaler, NEW p, WithScaler(s, scaler, p) PROVE WithScaler(t, scaler, p)
  <2>1. HoldsBlock(t, 2, "scaler", {scaler})
    BY <1>3, <1>9 DEF WithScaler
  <2>2. HoldsBlock(t, 4, "parameters", {p, GarbledParameters})
    BY <1>2, <1>4, <1>9 DEF WithScaler
  <2>3. HoldsBlock(t, 5, "hash", {p, BadHash})
    BY <1>2, <1>4, <1>9 DEF WithScaler
  <2>4. Len(t) <= 5
    BY <1>6, <1>9 DEF WithScaler
  <2> QED
    BY <1>5, <1>9, <2>1, <2>2, <2>3, <2>4 DEF WithScaler
<1>10. ASSUME NEW p, WithoutScaler(s, p) PROVE WithoutScaler(t, p)
  <2>1. 1 \in DOMAIN t => t[1].val = FALSE
    <3> SUFFICES ASSUME 1 \in DOMAIN t PROVE t[1].val = FALSE
      OBVIOUS
    <3>1. s[1].val = FALSE /\ s[1].what = "flag"
      <4>1. s # <<>>
        BY <1>5
      <4> QED
        BY <1>5, <1>10, <4>1 DEF WithoutScaler, StreamInv
    <3> QED
      BY <1>4, <3>1 DEF Remains
  <2>2. HoldsBlock(t, 3, "parameters", {p, GarbledParameters})
    BY <1>2, <1>4, <1>10 DEF WithoutScaler
  <2>3. HoldsBlock(t, 4, "hash", {p, BadHash})
    BY <1>2, <1>4, <1>10 DEF WithoutScaler
  <2>4. Len(t) <= 4
    BY <1>6, <1>10 DEF WithoutScaler
  <2> QED
    BY <1>5, <1>10, <2>1, <2>2, <2>3, <2>4 DEF WithoutScaler
<1>11. stands = "sound" => (\E scaler, p : WithScaler(t, scaler, p)) \/ (\E p : WithoutScaler(t, p))
  BY <1>9, <1>10 DEF StreamInv
<1> QED
  BY <1>1, <1>8, <1>11 DEF StreamInv

\* A fault cuts the stream, or changes a block that it may change.
LEMMA DamageLeaves ==
  ASSUME "scaler" \notin DamagedBlocks, StreamInv(stored, standing[OnDisk]), StreamDamaged
  PROVE  StreamInv(stored', standing[OnDisk])
<1>1. PICK S : stored \in Seq(S)
  BY DEF StreamInv
<1>2. \A i \in DOMAIN stored : DOMAIN stored[i] = {"what", "val"}
  BY DEF StreamInv
<1>3. CASE \E n \in 0..(Len(stored) - 1) : stored' = SubSeq(stored, 1, n)
  <2>1. PICK n \in 0..(Len(stored) - 1) : stored' = SubSeq(stored, 1, n)
    BY <1>3
  <2>2. n \in Nat /\ n <= Len(stored)
    BY <1>1
  <2>3. /\ stored' \in Seq(S) /\ Len(stored') = n
        /\ \A j \in 1..n : stored'[j] = stored[j]
    BY <1>1, <2>1, <2>2
  <2>4. DOMAIN stored' = 1..n /\ DOMAIN stored' \subseteq DOMAIN stored
    BY <1>1, <2>2, <2>3
  <2>5. Remains(stored', stored)
    BY <1>2, <2>2, <2>3, <2>4 DEF Remains
  <2> QED
    BY <2>5, RemainsSound
<1>4. CASE \E i \in DOMAIN stored :
             /\ stored[i].what \in DamagedBlocks
             /\ stored' = [stored EXCEPT ![i].val = DamagedValue(stored[i].what)]
  <2>1. PICK i \in DOMAIN stored :
             /\ stored[i].what \in DamagedBlocks
             /\ stored' = [stored EXCEPT ![i].val = DamagedValue(stored[i].what)]
    BY <1>4
  <2> DEFINE v == DamagedValue(stored[i].what)
             b == [stored[i] EXCEPT !.val = v]
  <2>2. stored' = [stored EXCEPT ![i] = b]
    BY <2>1
  <2>3. DOMAIN b = {"what", "val"} /\ b.what = stored[i].what /\ b.val = v /\ stored[i].what # "scaler"
    BY <1>2, <2>1
  <2> HIDE DEF b
  <2>4. /\ stored' \in Seq(S \cup {b}) /\ DOMAIN stored' = DOMAIN stored /\ Len(stored') = Len(stored)
        /\ Len(stored) \in Nat
    <3>1. stored \in Seq(S \cup {b}) /\ b \in S \cup {b}
      BY <1>1, SeqDef
    <3>2. stored' \in Seq(S \cup {b})
      BY <2>2, <3>1
    <3> QED
      BY <1>1, <2>2, <3>2
  <2>5. \A j \in DOMAIN stored : stored'[j] = IF j = i THEN b ELSE stored[j]
    BY <2>2
  <2>6. Remains(stored', stored)
    BY <1>2, <2>3, <2>4, <2>5 DEF Remains
  <2> QED
    BY <2>6, RemainsSound
<1> QED
  BY <1>3, <1>4 DEF StreamDamaged

\* One sequence after another, and the beginning of one.
Joins(u, s, t) ==
  /\ Len(u) = Len(s) + Len(t)
  /\ \A i \in 1..Len(s) : u[i] = s[i]
  /\ \A i \in 1..Len(t) : u[Len(s) + i] = t[i]

Begins(u, s, n) == Len(u) = n /\ \A i \in 1..n : u[i] = s[i]

\* Both, of \o and SubSeq.
LEMMA Joined ==
  ASSUME NEW S, NEW s \in Seq(S), NEW t \in Seq(S)
  PROVE  s \o t \in Seq(S) /\ Joins(s \o t, s, t)
BY DEF Joins

LEMMA Beginning ==
  ASSUME NEW S, NEW s \in Seq(S), NEW n \in 0..Len(s)
  PROVE  SubSeq(s, 1, n) \in Seq(S) /\ Begins(SubSeq(s, 1, n), s, n)
BY DEF Begins

\* The stream of a pipeline, whole or without a model that is not fitted (Pipeline::save).
LEMMA SavedStream ==
  ASSUME NEW pl, NEW stands, PipelineInv(pl, stands), stands # "never", NEW s,
         s = IF pl.modelFitted THEN StoredForm(pl) ELSE SubSeq(StoredForm(pl), 1, IF pl.standardize THEN 2 ELSE 1)
  PROVE  StreamInv(s, stands)
<1> DEFINE b1 == Block("flag", pl.standardize)
           b2 == Block("scaler", pl.scaler)
           b3 == Block("magic", pl.kind)
           b4 == Block("parameters", pl.params)
           b5 == Block("hash", pl.params)
           all == {b1, b2, b3, b4, b5}
<1>1. /\ DOMAIN b1 = {"what", "val"} /\ b1.what = "flag" /\ b1.val = pl.standardize
      /\ DOMAIN b2 = {"what", "val"} /\ b2.what = "scaler" /\ b2.val = pl.scaler
      /\ DOMAIN b3 = {"what", "val"} /\ b3.what = "magic"
      /\ DOMAIN b4 = {"what", "val"} /\ b4.what = "parameters" /\ b4.val = pl.params
      /\ DOMAIN b5 = {"what", "val"} /\ b5.what = "hash" /\ b5.val = pl.params
  BY DEF Block
<1>2. pl.standardize \in BOOLEAN
  BY DEF PipelineInv
<1> DEFINE a == <<b1>>
           m == <<b2>>
           z == <<b3, b4, b5>>
<1>3. StoredForm(pl) = a \o (IF pl.standardize THEN m ELSE <<>>) \o z
  BY DEF StoredForm
<1>6. /\ a \in Seq(all) /\ Len(a) = 1 /\ a[1] = b1
      /\ m \in Seq(all) /\ Len(m) = 1 /\ m[1] = b2
      /\ z \in Seq(all) /\ Len(z) = 3 /\ z[1] = b3 /\ z[2] = b4 /\ z[3] = b5
  <2> HIDE DEF b1, b2, b3, b4, b5
  <2>1. b1 \in all /\ b2 \in all /\ b3 \in all /\ b4 \in all /\ b5 \in all
    OBVIOUS
  <2> HIDE DEF all
  <2> QED
    BY <2>1
<1> HIDE DEF b1, b2, b3, b4, b5, a, m, z
<1>4. CASE pl.standardize
  <2> DEFINE am == a \o m
             full == am \o z
  <2> HIDE DEF all
  <2>1. StoredForm(pl) = full
    BY <1>3, <1>4
  <2>2. am \in Seq(all) /\ Len(am) = 2 /\ am[1] = b1 /\ am[2] = b2
    <3>0. am \in Seq(all) /\ Joins(am, a, m)
      BY <1>6, Joined, Zenon
    <3>1. /\ am \in Seq(all) /\ Len(am) = 1 + 1
          /\ \A i \in 1..1 : am[i] = a[i]
          /\ \A i \in 1..1 : am[1 + i] = m[i]
      BY <1>6, <3>0 DEF Joins
    <3> HIDE DEF am
    <3>2. 1 \in 1..1 /\ 1 + 1 = 2
      OBVIOUS
    <3>3. am[1] = a[1]
      BY <3>1, <3>2
    <3>4. am[1 + 1] = m[1]
      BY <3>1, <3>2
    <3> QED
      BY <1>6, <3>1, <3>2, <3>3, <3>4
  <2> HIDE DEF am
  <2>3. /\ full \in Seq(all) /\ Len(full) = 5 /\ full[1] = b1 /\ full[2] = b2
        /\ full[3] = b3 /\ full[4] = b4 /\ full[5] = b5
    <3>0. full \in Seq(all) /\ Joins(full, am, z)
      BY <1>6, <2>2, Joined, Zenon
    <3>1. /\ full \in Seq(all) /\ Len(full) = 2 + 3
          /\ \A i \in 1..2 : full[i] = am[i]
          /\ \A i \in 1..3 : full[2 + i] = z[i]
      BY <1>6, <2>2, <3>0 DEF Joins
    <3> HIDE DEF full
    <3>2. 1 \in 1..2 /\ 2 \in 1..2 /\ 1 \in 1..3 /\ 2 \in 1..3 /\ 3 \in 1..3
      OBVIOUS
    <3>3. full[1] = am[1] /\ full[2] = am[2]
      BY <3>1, <3>2
    <3>4. full[2 + 1] = z[1] /\ full[2 + 2] = z[2] /\ full[2 + 3] = z[3]
      BY <3>1, <3>2
    <3> QED
      BY <1>6, <2>2, <3>1, <3>3, <3>4
  <2> HIDE DEF full
  <2>4. (s = full /\ pl.modelFitted) \/ s = SubSeq(full, 1, 2)
    BY <1>4, <2>1
  <2>5. /\ s \in Seq(all) /\ s[1] = b1 /\ s[2] = b2
        /\ (Len(s) = 5 /\ pl.modelFitted /\ s[3] = b3 /\ s[4] = b4 /\ s[5] = b5) \/ Len(s) = 2
    <3>1. CASE s = SubSeq(full, 1, 2)
      <4>1. s \in Seq(all) /\ Len(s) = 2 /\ \A i \in 1..2 : s[i] = full[i]
        <5>1. 2 \in 0..Len(full)
          BY <2>3
        <5>2. s \in Seq(all) /\ Begins(s, full, 2)
          BY <2>3, <3>1, <5>1, Beginning, Zenon
        <5> QED
          BY <5>2 DEF Begins
      <4>2. s[1] = full[1] /\ s[2] = full[2]
        BY <4>1
      <4> QED
        BY <2>3, <4>1, <4>2
    <3>2. CASE s = full /\ pl.modelFitted
      BY <2>3, <3>2
    <3> QED
      BY <2>4, <3>1, <3>2
  <2>6. stands = "sound" => WithScaler(s, pl.scaler, pl.params)
    <3>1. stands = "sound" /\ Len(s) = 5 => OneFit(pl)
      BY <2>5 DEF PipelineInv
    <3>2. ScaleUsed(pl) = pl.scaler
      BY <1>4 DEF ScaleUsed
    <3>3. /\ Len(s) <= 5 /\ 2 \in DOMAIN s
          /\ \A i \in {3, 4, 5} : i \in DOMAIN s => Len(s) = 5 /\ s[3] = b3 /\ s[4] = b4 /\ s[5] = b5
      <4>1. DOMAIN s = 1..Len(s)
        BY <2>5
      <4>2. CASE Len(s) = 2
        <5>1. DOMAIN s = 1..2
          BY <4>1, <4>2
        <5>2. \A i \in {3, 4, 5} : i \notin 1..2
          OBVIOUS
        <5>3. 2 \in 1..2 /\ 2 <= 5
          OBVIOUS
        <5>4. \A i \in {3, 4, 5} : i \notin DOMAIN s
          BY <5>1, <5>2
        <5> QED
          BY <4>2, <5>1, <5>3, <5>4, Zenon
      <4>3. CASE Len(s) = 5 /\ s[3] = b3 /\ s[4] = b4 /\ s[5] = b5
        <5>1. 5 <= 5 /\ 2 \in 1..5
          OBVIOUS
        <5> QED
          BY <4>1, <4>3, <5>1, Zenon
      <4>4. Len(s) = 2 \/ (Len(s) = 5 /\ s[3] = b3 /\ s[4] = b4 /\ s[5] = b5)
        BY <2>5
      <4> QED
        BY <4>2, <4>3, <4>4
    <3>4. s[2].what = "scaler" /\ s[2].val = pl.scaler
      BY <1>1, <2>5
    <3>5. 3 \in DOMAIN s => s[3].what = "magic"
      BY <1>1, <3>3
    <3>6. 4 \in DOMAIN s => s[4].what = "parameters" /\ s[4].val = pl.params
      BY <1>1, <3>3
    <3>7. 5 \in DOMAIN s => s[5].what = "hash" /\ s[5].val = pl.params /\ Len(s) = 5
      BY <1>1, <3>3
    <3> QED
      BY <3>1, <3>2, <3>3, <3>4, <3>5, <3>6, <3>7 DEF WithScaler, HoldsBlock, OneFit
  <2>7. s # <<>>
    <3>1. Len(s) # 0
      BY <2>5
    <3> QED
      BY <3>1
  <2>8. \A i \in DOMAIN s : s[i] \in all
    BY <2>5
  <2>9. \A i \in DOMAIN s : DOMAIN s[i] = {"what", "val"}
    BY <1>1, <2>8 DEF all
  <2> QED
    BY <1>1, <1>2, <2>5, <2>6, <2>7, <2>9 DEF StreamInv
<1>5. CASE ~pl.standardize
  <2> DEFINE ae == a \o <<>>
             full == ae \o z
  <2> HIDE DEF all
  <2>1. StoredForm(pl) = full
    BY <1>3, <1>5
  <2>2. ae \in Seq(all) /\ Len(ae) = 1 /\ ae[1] = b1
    BY <1>6
  <2> HIDE DEF ae
  <2>3. /\ full \in Seq(all) /\ Len(full) = 4 /\ full[1] = b1
        /\ full[2] = b3 /\ full[3] = b4 /\ full[4] = b5
    <3>0. full \in Seq(all) /\ Joins(full, ae, z)
      BY <1>6, <2>2, Joined, Zenon
    <3>1. /\ full \in Seq(all) /\ Len(full) = 1 + 3
          /\ \A i \in 1..1 : full[i] = ae[i]
          /\ \A i \in 1..3 : full[1 + i] = z[i]
      BY <1>6, <2>2, <3>0 DEF Joins
    <3> HIDE DEF full
    <3>2. 1 \in 1..1 /\ 1 \in 1..3 /\ 2 \in 1..3 /\ 3 \in 1..3
      OBVIOUS
    <3>3. full[1] = ae[1]
      BY <3>1, <3>2
    <3>4. full[1 + 1] = z[1] /\ full[1 + 2] = z[2] /\ full[1 + 3] = z[3]
      BY <3>1, <3>2
    <3> QED
      BY <1>6, <2>2, <3>1, <3>3, <3>4
  <2> HIDE DEF full
  <2>4. (s = full /\ pl.modelFitted) \/ s = SubSeq(full, 1, 1)
    BY <1>5, <2>1
  <2>5. /\ s \in Seq(all) /\ s[1] = b1
        /\ (Len(s) = 4 /\ pl.modelFitted /\ s[2] = b3 /\ s[3] = b4 /\ s[4] = b5) \/ Len(s) = 1
    <3>1. CASE s = SubSeq(full, 1, 1)
      <4>1. s \in Seq(all) /\ Len(s) = 1 /\ \A i \in 1..1 : s[i] = full[i]
        <5>1. 1 \in 0..Len(full)
          BY <2>3
        <5>2. s \in Seq(all) /\ Begins(s, full, 1)
          BY <2>3, <3>1, <5>1, Beginning, Zenon
        <5> QED
          BY <5>2 DEF Begins
      <4>2. s[1] = full[1]
        BY <4>1
      <4> QED
        BY <2>3, <4>1, <4>2
    <3>2. CASE s = full /\ pl.modelFitted
      BY <2>3, <3>2
    <3> QED
      BY <2>4, <3>1, <3>2
  <2>6. stands = "sound" => WithoutScaler(s, pl.params)
    <3>1. stands = "sound" /\ Len(s) = 4 => OneFit(pl)
      BY <2>5 DEF PipelineInv
    <3>2. ScaleUsed(pl) = Unscaled
      BY <1>5 DEF ScaleUsed
    <3>3. /\ Len(s) <= 4
          /\ \A i \in {2, 3, 4} : i \in DOMAIN s => Len(s) = 4 /\ s[2] = b3 /\ s[3] = b4 /\ s[4] = b5
      <4>1. DOMAIN s = 1..Len(s)
        BY <2>5
      <4>2. CASE Len(s) = 1
        <5>1. DOMAIN s = 1..1
          BY <4>1, <4>2
        <5>2. \A i \in {2, 3, 4} : i \notin 1..1
          OBVIOUS
        <5>3. 1 \in 1..1 /\ 1 <= 4
          OBVIOUS
        <5>4. \A i \in {2, 3, 4} : i \notin DOMAIN s
          BY <5>1, <5>2
        <5> QED
          BY <4>2, <5>1, <5>3, <5>4, Zenon
      <4>3. CASE Len(s) = 4 /\ s[2] = b3 /\ s[3] = b4 /\ s[4] = b5
        <5>1. 4 <= 4 /\ 2 \in 1..4
          OBVIOUS
        <5> QED
          BY <4>1, <4>3, <5>1, Zenon
      <4>4. Len(s) = 1 \/ (Len(s) = 4 /\ s[2] = b3 /\ s[3] = b4 /\ s[4] = b5)
        BY <2>5
      <4> QED
        BY <4>2, <4>3, <4>4
    <3>4. s[1].val = FALSE
      BY <1>1, <1>2, <1>5, <2>5
    <3>5. 2 \in DOMAIN s => s[2].what = "magic"
      BY <1>1, <3>3
    <3>6. 3 \in DOMAIN s => s[3].what = "parameters" /\ s[3].val = pl.params
      BY <1>1, <3>3
    <3>7. 4 \in DOMAIN s => s[4].what = "hash" /\ s[4].val = pl.params /\ Len(s) = 4
      BY <1>1, <3>3
    <3> QED
      BY <3>1, <3>2, <3>3, <3>4, <3>5, <3>6, <3>7 DEF WithoutScaler, HoldsBlock, OneFit
  <2>7. s # <<>>
    <3>1. Len(s) # 0
      BY <2>5
    <3> QED
      BY <3>1
  <2>8. \A i \in DOMAIN s : s[i] \in all
    BY <2>5
  <2>9. \A i \in DOMAIN s : DOMAIN s[i] = {"what", "val"}
    BY <1>1, <2>8 DEF all
  <2> QED
    BY <1>1, <1>2, <2>5, <2>6, <2>7, <2>9 DEF StreamInv
<1> QED
  BY <1>4, <1>5

(***************************************************************************)
(* The steps of the pipelines and of the walk-forward runner.              *)
(***************************************************************************)
\* No answer is kept over a step of another kind.
LEMMA NothingServed == answer' = NotServed => AnswerInv'
BY DEF AnswerInv, NotServed

\* At first nothing is fitted, stored, answered or walked.
LEMMA InitModels == ModelInit => ModelInv
<1> SUFFICES ASSUME ModelInit PROVE ModelInv
  OBVIOUS
<1>1. /\ pipelines \in [Pipelines -> {Unfitted(k, s) : k \in Kinds, s \in BOOLEAN}]
      /\ stored = <<>> /\ answer = NotServed /\ walk = NoWalk
      /\ standing = [p \in Pipelines \cup {OnDisk} |-> "never"]
  BY DEF ModelInit
<1>2. ASSUME NEW k \in Kinds, NEW s \in BOOLEAN
      PROVE  /\ DOMAIN Unfitted(k, s) = PipelineFields /\ Unfitted(k, s).kind = k
             /\ Unfitted(k, s).standardize = s /\ ~Unfitted(k, s).fitted
  BY DEF Unfitted, PipelineFields
<1>3. ASSUME NEW p \in Pipelines PROVE PipelineInv(pipelines[p], standing[p])
  <2>1. PICK k \in Kinds, s \in BOOLEAN : pipelines[p] = Unfitted(k, s)
    BY <1>1
  <2>2. standing[p] = "never"
    BY <1>1
  <2> QED
    BY <1>2, <2>1, <2>2 DEF PipelineInv
<1>4. StreamInv(stored, standing[OnDisk])
  <2>1. stored \in Seq({}) /\ DOMAIN stored = {} /\ standing[OnDisk] = "never"
    BY <1>1
  <2> QED
    BY <1>1, <2>1 DEF StreamInv
<1>5. AnswerInv
  BY <1>1 DEF AnswerInv, NotServed
<1>6. WalkInv
  <2> DEFINE w == NoWalk
             u == Unfitted("linear", TRUE)
  <2>1. u.kind = "linear" /\ DOMAIN u = PipelineFields /\ u.standardize \in BOOLEAN
    BY <1>2 DEF Kinds
  <2> HIDE DEF u
  <2>2. /\ DOMAIN w = {"folds", "next", "pipe", "results", "fitted", "skipped", "status"}
        /\ w.folds = <<>> /\ w.results = <<>> /\ w.next = 1 /\ w.fitted = 0 /\ w.skipped = 0
        /\ w.status = "idle" /\ w.pipe = u
    BY DEF NoWalk, u
  <2> HIDE DEF w
  <2>3. walk = w
    BY <1>1 DEF w
  <2>4. walk.folds \in Seq([train : SUBSET Nat, test : SUBSET Nat]) /\ walk.results \in Seq({})
    <3>1. \A S : <<>> \in Seq(S)
      OBVIOUS
    <3> QED
      BY <2>2, <2>3, <3>1, Zenon
  <2>5. Len(walk.folds) = 0 /\ DOMAIN walk.folds = {} /\ DOMAIN walk.results = {}
    BY <2>2, <2>3
  <2> QED
    BY <2>1, <2>2, <2>3, <2>4, <2>5 DEF WalkInv, Kinds
<1> QED
  BY <1>1, <1>3, <1>4, <1>5, <1>6 DEF ModelInv

\* A function changed at one argument.
Turns(f, g, p, v) == DOMAIN g = DOMAIN f /\ \A q \in DOMAIN f : g[q] = IF q = p THEN v ELSE f[q]

\* A step of a pipeline's own: the stream and the walk stay, its mark and its numbers change.
LEMMA OnePipelineChanges ==
  ASSUME ModelInv, NEW p \in Pipelines, NEW pl, NEW stands, PipelineInv(pl, stands),
         Turns(pipelines, pipelines', p, pl), Turns(standing, standing', p, stands),
         UNCHANGED <<stored, walk>>, answer' = NotServed
  PROVE  ModelInv'
<1>1. p # OnDisk /\ p \in DOMAIN pipelines /\ p \in DOMAIN standing /\ OnDisk \in DOMAIN standing
  BY StreamAssumption DEF ModelInv, StreamAssumption
<1>2. /\ DOMAIN pipelines' = Pipelines /\ DOMAIN standing' = Pipelines \cup {OnDisk}
      /\ standing'[OnDisk] = standing[OnDisk]
  BY <1>1 DEF ModelInv, Turns
<1>3. ASSUME NEW q \in Pipelines PROVE PipelineInv(pipelines'[q], standing'[q])
  <2>1. CASE q = p
    BY <1>1, <2>1 DEF Turns
  <2>2. CASE q # p
    BY <1>1, <2>2 DEF ModelInv, Turns
  <2> QED
    BY <2>1, <2>2
<1>4. WalkInv'
  BY DEF ModelInv, WalkInv, ResultInv
<1>5. AnswerInv'
  BY NothingServed
<1> QED
  BY <1>2, <1>3, <1>4, <1>5 DEF ModelInv

\* A fit: refused rows change nothing, and a failed one leaves no model that could answer.
LEMMA FitKeeps ==
  ASSUME ModelInv, NEW p \in Pipelines, NEW rows, Fit(p, rows)
  PROVE  ModelInv'
<1> DEFINE pl == pipelines[p]
<1>0. PipelineInv(pl, standing[p]) /\ pl.kind \in Kinds
  BY DEF ModelInv, PipelineInv
<1>1. PICK fits \in ModelFits(pl.kind, rows) :
          /\ pipelines' = IF Trainable(rows) /\ Scalable(pl, rows)
                          THEN [pipelines EXCEPT ![p] = Fitted(pl, rows, fits)]
                          ELSE pipelines
          /\ standing' = IF Trainable(rows) /\ Scalable(pl, rows) /\ fits
                         THEN [standing EXCEPT ![p] = "sound"] ELSE standing
          /\ answer' = NotServed
          /\ UNCHANGED <<ups, stored, walk>>
  BY DEF Fit
<1>2. fits \in BOOLEAN
  BY <1>0, <1>1 DEF ModelFits, LinearFits, LogisticFits, BaselineFits, Kinds
<1> DEFINE new == Fitted(pl, rows, fits)
<1>3. p \in DOMAIN pipelines /\ p \in DOMAIN standing
  BY DEF ModelInv
<1>4. CASE ~(Trainable(rows) /\ Scalable(pl, rows))
  <2>1. UNCHANGED <<pipelines, standing, stored, walk>>
    BY <1>1, <1>4
  <2>2. Turns(pipelines, pipelines', p, pl) /\ Turns(standing, standing', p, standing[p])
    BY <1>3, <2>1 DEF Turns
  <2> QED
    BY <1>0, <1>1, <2>2, OnePipelineChanges
<1>5. CASE Trainable(rows) /\ Scalable(pl, rows) /\ ~fits
  <2>1. Turns(pipelines, pipelines', p, new) /\ Turns(standing, standing', p, standing[p])
    BY <1>1, <1>3, <1>5 DEF Turns
  <2>2. DOMAIN pl = PipelineFields /\ pl.standardize \in BOOLEAN
    BY <1>0 DEF PipelineInv
  <2> HIDE DEF pl
  <2>3. /\ DOMAIN new = PipelineFields /\ new.kind = pl.kind /\ new.standardize = pl.standardize
        /\ new.fitted = pl.fitted /\ new.modelFitted = FALSE
    <3>1. FitOf(pl, rows, fits, new)
      BY <1>2, <2>2, FittedIs, Zenon
    <3> QED
      BY <1>5, <3>1 DEF FitOf
  <2> HIDE DEF new
  <2>4. PipelineInv(new, standing[p])
    BY <1>0, <2>3 DEF PipelineInv
  <2> QED
    BY <1>1, <2>1, <2>4, OnePipelineChanges
<1>6. CASE Trainable(rows) /\ Scalable(pl, rows) /\ fits
  <2>1. Turns(pipelines, pipelines', p, new) /\ Turns(standing, standing', p, "sound")
    BY <1>1, <1>3, <1>6 DEF Turns
  <2>2. DOMAIN pl = PipelineFields /\ pl.standardize \in BOOLEAN
    BY <1>0 DEF PipelineInv
  <2> HIDE DEF pl
  <2>3. DOMAIN new = PipelineFields /\ new.kind = pl.kind /\ new.standardize = pl.standardize
    <3>1. FitOf(pl, rows, fits, new)
      BY <1>2, <2>2, FittedIs, Zenon
    <3> QED
      BY <3>1 DEF FitOf
  <2>4. OneFit(new)
    <3>1. new = Fitted(pl, rows, TRUE)
      BY <1>2, <1>6
    <3> HIDE DEF new
    <3>2. OneFitOf(new, rows)
      BY <1>6, <2>2, <3>1, FittedIsOneFit, Zenon
    <3> QED
      BY <3>2 DEF OneFitOf
  <2> HIDE DEF new
  <2>5. PipelineInv(new, "sound")
    BY <1>0, <2>2, <2>3, <2>4 DEF PipelineInv
  <2> QED
    BY <1>1, <2>1, <2>5, OnePipelineChanges
<1> QED
  BY <1>4, <1>5, <1>6

\* A load of the stream: a refused one costs the pipeline its mark, a whole one passes on the saver's.
LEMMA LoadKeeps ==
  ASSUME ModelInv, NEW p \in Pipelines, LoadInto(p)
  PROVE  ModelInv'
<1> DEFINE pl == pipelines[p]
<1>0. PipelineInv(pl, standing[p]) /\ StreamInv(stored, standing[OnDisk])
  BY DEF ModelInv
<1>1. PICK r \in AfterLoad(pl) :
       /\ pipelines' = [pipelines EXCEPT ![p] = MarkLoaded(r)]
       /\ standing' = [standing EXCEPT ![p] = IF r.ok THEN standing[OnDisk]
                                              ELSE IF @ = "never" THEN @ ELSE "disturbed"]
       /\ answer' = NotServed
       /\ UNCHANGED <<ups, stored, walk>>
  BY DEF LoadInto
<1>2. DOMAIN pl = PipelineFields /\ pl.standardize \in BOOLEAN /\ pl.kind \in Kinds
  BY <1>0 DEF PipelineInv
<1> DEFINE stands == IF r.ok THEN standing[OnDisk]
                     ELSE IF standing[p] = "never" THEN "never" ELSE "disturbed"
           new == MarkLoaded(r)
<1>3. Turns(standing, standing', p, stands) /\ Turns(pipelines, pipelines', p, new)
  <2>1. p \in DOMAIN standing /\ p \in DOMAIN pipelines
    BY DEF ModelInv
  <2>2. Turns(pipelines, pipelines', p, new)
    BY <1>1, <2>1 DEF Turns
  <2>3. Turns(standing, standing', p, stands)
    BY <1>1, <2>1 DEF Turns
  <2> QED
    BY <2>2, <2>3
<1> HIDE DEF pl
<1>4. /\ r.ok \in BOOLEAN
      /\ DOMAIN r.pl = PipelineFields /\ r.pl.kind = pl.kind /\ r.pl.fitted = pl.fitted
      /\ r.pl.standardize \in {pl.standardize} \cup BOOLEAN
      /\ r.ok => standing[OnDisk] # "never"
      /\ r.ok /\ standing[OnDisk] = "sound" => OneFit(r.pl)
  BY <1>0, <1>2, LoadReads
<1>5. PipelineInv(new, stands)
  <2>1. CASE r.ok
    <3> DEFINE q == r.pl
    <3>1. new = [q EXCEPT !.fitted = TRUE] /\ stands = standing[OnDisk]
      BY <2>1 DEF MarkLoaded
    <3> HIDE DEF new, stands, q
    <3>2. /\ DOMAIN q = PipelineFields /\ q.kind \in Kinds /\ q.standardize \in BOOLEAN
          /\ (standing[OnDisk] = "sound" => OneFit(q))
      BY <1>2, <1>4, <2>1 DEF q
    <3>3. /\ DOMAIN new = PipelineFields /\ new.kind = q.kind /\ new.standardize = q.standardize
          /\ new.scaler = q.scaler /\ new.params = q.params
      BY <3>1, <3>2 DEF PipelineFields
    <3>4. OneFit(q) => OneFit(new)
      BY <3>3 DEF OneFit, ScaleUsed
    <3> QED
      BY <1>4, <2>1, <3>1, <3>2, <3>3, <3>4 DEF PipelineInv
  <2>2. CASE ~r.ok
    <3>1. new = r.pl /\ stands = IF standing[p] = "never" THEN "never" ELSE "disturbed"
      BY <2>2 DEF MarkLoaded
    <3>2. stands = "never" => ~pl.fitted
      BY <1>0, <3>1 DEF PipelineInv
    <3>3. stands # "sound"
      BY <3>1
    <3> HIDE DEF new, stands
    <3> QED
      BY <1>2, <1>4, <3>1, <3>2, <3>3 DEF PipelineInv
  <2> QED
    BY <2>1, <2>2
<1> HIDE DEF new, stands
<1> QED
  BY <1>1, <1>3, <1>5, OnePipelineChanges DEF new

\* A save: the stream is of the pipeline that wrote it, and stands as it does.
LEMMA SaveKeeps ==
  ASSUME ModelInv, NEW p \in Pipelines, Save(p)
  PROVE  ModelInv'
<1> DEFINE pl == pipelines[p]
<1>0. PipelineInv(pl, standing[p]) /\ StreamInv(stored, standing[OnDisk]) /\ p # OnDisk
  BY StreamAssumption DEF ModelInv, StreamAssumption
<1>1. /\ stored' = IF ~pl.fitted THEN stored
                   ELSE IF pl.modelFitted THEN StoredForm(pl)
                   ELSE SubSeq(StoredForm(pl), 1, IF pl.standardize THEN 2 ELSE 1)
      /\ standing' = [standing EXCEPT ![OnDisk] = IF pl.fitted THEN standing[p] ELSE @]
      /\ answer' = NotServed
      /\ UNCHANGED <<ups, pipelines, walk>>
  BY DEF Save
<1>2. /\ DOMAIN standing' = Pipelines \cup {OnDisk}
      /\ standing'[OnDisk] = (IF pl.fitted THEN standing[p] ELSE standing[OnDisk])
      /\ \A q \in Pipelines : standing'[q] = standing[q]
  BY <1>1, StreamAssumption DEF ModelInv, StreamAssumption
<1>3. StreamInv(stored', standing'[OnDisk])
  <2>1. CASE ~pl.fitted
    BY <1>0, <1>1, <1>2, <2>1
  <2>2. CASE pl.fitted
    <3> DEFINE s == stored'
    <3>1. standing[p] # "never" /\ standing'[OnDisk] = standing[p]
      BY <1>0, <1>2, <2>2 DEF PipelineInv
    <3>2. s = IF pl.modelFitted THEN StoredForm(pl)
              ELSE SubSeq(StoredForm(pl), 1, IF pl.standardize THEN 2 ELSE 1)
      BY <1>1, <2>2
    <3> HIDE DEF s, pl
    <3>3. StreamInv(s, standing[p])
      BY <1>0, <3>1, <3>2, SavedStream, Zenon
    <3> QED
      BY <3>1, <3>3 DEF s
  <2> QED
    BY <2>1, <2>2
<1>4. WalkInv'
  BY <1>1 DEF ModelInv, WalkInv, ResultInv
<1>5. AnswerInv'
  BY <1>1, NothingServed
<1>6. \A q \in Pipelines : PipelineInv(pipelines'[q], standing'[q])
  BY <1>1, <1>2 DEF ModelInv
<1> QED
  BY <1>1, <1>2, <1>3, <1>4, <1>5, <1>6 DEF ModelInv

\* A fault that cuts or changes the stream.
LEMMA DamageKeeps ==
  ASSUME "scaler" \notin DamagedBlocks, ModelInv, StreamDamaged
  PROVE  ModelInv'
<1>1. StreamInv(stored', standing[OnDisk])
  BY DamageLeaves DEF ModelInv
<1>2. answer' = NotServed /\ UNCHANGED <<pipelines, standing, walk>>
  BY DEF StreamDamaged
<1>3. WalkInv'
  BY <1>2 DEF ModelInv, WalkInv, ResultInv
<1>4. AnswerInv'
  BY <1>2, NothingServed
<1> QED
  BY <1>1, <1>2, <1>3, <1>4 DEF ModelInv

\* A prediction is served from the scaler and the parameters as they are.
LEMMA PredictKeeps ==
  ASSUME ModelInv, NEW p \in Pipelines, NEW rows, Predict(p, rows)
  PROVE  ModelInv'
<1> DEFINE pl == pipelines[p]
           given == [given |-> TRUE, by |-> p, scale |-> ScaleUsed(pl), params |-> pl.params]
<1>1. /\ answer' = IF CanPredict(pl, rows) THEN given ELSE NotServed
      /\ UNCHANGED <<ups, pipelines, stored, standing, walk>>
  BY DEF Predict
<1>2. AnswerInv'
  <2>1. CASE ~CanPredict(pl, rows)
    BY <1>1, <2>1, NothingServed
  <2>2. CASE CanPredict(pl, rows)
    <3>1. answer' = given
      BY <1>1, <2>2
    <3>2. given.by = p /\ given.scale = ScaleUsed(pl) /\ given.params = pl.params
      OBVIOUS
    <3> HIDE DEF given, pl
    <3>3. answer'.by = p /\ answer'.scale = ScaleUsed(pl) /\ answer'.params = pl.params
      BY <3>1, <3>2
    <3>4. PipelineInv(pl, standing[p]) /\ pl.fitted /\ pl.modelFitted
      BY <2>2 DEF ModelInv, CanPredict, pl
    <3>5. standing[p] # "never" /\ (standing[p] = "sound" => OneFit(pl))
      BY <3>4 DEF PipelineInv
    <3>6. OneFit(pl) => OfOneFit'
      BY <3>3 DEF OneFit, OfOneFit
    <3>7. standing'[answer'.by] = standing[p]
      BY <1>1, <3>3
    <3> QED
      BY <3>5, <3>6, <3>7 DEF AnswerInv
  <2> QED
    BY <2>1, <2>2
<1>3. WalkInv'
  BY <1>1 DEF ModelInv, WalkInv, ResultInv
<1> QED
  BY <1>1, <1>2, <1>3 DEF ModelInv

\* A step of the runner leaves the pipelines alone.
LEMMA WalkMoves ==
  ASSUME ModelInv, UNCHANGED <<pipelines, stored, standing>>, answer' = NotServed, WalkInv'
  PROVE  ModelInv'
<1>1. AnswerInv'
  BY NothingServed
<1> QED
  BY <1>1 DEF ModelInv

\* A run begins with the folds of its plan, none of them predicted.
LEMMA RunBeginsKeeps ==
  ASSUME ModelInv, NEW folds \in FoldPlans, NEW kind \in Kinds, NEW standardize \in BOOLEAN,
         RunBegins(folds, kind, standardize)
  PROVE  ModelInv'
<1> DEFINE u == Unfitted(kind, standardize)
           n == NoWalk
           w1 == [n EXCEPT !.folds = folds]
           w2 == [w1 EXCEPT !.pipe = u]
           F == {"folds", "next", "pipe", "results", "fitted", "skipped", "status"}
           R == [train : SUBSET Nat, test : SUBSET Nat]
<1>1. /\ walk' = [w2 EXCEPT !.status = "running"] /\ answer' = NotServed
      /\ UNCHANGED <<ups, pipelines, stored, standing>>
  BY DEF RunBegins
<1>2. folds \in Seq(R) /\ \A i \in DOMAIN folds : folds[i].train \cap folds[i].test = {}
  BY ModelDataAssumption DEF ModelDataAssumption
<1>3. DOMAIN u = PipelineFields /\ u.standardize = standardize /\ u.kind = kind
  BY DEF Unfitted, PipelineFields
<1> HIDE DEF u
<1>4. /\ DOMAIN n = F /\ n.next = 1 /\ n.results = <<>> /\ n.fitted = 0 /\ n.skipped = 0
  BY DEF NoWalk
<1> HIDE DEF n
<1>5. /\ DOMAIN w1 = F /\ w1.next = 1 /\ w1.results = <<>> /\ w1.fitted = 0 /\ w1.skipped = 0
      /\ w1.folds = folds
  BY <1>4
<1> HIDE DEF w1
<1>6. /\ DOMAIN w2 = F /\ w2.next = 1 /\ w2.results = <<>> /\ w2.fitted = 0 /\ w2.skipped = 0
      /\ w2.folds = folds /\ w2.pipe = u
  BY <1>5
<1> HIDE DEF w2
<1>7. /\ DOMAIN walk' = F /\ walk'.next = 1 /\ walk'.results = <<>> /\ walk'.fitted = 0
      /\ walk'.skipped = 0 /\ walk'.folds = folds /\ walk'.pipe = u /\ walk'.status = "running"
  BY <1>1, <1>6
<1>8. walk'.results \in Seq({}) /\ DOMAIN walk'.results = {}
  <2>1. <<>> \in Seq({}) /\ DOMAIN <<>> = {}
    OBVIOUS
  <2> QED
    BY <1>7, <2>1
<1>9. walk'.folds \in Seq(R) /\ Len(walk'.folds) \in Nat
  <2> HIDE DEF R
  <2> QED
    BY <1>2, <1>7
<1>10. \E S : walk'.results \in Seq(S)
  BY <1>8
<1>11. /\ walk'.next \in Nat /\ walk'.fitted \in Nat /\ walk'.skipped \in Nat
       /\ walk'.next <= Len(walk'.folds) + 1 /\ walk'.fitted + walk'.skipped = walk'.next - 1
       /\ walk'.status # "done"
  BY <1>7, <1>9
<1>12. /\ DOMAIN walk'.pipe = PipelineFields /\ walk'.pipe.standardize \in BOOLEAN /\ walk'.pipe.kind \in Kinds
       /\ \A i \in DOMAIN walk'.folds : walk'.folds[i].train \cap walk'.folds[i].test = {}
  BY <1>2, <1>3, <1>7
<1> HIDE DEF R, F
<1>13. WalkInv'
  BY <1>7, <1>8, <1>9, <1>10, <1>11, <1>12 DEF WalkInv, F, R
<1> QED
  BY <1>1, <1>13, WalkMoves

\* The fields of a walk.
WalkFields == {"folds", "next", "pipe", "results", "fitted", "skipped", "status"}

\* A fold is counted as skipped.
LEMMA SkipKeeps ==
  ASSUME WalkInv, walk.next <= Len(walk.folds), walk.status = "running", walk' = Skip(walk)
  PROVE  WalkInv'
<1> DEFINE w == [walk EXCEPT !.skipped = @ + 1]
<1>1. DOMAIN walk = WalkFields
  BY DEF WalkInv, WalkFields
<1>2. /\ DOMAIN w = WalkFields /\ w.skipped = walk.skipped + 1 /\ w.next = walk.next
      /\ w.folds = walk.folds /\ w.results = walk.results /\ w.fitted = walk.fitted
      /\ w.pipe = walk.pipe /\ w.status = walk.status
  BY <1>1 DEF WalkFields
<1>3. walk' = [w EXCEPT !.next = @ + 1]
  BY DEF Skip
<1> HIDE DEF w
<1>4. /\ DOMAIN walk' = WalkFields /\ walk'.skipped = walk.skipped + 1 /\ walk'.next = walk.next + 1
      /\ walk'.folds = walk.folds /\ walk'.results = walk.results /\ walk'.fitted = walk.fitted
      /\ walk'.pipe = walk.pipe /\ walk'.status = walk.status
  BY <1>2, <1>3 DEF WalkFields
<1>6. /\ walk'.next \in Nat /\ walk'.fitted \in Nat /\ walk'.skipped \in Nat
      /\ walk'.next <= Len(walk'.folds) + 1 /\ walk'.fitted + walk'.skipped = walk'.next - 1
  <2>1. /\ walk.next \in Nat /\ walk.fitted \in Nat /\ walk.skipped \in Nat
        /\ walk.fitted + walk.skipped = walk.next - 1
    BY DEF WalkInv
  <2>2. Len(walk.folds) \in Nat
    <3> DEFINE R == [train : SUBSET Nat, test : SUBSET Nat]
    <3>1. walk.folds \in Seq(R)
      BY DEF WalkInv
    <3> HIDE DEF R
    <3> QED
      BY <3>1
  <2> QED
    BY <1>4, <2>1, <2>2
<1>7. walk'.status # "done"
  BY <1>4
<1> QED
  BY <1>4, <1>6, <1>7 DEF WalkInv, WalkFields

\* The result of a fold that was fitted and predicted.
LEMMA ResultKeeps ==
  ASSUME WalkInv, walk.next <= Len(walk.folds), walk.status = "running",
         NEW fold, fold = walk.folds[walk.next], Trainable(fold.train),
         NEW pl, pl = Fitted(walk.pipe, fold.train, TRUE),
         walk' = [walk EXCEPT !.results = Append(@, FoldResult(fold, pl)), !.fitted = @ + 1, !.next = @ + 1]
  PROVE  WalkInv'
<1> DEFINE r == FoldResult(fold, pl)
           more == Append(walk.results, r)
           w1 == [walk EXCEPT !.results = more]
           w2 == [w1 EXCEPT !.fitted = @ + 1]
           R == [train : SUBSET Nat, test : SUBSET Nat]
<1>0. walk' = [w2 EXCEPT !.next = @ + 1]
  OBVIOUS
<1> HIDE DEF r, R
<1>1. DOMAIN walk = WalkFields /\ walk.folds \in Seq(R)
  BY DEF WalkInv, WalkFields, R
<1> HIDE DEF more
<1>2. /\ DOMAIN w1 = WalkFields /\ w1.results = more /\ w1.fitted = walk.fitted
      /\ w1.folds = walk.folds /\ w1.next = walk.next /\ w1.skipped = walk.skipped
      /\ w1.pipe = walk.pipe /\ w1.status = walk.status
  BY <1>1 DEF WalkFields
<1> HIDE DEF w1
<1>3. /\ DOMAIN w2 = WalkFields /\ w2.results = more /\ w2.fitted = walk.fitted + 1
      /\ w2.folds = walk.folds /\ w2.next = walk.next /\ w2.skipped = walk.skipped
      /\ w2.pipe = walk.pipe /\ w2.status = walk.status
  BY <1>2 DEF WalkFields
<1> HIDE DEF w2
<1>4. /\ DOMAIN walk' = WalkFields /\ walk'.results = more /\ walk'.fitted = walk.fitted + 1
      /\ walk'.folds = walk.folds /\ walk'.next = walk.next + 1 /\ walk'.skipped = walk.skipped
      /\ walk'.pipe = walk.pipe /\ walk'.status = walk.status
  BY <1>0, <1>3 DEF WalkFields
<1>5. /\ walk.next \in Nat /\ walk.fitted \in Nat /\ walk.skipped \in Nat
      /\ walk.fitted + walk.skipped = walk.next - 1
  BY DEF WalkInv
<1>6. Len(walk.folds) \in Nat /\ DOMAIN walk.folds = 1..Len(walk.folds)
  BY <1>1
<1>7. walk.next \in DOMAIN walk.folds
  BY <1>5, <1>6
<1>8. ResultInv(r, walk.folds)
  <2>1. DOMAIN walk.pipe = PipelineFields /\ walk.pipe.standardize \in BOOLEAN
    BY DEF WalkInv
  <2>2. OneFit(pl) /\ pl.params.rows = fold.train
    <3> DEFINE pipe == walk.pipe
               rows == fold.train
    <3>1. DOMAIN pipe = PipelineFields /\ pipe.standardize \in BOOLEAN /\ Trainable(rows)
      BY <2>1
    <3>3. pl = Fitted(pipe, rows, TRUE)
      OBVIOUS
    <3> HIDE DEF pipe, rows
    <3>4. OneFitOf(pl, rows)
      BY <3>1, <3>3, FittedIsOneFit, Zenon
    <3>2. OneFit(pl) /\ pl.params.rows = rows
      BY <3>4 DEF OneFitOf
    <3> QED
      BY <3>2 DEF rows
  <2>3. r.test = fold.test /\ r.scale = ScaleUsed(pl) /\ r.params = pl.params
    BY DEF r, FoldResult
  <2>4. fold \in Range(walk.folds)
    BY <1>7 DEF Range
  <2>5. fold.train \cap fold.test = {}
    BY <1>7 DEF WalkInv
  <2> QED
    BY <2>2, <2>3, <2>4, <2>5 DEF ResultInv, OneFit
<1>10. (\E S : walk'.results \in Seq(S)) /\ \A i \in DOMAIN walk'.results : ResultInv(walk'.results[i], walk'.folds)
  <2>1. PICK S : walk.results \in Seq(S)
    BY DEF WalkInv
  <2>2. walk.results \in Seq(S \cup {r}) /\ r \in S \cup {r}
    BY <2>1, SeqDef
  <2> DEFINE T == S \cup {r}
             old == walk.results
             k == Len(old)
  <2> HIDE DEF T
  <2>3. /\ more \in Seq(T) /\ k \in Nat /\ Len(more) = k + 1 /\ more[k + 1] = r
        /\ \A i \in 1..k : more[i] = old[i]
    BY <2>2 DEF T, more
  <2>4. DOMAIN more = 1..(k + 1) /\ DOMAIN old = 1..k
    BY <2>1, <2>3
  <2>5. \A i \in 1..k : ResultInv(old[i], walk.folds)
    BY <2>4 DEF WalkInv
  <2> HIDE DEF old, k
  <2>6. ASSUME NEW i \in DOMAIN more PROVE ResultInv(more[i], walk.folds)
    <3>1. CASE i = k + 1
      BY <1>8, <2>3, <3>1
    <3>2. CASE i \in 1..k
      BY <2>3, <2>5, <3>2
    <3> QED
      BY <2>3, <2>4, <3>1, <3>2
  <2> QED
    BY <1>4, <2>3, <2>6
<1>11. /\ walk'.next \in Nat /\ walk'.fitted \in Nat /\ walk'.skipped \in Nat
       /\ walk'.next <= Len(walk'.folds) + 1 /\ walk'.fitted + walk'.skipped = walk'.next - 1
  <2> DEFINE f == walk.fitted
             k == walk.skipped
             l == Len(walk.folds)
             x == walk.next
  <2>1. f \in Nat /\ k \in Nat /\ l \in Nat /\ x \in Nat /\ f + k = x - 1 /\ x <= l
    BY <1>5, <1>6
  <2>2. walk'.next = x + 1 /\ walk'.fitted = f + 1 /\ walk'.skipped = k /\ Len(walk'.folds) = l
    BY <1>4
  <2> HIDE DEF f, k, l, x
  <2> QED
    BY <2>1, <2>2
<1>12. walk'.status # "done"
  BY <1>4
<1>13. /\ walk'.folds \in Seq(R) /\ DOMAIN walk'.pipe = PipelineFields
       /\ walk'.pipe.standardize \in BOOLEAN /\ walk'.pipe.kind \in Kinds
       /\ \A i \in DOMAIN walk'.folds : walk'.folds[i].train \cap walk'.folds[i].test = {}
  BY <1>1, <1>4 DEF WalkInv
<1> HIDE DEF more
<1> QED
  BY <1>4, <1>10, <1>11, <1>12, <1>13 DEF WalkInv, WalkFields, R

\* The run fails or is done, and nothing else changes.
LEMMA StatusKeeps ==
  ASSUME WalkInv, NEW status, walk' = [walk EXCEPT !.status = status],
         status = "done" => walk.next = Len(walk.folds) + 1
  PROVE  WalkInv'
<1>1. /\ DOMAIN walk' = WalkFields /\ walk'.results = walk.results /\ walk'.fitted = walk.fitted
      /\ walk'.folds = walk.folds /\ walk'.next = walk.next /\ walk'.skipped = walk.skipped
      /\ walk'.pipe = walk.pipe /\ walk'.status = status
  BY DEF WalkInv, WalkFields
<1> QED
  BY <1>1 DEF WalkInv, WalkFields

\* A step of the runner: a fold is skipped, fails the run, or is fitted and predicted.
LEMMA RunMoves ==
  ASSUME ModelInv, RunFold \/ RunEnds
  PROVE  ModelInv'
<1>0. WalkInv
  BY DEF ModelInv
<1>1. CASE RunEnds
  <2>1. /\ walk' = [walk EXCEPT !.status = IF walk.fitted = 0 THEN "failed" ELSE "done"]
        /\ walk.next > Len(walk.folds) /\ answer' = NotServed /\ UNCHANGED <<pipelines, stored, standing>>
    BY <1>1 DEF RunEnds
  <2>2. walk.next = Len(walk.folds) + 1
    <3> DEFINE R == [train : SUBSET Nat, test : SUBSET Nat]
    <3>1. walk.folds \in Seq(R) /\ walk.next \in Nat /\ walk.next <= Len(walk.folds) + 1
      BY <1>0 DEF WalkInv
    <3> HIDE DEF R
    <3> QED
      BY <2>1, <3>1
  <2>3. WalkInv'
    BY <1>0, <2>1, <2>2, StatusKeeps
  <2> QED
    BY <2>1, <2>3, WalkMoves
<1>2. CASE RunFold
  <2> DEFINE fold == walk.folds[walk.next]
             fresh == walk.pipe
  <2>1. /\ walk.status = "running" /\ walk.next <= Len(walk.folds)
        /\ answer' = NotServed /\ UNCHANGED <<pipelines, stored, standing>>
    BY <1>2 DEF RunFold
  <2>2. PICK fits \in ModelFits(fresh.kind, fold.train) :
          walk' = IF fold.train = {} \/ fold.test = {} \/ ~Trainable(fold.train)
                     \/ ~Scalable(fresh, fold.train) \/ ~fits
                  THEN Skip(walk)
                  ELSE IF ~CanPredict(Fitted(fresh, fold.train, fits), fold.test)
                  THEN [walk EXCEPT !.status = "failed"]
                  ELSE [walk EXCEPT !.results = Append(@, FoldResult(fold, Fitted(fresh, fold.train, fits))),
                                    !.fitted = @ + 1, !.next = @ + 1]
    BY <1>2 DEF RunFold
  <2>3. fits \in BOOLEAN
    <3>1. fresh.kind \in Kinds
      BY <1>0 DEF WalkInv
    <3> QED
      BY <2>2, <3>1 DEF ModelFits, LinearFits, LogisticFits, BaselineFits, Kinds
  <2>4. CASE walk' = Skip(walk)
    <3>1. WalkInv'
      BY <1>0, <2>1, <2>4, SkipKeeps
    <3> QED
      BY <2>1, <3>1, WalkMoves
  <2>5. CASE walk' = [walk EXCEPT !.status = "failed"]
    <3>1. WalkInv'
      BY <1>0, <2>5, StatusKeeps
    <3> QED
      BY <2>1, <3>1, WalkMoves
  <2>6. CASE /\ Trainable(fold.train) /\ fits
             /\ walk' = [walk EXCEPT !.results = Append(@, FoldResult(fold, Fitted(fresh, fold.train, fits))),
                                     !.fitted = @ + 1, !.next = @ + 1]
    <3> DEFINE pl == Fitted(fresh, fold.train, TRUE)
    <3>1. walk' = [walk EXCEPT !.results = Append(@, FoldResult(fold, pl)), !.fitted = @ + 1, !.next = @ + 1]
      BY <2>3, <2>6
    <3>2. Trainable(fold.train) /\ pl = Fitted(walk.pipe, fold.train, TRUE)
      BY <2>6
    <3>3. WalkInv'
      BY <1>0, <2>1, <3>1, <3>2, ResultKeeps
    <3> QED
      BY <2>1, <3>3, WalkMoves
  <2> QED
    BY <2>2, <2>3, <2>4, <2>5, <2>6
<1> QED
  BY <1>1, <1>2

\* Every step, of the pipelines and of the runner.
LEMMA StepModels ==
  ASSUME "scaler" \notin DamagedBlocks, ModelInv, [ModelNext]_modelVars
  PROVE  ModelInv'
<1>1. CASE UNCHANGED modelVars
  <2>1. UNCHANGED <<pipelines, stored, answer, standing, walk>>
    BY <1>1 DEF modelVars
  <2> QED
    BY <2>1 DEF ModelInv, AnswerInv, OfOneFit, WalkInv, ResultInv
<1>2. CASE ModelNext
  BY <1>2, FitKeeps, PredictKeeps, SaveKeeps, LoadKeeps, DamageKeeps, RunBeginsKeeps, RunMoves DEF ModelNext
<1> QED
  BY <1>1, <1>2

\* As long as no fault hits the scaler's block, which no hash covers, an answer comes
\* from a fitted pipeline and, until a load into it is refused, from the scaler and the
\* parameters of one fit; the runner predicts each fold from a fit on its training rows
\* alone and accounts for every fold (Pipeline::fit, predict, save, load and
\* WalkForwardRunner::run).
THEOREM PredictedOutOfSample ==
  ASSUME "scaler" \notin DamagedBlocks
  PROVE  ModelSpec => []PredictionsAreOutOfSample
<1>1. ModelInv /\ [ModelNext]_modelVars => ModelInv'
  BY StepModels
<1>2. ModelInv => PredictionsAreOutOfSample
  <2> SUFFICES ASSUME ModelInv PROVE PredictionsAreOutOfSample
    OBVIOUS
  <2>1. WalkInv /\ AnswerInv
    BY DEF ModelInv
  <2>2. walk.status = "done" => walk.fitted + walk.skipped = Len(walk.folds)
    <3> DEFINE R == [train : SUBSET Nat, test : SUBSET Nat]
    <3>1. /\ walk.folds \in Seq(R) /\ walk.next \in Nat /\ walk.fitted \in Nat /\ walk.skipped \in Nat
          /\ walk.fitted + walk.skipped = walk.next - 1
          /\ walk.status = "done" => walk.next = Len(walk.folds) + 1
      BY <2>1 DEF WalkInv
    <3> HIDE DEF R
    <3> QED
      BY <3>1
  <2> QED
    BY <2>1, <2>2, Zenon DEF PredictionsAreOutOfSample, AnswerInv, WalkInv, ResultInv
<1> QED
  BY <1>1, <1>2, InitModels, PTL DEF ModelSpec
=============================================================================
