----------------------------- MODULE LiveBroker -----------------------------
(***************************************************************************)
(* The live broker adapter (live/broker.cpp), the listener that maps the   *)
(* venue's replies to orders (live/translator.cpp) and the part of the     *)
(* simulator that validates the fills it is told of (execution/broker.cpp, *)
(* ingest_external_fill).  A client order id is a prefix and the number of *)
(* the order, so the two are one id here.                                  *)
(*                                                                         *)
(* The venue keeps the orders it was sent, each with the process (life)    *)
(* that sent it: after a restart the ids of a new order book start at one  *)
(* again, and two orders of the venue may carry the same id.               *)
(***************************************************************************)
EXTENDS LiveLink

CONSTANTS MaxId,       \* bound on the ids of one process
          Lots,        \* quantity of every order
          MaxOrders    \* bound on the orders sent to the venue

ASSUME BrokerBounds == MaxId \in Nat /\ Lots \in Nat \ {0} /\ MaxOrders \in Nat

VARIABLES tracked,     \* LiveOrderListener::by_client_id_
          working,     \* LiveBroker::working_
          venueOf,     \* LiveBroker::venue_ids_; 0 while the venue gave none
          pending,     \* what the simulator holds of each order; 0 when none
          account,     \* shares behind the last account update; -1 when none
          batch,       \* messages of the current poll not handled yet
          nextId,      \* the order book's next id
          life,        \* which process this is
          orders,      \* the venue's orders
          booked, total,  \* venue fills this process has ingested
          simulated    \* shares the simulator itself filled, by order

brokerVars == <<tracked, working, venueOf, pending, account, batch, nextId, booked, total, simulated>>
venueVars  == <<orders, log>>

Ids == 1..MaxId

VenueOrder == [id: Ids, life: Nat, left: Nat, state: {"new", "open", "done"},
               asked: {"nothing", "cancel", "replace"}]

\* Ids as the venue and the broker know them.
IdOf(o) == orders[o].id

-----------------------------------------------------------------------------
(* Calls of the process that owns the broker.                              *)

\* submit(): registered with the simulator and the listener first; when the
\* transport refuses the payload both are taken back.
Submit(sent) ==
  LET id == nextId
  IN  /\ id \in Ids /\ Len(orders) < MaxOrders
      /\ PermitsTrading
      /\ nextId' = id + 1
      /\ pending' = [pending EXCEPT ![id] = IF sent THEN Lots ELSE 0]
      /\ tracked' = IF sent THEN tracked \cup {id} ELSE tracked \ {id}
      /\ working' = IF sent THEN working \cup {id} ELSE working
      /\ orders' = IF sent
                   THEN Append(orders, [id |-> id, life |-> life, left |-> Lots, state |-> "new",
                                        asked |-> "nothing"])
                   ELSE orders
      /\ UNCHANGED <<venueOf, account, batch, booked, total, simulated>>

\* Mutant of Asked: the cancelled order is taken for gone at once.
AskedAndDropped(id, what) ==
  /\ orders' = [orders EXCEPT ![venueOf[id]].asked = what]
  /\ working' = working \ {id} /\ tracked' = tracked \ {id}

\* cancel() and replace(): only once the venue has named the order; nothing
\* changes here until the venue answers.  One request at a time per order.
Asked(id, what) ==
  /\ orders' = [orders EXCEPT ![venueOf[id]].asked = what]
  /\ UNCHANGED <<working, tracked>>

Request(id, what) ==
  /\ venueOf[id] # 0 /\ orders[venueOf[id]].asked = "nothing" /\ PermitsTrading
  /\ Asked(id, what)
  /\ UNCHANGED <<venueOf, pending, account, batch, nextId, booked, total, simulated>>

-----------------------------------------------------------------------------
(* poll(): one message of the batch.                                       *)

Forget(id) == working' = working \ {id} /\ tracked' = tracked \ {id}

OnAccount(m) ==
  /\ account' = m.q
  /\ UNCHANGED <<tracked, working, venueOf, pending, booked, total>>

OnNamed(m) ==
  /\ venueOf' = [venueOf EXCEPT ![IdOf(m.o)] = m.o]
  /\ UNCHANGED <<tracked, working, pending, account, booked, total>>

OnGone(m) ==
  /\ Forget(IdOf(m.o))
  /\ pending' = [pending EXCEPT ![IdOf(m.o)] = 0]
  /\ UNCHANGED <<venueOf, account, booked, total>>

\* Mutant of Ingestible: the report is trusted.
IngestibleUnchecked(m) == pending[IdOf(m.o)] > 0

\* ingest_external_fill: the simulator must hold the order, with that much left.
Ingestible(m) == pending[IdOf(m.o)] >= m.q

OnFill(i, m) ==
  /\ pending' = [pending EXCEPT ![IdOf(m.o)] = @ - m.q]
  /\ booked' = booked \cup {i} /\ total' = total + m.q
  /\ IF m.kind = "fill" THEN Forget(IdOf(m.o)) ELSE UNCHANGED <<tracked, working>>
  /\ UNCHANGED <<venueOf, account>>

\* An update of an order nobody tracks, or a fill that cannot be validated,
\* ends the poll with an error; the rest of the batch is thrown away.
Refused(m) ==
  /\ m.kind \notin {"quote", "account"}
  /\ \/ IdOf(m.o) \notin tracked
     \/ m.kind \in FillKinds /\ ~Ingestible(m)

Handle(i, m) ==
  CASE m.kind = "quote"                      -> UNCHANGED <<tracked, working, venueOf, pending, account, booked, total>>
    [] m.kind = "account"                    -> OnAccount(m)
    [] m.kind \in {"accepted", "replaced"}   -> OnNamed(m)
    [] m.kind \in {"rejected", "cancelled"}  -> OnGone(m)
    [] m.kind \in FillKinds                  -> OnFill(i, m)

-----------------------------------------------------------------------------
(* The venue.                                                              *)

Says(o, kind, q, ahead) == Send(Message(kind, o, q, ahead))

VenueAnswers(o) ==
  /\ orders[o].state = "new"
  /\ \E yes \in BOOLEAN :
       /\ orders' = [orders EXCEPT ![o].state = IF yes THEN "open" ELSE "done"]
       /\ Says(o, IF yes THEN "accepted" ELSE "rejected", 0, FALSE)

VenueFills(o, q, ahead) ==
  /\ orders[o].state = "open" /\ q <= orders[o].left
  /\ orders' = [orders EXCEPT ![o].left = @ - q,
                              ![o].state = IF q = orders[o].left THEN "done" ELSE "open"]
  /\ Says(o, IF q = orders[o].left THEN "fill" ELSE "partial", q, ahead)

VenueCancels(o) ==
  /\ orders[o].state = "open" /\ orders[o].asked = "cancel"
  /\ orders' = [orders EXCEPT ![o].state = "done"]
  /\ Says(o, "cancelled", 0, FALSE)

\* A replace raises the quantity by one lot.
VenueReplaces(o) ==
  /\ orders[o].state = "open" /\ orders[o].asked = "replace"
  /\ orders' = [orders EXCEPT ![o].asked = "nothing", ![o].left = @ + 1]
  /\ Says(o, "replaced", 0, FALSE)

\* An account update carries the cash, which every execution changes.
VenueReports(shares) == Says(0, "account", shares, FALSE) /\ UNCHANGED orders
VenueQuotes == Says(0, "quote", 0, FALSE) /\ UNCHANGED orders

-----------------------------------------------------------------------------
\* A process starts with an empty broker, simulator and order book.
EmptyBroker ==
  /\ tracked = {} /\ working = {} /\ venueOf = [id \in Ids |-> 0]
  /\ pending = [id \in Ids |-> 0] /\ account = -1 /\ batch = <<>>
  /\ nextId = 1 /\ booked = {} /\ total = 0 /\ simulated = [id \in Ids |-> 0]
=============================================================================
