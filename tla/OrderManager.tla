---------------------------- MODULE OrderManager ----------------------------
(***************************************************************************)
(* The OMS (src/oms/order_manager.cpp): the book of order records, the id  *)
(* counter, and the validated state machine each record follows.  The      *)
(* environment may call any operation with any argument in any order,      *)
(* which is what the public interface permits; how the engine actually     *)
(* drives it is TradingCore.                                               *)
(*                                                                         *)
(* Every operation is written twice: as an operator on the value of the    *)
(* book, so that a composing module can chain several in one step, and as  *)
(* an action that assigns the result.                                      *)
(***************************************************************************)
EXTENDS OrderTypes, FiniteSets, Functions

CONSTANTS Instruments,   \* tradable instruments
          MaxId,         \* bound on order ids: the counter itself is 64 bits wide
          Quantities,    \* order and fill quantities
          DecisionTimes, \* decision_time of an order
          FillTimes,     \* fill_time of a fill
          Terms,         \* type, time in force and prices: kept, never read here
          Prices,        \* fill prices
          Costs          \* commission and fee of one fill

ASSUME IdBound == MaxId \in Nat \ {0}
ASSUME PositiveQuantities == Quantities \subseteq Nat \ {0}
ASSUME TimesAreNaturals == DecisionTimes \subseteq Nat /\ FillTimes \subseteq Nat
ASSUME MoneyIsNatural == Prices \subseteq Nat \ {0} /\ Costs \subseteq Nat

VARIABLES records,  \* OrderManager::records_, a map from id to record
          next      \* OrderManager::next_

omsVars == <<records, next>>

NoOrder == 0                  \* kNoOrder
Ids == 1..MaxId

Order == [inst: Instruments, side: Sides, qty: Quantities,
          parent: Ids \cup {NoOrder}, decision: DecisionTimes, terms: Terms]

OrderRecord == [order: Order, state: OrderStates,
                filled: Nat,     \* filled_quantity
                notional: Nat,   \* filled_notional
                cost: Nat]       \* total_cost

NewRecord(o) == [order |-> o, state |-> "new", filled |-> 0, notional |-> 0, cost |-> 0]

Fill == [id: Ids, inst: Instruments, side: Sides, qty: Quantities, time: FillTimes,
         price: Prices, cost: Costs]

Remaining(rec) == rec.order.qty - rec.filled

Live(book) == {id \in DOMAIN book : book[id].state \notin TerminalStates}

-----------------------------------------------------------------------------
(* Plausible slips in the operations below: each run property must reject   *)
(* one of them.                                                            *)

SubmittableWithoutDuplicateCheck(book, id, o) ==
  o.parent # NoOrder => o.parent \in DOMAIN book

FillMatchesTerminalToo(book, f) ==
  /\ f.id \in DOMAIN book
  /\ f.inst = book[f.id].order.inst /\ f.side = book[f.id].order.side
  /\ book[f.id].filled + f.qty <= book[f.id].order.qty
  /\ f.time > book[f.id].order.decision

FillMatchesWithoutOverfill(book, f) ==
  /\ f.id \in DOMAIN book
  /\ book[f.id].state \notin TerminalStates
  /\ f.inst = book[f.id].order.inst /\ f.side = book[f.id].order.side
  /\ f.time > book[f.id].order.decision

AnyFillCompletes(rec, q) == "filled"

FillBookedWithSignedQuantity(book, f) ==
  [book EXCEPT ![f.id].filled = @ + SignOf(f.side) * f.qty,
               ![f.id].state = "partially_filled"]

-----------------------------------------------------------------------------
(* Operations on the value of the book.                                    *)

\* submit: the two refusals, then the record.
Submittable(book, id, o) ==
  /\ id \notin DOMAIN book
  /\ o.parent # NoOrder => o.parent \in DOMAIN book

Submitted(book, id, o) ==
  [k \in DOMAIN book \cup {id} |->
     IF k = id THEN NewRecord(o) ELSE book[k]]

\* Slip: the counter follows only the ids it handed out itself.
CounterUnmoved(n, id) == n

\* The counter stays ahead of any externally supplied id.
CounterAfter(n, id) == IF id + 1 > n THEN id + 1 ELSE n

\* transition
Transitionable(book, id, to) ==
  id \in DOMAIN book /\ LegalTransition(book[id].state, to)

Transitioned(book, id, to) == [book EXCEPT ![id].state = to]

\* apply_fill: the checks made before the record is touched, in their order ...
FillMatches(book, f) ==
  /\ f.id \in DOMAIN book
  /\ book[f.id].state \notin TerminalStates
  /\ f.inst = book[f.id].order.inst /\ f.side = book[f.id].order.side
  /\ book[f.id].filled + f.qty <= book[f.id].order.qty
  /\ f.time > book[f.id].order.decision

\* ... the state the fill implies ...
StateAfterFill(rec, q) ==
  IF rec.filled + q >= rec.order.qty THEN "filled" ELSE "partially_filled"

\* ... whether apply_fill returns a value rather than an error ...
FillReturnsOk(book, f) ==
  LET to == StateAfterFill(book[f.id], f.qty)
  IN  book[f.id].state = to \/ LegalTransition(book[f.id].state, to)

\* ... and the book it leaves.  The quantity is added before the transition is
\* judged, so a refusal at that point leaves the quantity in and the state out.
FillBooked(book, f) ==
  LET to == StateAfterFill(book[f.id], f.qty)
  IN  [book EXCEPT ![f.id].filled = @ + f.qty,
                   ![f.id].notional = @ + f.price * f.qty,
                   ![f.id].cost = @ + f.cost,
                   ![f.id].state = IF FillReturnsOk(book, f) THEN to ELSE @]

\* cancel_replace: what it checks before it cancels the original.
Replaceable(book, orig, o) ==
  /\ orig \in DOMAIN book
  /\ book[orig].state \notin TerminalStates
  /\ o.inst = book[orig].order.inst /\ o.side = book[orig].order.side
  /\ LegalTransition(book[orig].state, "cancelled")

\* exposure_of: signed remaining quantity across live orders.
ExposureOf(book, inst) ==
  SumFunction([id \in DOMAIN book |->
                 IF id \in Live(book) /\ book[id].order.inst = inst
                 THEN SignOf(book[id].order.side) * Remaining(book[id]) ELSE 0])

-----------------------------------------------------------------------------
(* The class driven through its public interface.                          *)

OmsInit ==
  /\ records = [id \in {} |-> 0]
  /\ next = 1

\* next_id()
NextId ==
  /\ next <= MaxId
  /\ next' = next + 1
  /\ UNCHANGED records

Submit(id, o) ==
  /\ Submittable(records, id, o)
  /\ records' = Submitted(records, id, o)
  /\ next' = CounterAfter(next, id)

Transition(id, to) ==
  /\ Transitionable(records, id, to)
  /\ records' = Transitioned(records, id, to)
  /\ UNCHANGED next

ApplyFill(f) ==
  /\ FillMatches(records, f)
  /\ records' = FillBooked(records, f)
  /\ UNCHANGED next

\* Cancel first, then submit; the submit may still be refused, and the
\* original stays cancelled.
CancelReplace(orig, id, o) ==
  /\ Replaceable(records, orig, o)
  /\ LET cancelled == Transitioned(records, orig, "cancelled")
     IN  IF Submittable(cancelled, id, o)
         THEN /\ records' = Submitted(cancelled, id, o)
              /\ next' = CounterAfter(next, id)
         ELSE /\ records' = cancelled
              /\ UNCHANGED next

Reset ==
  /\ records' = [id \in {} |-> 0]
  /\ next' = 1

OmsNext ==
  \/ NextId
  \/ \E id \in Ids, o \in Order : Submit(id, o)
  \/ \E id \in Ids, to \in OrderStates : Transition(id, to)
  \/ \E f \in Fill : ApplyFill(f)
  \/ \E orig \in Ids, id \in Ids, o \in Order : CancelReplace(orig, id, o)
  \/ Reset

OmsSpec == OmsInit /\ [][OmsNext]_omsVars

-----------------------------------------------------------------------------
(* What the manager promises.                                              *)

\* The book is a finite map from ids to well-formed records.
BookTypeOK ==
  /\ DOMAIN records \subseteq Ids
  /\ records \in [DOMAIN records -> OrderRecord]
  /\ next \in 1..(MaxId + 1)

\* submit, cancel_replace and next_id, in whatever mix: the counter is ahead of
\* every id in the book, so an id handed out by next_id() is never refused as a
\* duplicate of one that an external caller supplied.
CounterAheadOfBook == \A id \in DOMAIN records : id < next

\* apply_fill never books more than was ordered, over any number of partial
\* fills interleaved with cancels and replacements.
NoOverfill == \A id \in DOMAIN records : records[id].filled <= records[id].order.qty

\* A child's parent is in the book for as long as the child is: fills can
\* always be aggregated to the parent (the refusal in submit).
ParentsKnown ==
  \A id \in DOMAIN records :
    records[id].order.parent # NoOrder => records[id].order.parent \in DOMAIN records

\* submit() with ids of its callers and of next_id() in whatever mix, cancel_replace
\* and reset(): every record is well formed, no id that is handed out is one of the
\* book, and no child is without its parent.
BookIsConsistent == BookTypeOK /\ CounterAheadOfBook /\ ParentsKnown

\* Once an order is terminal no later call moves it, fills it or drops it,
\* except reset(): a late fill cannot reopen a cancelled order.
TerminalAbsorbing ==
  [][\A id \in DOMAIN records :
       records[id].state \in TerminalStates =>
         (records' = [k \in {} |-> 0] /\ next' = 1)
         \/ (id \in DOMAIN records' /\ records'[id] = records[id])]_omsVars

\* An Order is a value: no call ever changes the order inside a record, and a
\* record's filled quantity never falls.
OrdersImmutable ==
  [][\A id \in DOMAIN records :
       (records' = [k \in {} |-> 0] /\ next' = 1)
       \/ /\ id \in DOMAIN records'
          /\ records'[id].order = records[id].order
          /\ records'[id].filled >= records[id].filled]_omsVars

\* Signed filled quantity over every record, live or not.
SignedFilled(book, inst) ==
  SumFunction([id \in DOMAIN book |->
                 IF book[id].order.inst = inst
                 THEN SignOf(book[id].order.side) * book[id].filled ELSE 0])

\* What the position would become if every working order filled - position plus
\* exposure_of, the quantity the risk checks project - is not moved by a fill:
\* a fill only turns exposure into position, whichever order of whichever side
\* it lands on, and whether or not it completes the order.
FillsConserveProjection ==
  [][(\E f \in Fill : ApplyFill(f)) =>
       \A inst \in Instruments :
         ExposureOf(records', inst) + SignedFilled(records', inst)
           = ExposureOf(records, inst) + SignedFilled(records, inst)]_omsVars
=============================================================================
