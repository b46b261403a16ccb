-------------------------- MODULE TradingCoreProofs --------------------------
(***************************************************************************)
(* Proofs about TradingCore for every set of instruments, bars, quotes,    *)
(* order terms, delays, latencies and limits, and every bound.             *)
(*                                                                         *)
(* The inductive invariant CoreInv relates the venue's copy of each order  *)
(* to the OMS's while fills are on their way between the two.              *)
(***************************************************************************)
EXTENDS TradingCore, SumLemmas

-----------------------------------------------------------------------------
(* The order manager: OmsSpec, for every set of instruments, quantities    *)
(* and times, and every bound on ids.                                      *)


(***************************************************************************)
(* The legal transitions stay inside the enumeration and never start from  *)
(* a terminal state.                                                       *)
(***************************************************************************)
LEMMA LegalTransitionFacts ==
  ASSUME NEW from \in OrderStates, NEW to, LegalTransition(from, to)
  PROVE  to \in OrderStates /\ from \notin TerminalStates
BY DEF LegalTransition, Successors, OrderStates, TerminalStates

(***************************************************************************)
(* What submit does to the value of the book.                              *)
(***************************************************************************)
LEMMA SubmittedTyped ==
  ASSUME NEW book, DOMAIN book \subseteq Ids, book \in [DOMAIN book -> OrderRecord],
         NEW id \in Ids, NEW o \in Order
  PROVE  /\ DOMAIN Submitted(book, id, o) = DOMAIN book \cup {id}
         /\ Submitted(book, id, o) \in [DOMAIN book \cup {id} -> OrderRecord]
<1>1. NewRecord(o) \in OrderRecord
  BY DEF NewRecord, OrderRecord, OrderStates
<1> QED
  BY <1>1 DEF Submitted

(***************************************************************************)
(* What transition does to the value of the book.                          *)
(***************************************************************************)
LEMMA TransitionedTyped ==
  ASSUME NEW book, DOMAIN book \subseteq Ids, book \in [DOMAIN book -> OrderRecord],
         NEW id, NEW to, Transitionable(book, id, to)
  PROVE  /\ DOMAIN Transitioned(book, id, to) = DOMAIN book
         /\ Transitioned(book, id, to) \in [DOMAIN book -> OrderRecord]
<1>1. book[id] \in OrderRecord /\ LegalTransition(book[id].state, to)
  BY DEF Transitionable
<1>2. to \in OrderStates
  BY <1>1, LegalTransitionFacts DEF OrderRecord
<1>3. [book[id] EXCEPT !.state = to] \in OrderRecord
  BY <1>1, <1>2 DEF OrderRecord
<1> QED
  BY <1>1, <1>3 DEF Transitioned, Transitionable

(***************************************************************************)
(* What apply_fill does to the record it finds: the quantity grows by the  *)
(* fill's and stays within the order's, notional and cost grow by what the *)
(* fill was worth, the order itself is untouched, and every other record   *)
(* is left alone.  The record ends where it was or in one of the two       *)
(* states a fill implies, and in "filled" only when nothing remains.       *)
(***************************************************************************)
LEMMA FillBookedFacts ==
  ASSUME NEW book, DOMAIN book \subseteq Ids, book \in [DOMAIN book -> OrderRecord],
         NEW f, f.qty \in Nat, f.price \in Nat, f.cost \in Nat, FillMatches(book, f)
  PROVE  LET after == FillBooked(book, f)
         IN  /\ DOMAIN after = DOMAIN book
             /\ after \in [DOMAIN book -> OrderRecord]
             /\ after[f.id].order = book[f.id].order
             /\ after[f.id].filled = book[f.id].filled + f.qty
             /\ after[f.id].notional = book[f.id].notional + f.price * f.qty
             /\ after[f.id].cost = book[f.id].cost + f.cost
             /\ after[f.id].state = IF FillReturnsOk(book, f)
                                    THEN StateAfterFill(book[f.id], f.qty)
                                    ELSE book[f.id].state
             /\ after[f.id].filled <= after[f.id].order.qty
             /\ after[f.id].filled >= book[f.id].filled
             /\ \A id \in DOMAIN book \ {f.id} : after[id] = book[id]
<1> DEFINE rec == book[f.id]
           to == StateAfterFill(rec, f.qty)
           st == IF FillReturnsOk(book, f) THEN to ELSE rec.state
           value == rec.notional + f.price * f.qty
           new == [rec EXCEPT !.filled = rec.filled + f.qty, !.notional = value,
                              !.cost = rec.cost + f.cost, !.state = st]
<1>1. f.id \in DOMAIN book /\ rec \in OrderRecord /\ rec.filled + f.qty <= rec.order.qty
  BY DEF FillMatches
<1>2. /\ rec.filled \in Nat /\ rec.order.qty \in Nat
      /\ rec.state \in OrderStates
  BY <1>1, PositiveQuantities DEF OrderRecord, Order
<1>3. st \in OrderStates
  BY <1>2 DEF StateAfterFill, OrderStates
<1>4. rec.notional \in Nat /\ rec.cost \in Nat
  BY <1>1 DEF OrderRecord
<1>5. f.price * f.qty \in Nat
  OBVIOUS
<1>6. value \in Nat /\ rec.cost + f.cost \in Nat /\ rec.filled + f.qty \in Nat
  BY <1>2, <1>4, <1>5
<1>7. /\ new \in OrderRecord /\ new.order = rec.order
      /\ new.filled = rec.filled + f.qty /\ new.notional = value
      /\ new.cost = rec.cost + f.cost /\ new.state = st
  <2> HIDE DEF st, rec, value
  <2> QED
    BY <1>1, <1>3, <1>6 DEF OrderRecord
<1>8. FillBooked(book, f) = [book EXCEPT ![f.id] = new]
  BY <1>1 DEF FillBooked
<1>9. /\ DOMAIN [book EXCEPT ![f.id] = new] = DOMAIN book
      /\ [book EXCEPT ![f.id] = new] \in [DOMAIN book -> OrderRecord]
      /\ [book EXCEPT ![f.id] = new][f.id] = new
      /\ \A id \in DOMAIN book \ {f.id} : [book EXCEPT ![f.id] = new][id] = book[id]
  <2> HIDE DEF new
  <2> QED
    BY <1>1, <1>7
<1>10. new.filled <= new.order.qty /\ new.filled >= rec.filled
  <2> HIDE DEF new
  <2> QED
    BY <1>1, <1>2, <1>7
<1> HIDE DEF new
<1> QED
  BY <1>7, <1>8, <1>9, <1>10

(***************************************************************************)
(* The amounts of a fill of the model's alphabet are naturals.             *)
(***************************************************************************)
LEMMA FillAmounts == \A f \in Fill : f.qty \in Nat /\ f.price \in Nat /\ f.cost \in Nat
BY PositiveQuantities, MoneyIsNatural DEF Fill

(***************************************************************************)
(* The inductive invariant: the conjunction of the invariants the runs     *)
(* check, which needs no strengthening because every operation is judged   *)
(* against the record it changes.                                          *)
(***************************************************************************)
BookInv == BookTypeOK /\ CounterAheadOfBook /\ NoOverfill /\ ParentsKnown

(***************************************************************************)
(* An OMS without records starts with a sound book.                        *)
(***************************************************************************)
LEMMA InitBookInv == OmsInit => BookInv
BY IdBound DEF OmsInit, BookInv, BookTypeOK, CounterAheadOfBook, NoOverfill, ParentsKnown

(***************************************************************************)
(* Every call on the OMS, accepted or refused, keeps the book sound.       *)
(***************************************************************************)
LEMMA StepBookInv == BookInv /\ [OmsNext]_omsVars => BookInv'
<1> SUFFICES ASSUME BookInv, [OmsNext]_omsVars PROVE BookInv'
  OBVIOUS
<1> USE DEF BookInv
<1>1. ASSUME NextId PROVE BookInv'
  BY <1>1, IdBound DEF NextId, BookTypeOK, CounterAheadOfBook, NoOverfill, ParentsKnown, Ids
<1>2. ASSUME NEW id \in Ids, NEW o \in Order, Submit(id, o) PROVE BookInv'
  <2>1. /\ DOMAIN records' = DOMAIN records \cup {id}
        /\ records' \in [DOMAIN records' -> OrderRecord]
    BY <1>2, SubmittedTyped DEF BookTypeOK, Submit
  <2>2. \A k \in DOMAIN records \ {id} : records'[k] = records[k]
    BY <1>2 DEF Submit, Submitted
  <2>3. records'[id] = NewRecord(o)
    BY <1>2 DEF Submit, Submitted
  <2>4. next' = CounterAfter(next, id)
    BY <1>2 DEF Submit
  <2>5. BookTypeOK'
    BY <2>1, <2>4, IdBound DEF BookTypeOK, CounterAfter, Ids
  <2>6. CounterAheadOfBook'
    BY <2>1, <2>4, IdBound DEF BookTypeOK, CounterAheadOfBook, CounterAfter, Ids
  <2>7. NoOverfill'
    BY <2>1, <2>2, <2>3, PositiveQuantities DEF NoOverfill, Order, NewRecord
  <2>8. ParentsKnown'
    <3>1. o.parent # NoOrder => o.parent \in DOMAIN records
      BY <1>2 DEF Submit, Submittable
    <3> QED
      BY <2>1, <2>2, <2>3, <3>1 DEF ParentsKnown, NewRecord
  <2> QED
    BY <2>5, <2>6, <2>7, <2>8
<1>3. ASSUME NEW id \in Ids, NEW to \in OrderStates, Transition(id, to) PROVE BookInv'
  <2>1. /\ DOMAIN records' = DOMAIN records
        /\ records' \in [DOMAIN records -> OrderRecord]
    BY <1>3, TransitionedTyped DEF BookTypeOK, Transition
  <2>2. \A k \in DOMAIN records : /\ records'[k].order = records[k].order
                                 /\ records'[k].filled = records[k].filled
    BY <1>3 DEF Transition, Transitioned, BookTypeOK, OrderRecord
  <2>3. next' = next
    BY <1>3 DEF Transition
  <2> QED
    BY <2>1, <2>2, <2>3 DEF BookTypeOK, CounterAheadOfBook, NoOverfill, ParentsKnown
<1>4. ASSUME NEW f \in Fill, ApplyFill(f) PROVE BookInv'
  <2>1. FillMatches(records, f) /\ records' = FillBooked(records, f) /\ next' = next
    BY <1>4 DEF ApplyFill
  <2>2. /\ DOMAIN records' = DOMAIN records
        /\ records' \in [DOMAIN records -> OrderRecord]
        /\ records'[f.id].order = records[f.id].order
        /\ records'[f.id].filled <= records'[f.id].order.qty
        /\ \A k \in DOMAIN records \ {f.id} : records'[k] = records[k]
    BY <2>1, FillAmounts, FillBookedFacts DEF BookTypeOK
  <2> QED
    BY <2>1, <2>2 DEF BookTypeOK, CounterAheadOfBook, NoOverfill, ParentsKnown
<1>5. ASSUME NEW orig \in Ids, NEW id \in Ids, NEW o \in Order, CancelReplace(orig, id, o)
      PROVE  BookInv'
  <2> DEFINE mid == Transitioned(records, orig, "cancelled")
  <2>1. Transitionable(records, orig, "cancelled")
    BY <1>5 DEF CancelReplace, Replaceable, Transitionable
  <2>2. DOMAIN mid = DOMAIN records /\ mid \in [DOMAIN mid -> OrderRecord]
    BY <2>1, TransitionedTyped DEF BookTypeOK
  <2>3. \A k \in DOMAIN records : /\ mid[k].order = records[k].order
                                 /\ mid[k].filled = records[k].filled
    BY DEF Transitioned, BookTypeOK, OrderRecord
  <2>4. CASE Submittable(mid, id, o)
    <3>1. records' = Submitted(mid, id, o) /\ next' = CounterAfter(next, id)
      BY <1>5, <2>4 DEF CancelReplace
    <3>2. /\ DOMAIN records' = DOMAIN records \cup {id}
          /\ records' \in [DOMAIN records' -> OrderRecord]
      <4> HIDE DEF mid
      <4>1. DOMAIN mid \subseteq Ids
        BY <2>2 DEF BookTypeOK
      <4>2. /\ DOMAIN Submitted(mid, id, o) = DOMAIN mid \cup {id}
            /\ Submitted(mid, id, o) \in [DOMAIN mid \cup {id} -> OrderRecord]
        BY <2>2, <4>1, SubmittedTyped
      <4> QED
        BY <2>2, <3>1, <4>2
    <3>3. \A k \in DOMAIN records \ {id} : records'[k] = mid[k]
      BY <2>2, <3>1 DEF Submitted
    <3>4. records'[id] = NewRecord(o)
      BY <3>1 DEF Submitted
    <3>5. o.parent # NoOrder => o.parent \in DOMAIN records
      BY <2>2, <2>4 DEF Submittable
    <3> HIDE DEF mid
    <3>6. BookTypeOK'
      BY <3>1, <3>2, IdBound DEF BookTypeOK, CounterAfter, Ids
    <3>7. CounterAheadOfBook'
      BY <3>1, <3>2, IdBound DEF BookTypeOK, CounterAheadOfBook, CounterAfter, Ids
    <3>8. NoOverfill'
      BY <2>3, <3>2, <3>3, <3>4, PositiveQuantities DEF NoOverfill, Order, NewRecord
    <3>9. ParentsKnown'
      BY <2>3, <3>2, <3>3, <3>4, <3>5 DEF ParentsKnown, NewRecord
    <3> QED
      BY <3>6, <3>7, <3>8, <3>9
  <2>5. CASE ~Submittable(mid, id, o)
    <3>1. records' = mid /\ next' = next
      BY <1>5, <2>5 DEF CancelReplace
    <3> HIDE DEF mid
    <3> QED
      BY <2>2, <2>3, <3>1 DEF BookTypeOK, CounterAheadOfBook, NoOverfill, ParentsKnown
  <2> QED
    BY <2>4, <2>5
<1>6. ASSUME Reset PROVE BookInv'
  BY <1>6, IdBound DEF Reset, BookTypeOK, CounterAheadOfBook, NoOverfill, ParentsKnown
<1>7. ASSUME UNCHANGED omsVars PROVE BookInv'
  BY <1>7 DEF omsVars, BookTypeOK, CounterAheadOfBook, NoOverfill, ParentsKnown
<1> QED
  BY <1>1, <1>2, <1>3, <1>4, <1>5, <1>6, <1>7 DEF OmsNext

(***************************************************************************)
(* Whatever mix of submits, transitions, fills, cancel/replaces and resets *)
(* is made, the book stays well-formed, ids handed out stay ahead of it,   *)
(* no order is overfilled and every child's parent stays known.            *)
(***************************************************************************)
THEOREM BookIsSound == OmsSpec => [](BookTypeOK /\ CounterAheadOfBook /\ NoOverfill /\ ParentsKnown)
<1>1. OmsInit => BookInv
  BY InitBookInv
<1>2. BookInv /\ [OmsNext]_omsVars => BookInv'
  BY StepBookInv
<1>3. BookInv => BookTypeOK /\ CounterAheadOfBook /\ NoOverfill /\ ParentsKnown
  BY DEF BookInv
<1> QED
  BY <1>1, <1>2, <1>3, PTL DEF OmsSpec

(***************************************************************************)
(* Over all the calls of OrderManager every record keeps its types, the    *)
(* ids handed out are ahead of those in the book, whoever supplied them,   *)
(* and no child is without its parent.                                     *)
(***************************************************************************)
THEOREM BookStaysConsistent == OmsSpec => []BookIsConsistent
<1>1. BookTypeOK /\ CounterAheadOfBook /\ NoOverfill /\ ParentsKnown => BookIsConsistent
  BY DEF BookIsConsistent
<1> QED
  BY <1>1, BookIsSound, PTL

(***************************************************************************)
(* No call reopens, fills or drops a terminal order, short of reset(); and *)
(* no call changes the order in a record or takes filled quantity back.    *)
(***************************************************************************)
CalmStep ==
  \A k \in DOMAIN records :
    /\ k \in DOMAIN records'
    /\ records'[k].order = records[k].order
    /\ records'[k].filled >= records[k].filled
    /\ records[k].state \in TerminalStates => records'[k] = records[k]

Emptied == records' = [k \in {} |-> 0] /\ next' = 1

(***************************************************************************)
(* Every call on the OMS but reset() is calm, and reset() empties the      *)
(* book.                                                                   *)
(***************************************************************************)
LEMMA StepCalm == BookTypeOK /\ [OmsNext]_omsVars => CalmStep \/ Emptied
<1> SUFFICES ASSUME BookTypeOK, [OmsNext]_omsVars PROVE CalmStep \/ Emptied
  OBVIOUS
<1>0. \A k \in DOMAIN records : records[k].filled \in Nat /\ records[k].state \in OrderStates
  BY DEF BookTypeOK, OrderRecord
<1>1. ASSUME records' = records PROVE CalmStep
  BY <1>0, <1>1 DEF CalmStep
<1>2. ASSUME NextId PROVE CalmStep
  BY <1>1, <1>2 DEF NextId
<1>3. ASSUME NEW id \in Ids, NEW o \in Order, Submit(id, o) PROVE CalmStep
  BY <1>0, <1>3 DEF Submit, Submittable, Submitted, CalmStep
<1>4. ASSUME NEW id \in Ids, NEW to \in OrderStates, Transition(id, to) PROVE CalmStep
  <2>1. /\ id \in DOMAIN records
        /\ records[id].state \notin TerminalStates
        /\ records' = Transitioned(records, id, to)
    BY <1>4, <1>0, LegalTransitionFacts DEF Transition, Transitionable
  <2> QED
    BY <1>0, <2>1 DEF Transitioned, CalmStep, BookTypeOK, OrderRecord
<1>5. ASSUME NEW f \in Fill, ApplyFill(f) PROVE CalmStep
  <2>1. FillMatches(records, f) /\ records' = FillBooked(records, f)
    BY <1>5 DEF ApplyFill
  <2>2. records[f.id].state \notin TerminalStates
    BY <2>1 DEF FillMatches
  <2>3. /\ DOMAIN records' = DOMAIN records
        /\ records'[f.id].order = records[f.id].order
        /\ records'[f.id].filled >= records[f.id].filled
        /\ \A k \in DOMAIN records \ {f.id} : records'[k] = records[k]
    BY <2>1, FillAmounts, FillBookedFacts DEF BookTypeOK
  <2> QED
    BY <1>0, <2>2, <2>3 DEF CalmStep
<1>6. ASSUME NEW orig \in Ids, NEW id \in Ids, NEW o \in Order, CancelReplace(orig, id, o)
      PROVE  CalmStep
  <2> DEFINE mid == Transitioned(records, orig, "cancelled")
  <2>1. orig \in DOMAIN records /\ records[orig].state \notin TerminalStates
    BY <1>6 DEF CancelReplace, Replaceable
  <2>2. /\ DOMAIN mid = DOMAIN records
        /\ \A k \in DOMAIN records :
             /\ mid[k].order = records[k].order
             /\ mid[k].filled = records[k].filled
             /\ records[k].state \in TerminalStates => mid[k] = records[k]
    BY <2>1 DEF Transitioned, BookTypeOK, OrderRecord
  <2>3. records' = mid \/ (Submittable(mid, id, o) /\ records' = Submitted(mid, id, o))
    BY <1>6 DEF CancelReplace
  <2> HIDE DEF mid
  <2> QED
    BY <1>0, <2>2, <2>3 DEF Submittable, Submitted, CalmStep
<1>7. ASSUME Reset PROVE Emptied
  BY <1>7 DEF Reset, Emptied
<1> QED
  BY <1>1, <1>2, <1>3, <1>4, <1>5, <1>6, <1>7 DEF OmsNext, omsVars

(***************************************************************************)
(* TerminalAbsorbing, for every value of the constants.                    *)
(***************************************************************************)
THEOREM TerminalIsFinal == OmsSpec => TerminalAbsorbing
<1>1. BookTypeOK /\ [OmsNext]_omsVars =>
        [\A id \in DOMAIN records :
           records[id].state \in TerminalStates =>
             (records' = [k \in {} |-> 0] /\ next' = 1)
             \/ (id \in DOMAIN records' /\ records'[id] = records[id])]_omsVars
  BY StepCalm DEF CalmStep, Emptied
<1> QED
  BY <1>1, BookIsSound, PTL DEF OmsSpec, TerminalAbsorbing

(***************************************************************************)
(* OrdersImmutable, for every value of the constants.                      *)
(***************************************************************************)
THEOREM OrdersNeverChange == OmsSpec => OrdersImmutable
<1>1. BookTypeOK /\ [OmsNext]_omsVars =>
        [\A id \in DOMAIN records :
           (records' = [k \in {} |-> 0] /\ next' = 1)
           \/ /\ id \in DOMAIN records'
              /\ records'[id].order = records[id].order
              /\ records'[id].filled >= records[id].filled]_omsVars
  BY StepCalm DEF CalmStep, Emptied
<1> QED
  BY <1>1, BookIsSound, PTL DEF OmsSpec, OrdersImmutable

-----------------------------------------------------------------------------
(* Totals over the book.                                                   *)

\* What one record adds to exposure_of, and to the signed filled quantity.
ExposureTerms(book, inst) ==
  [id \in DOMAIN book |-> IF id \in Live(book) /\ book[id].order.inst = inst
                          THEN SignOf(book[id].order.side) * Remaining(book[id]) ELSE 0]

FilledTerms(book, inst) ==
  [id \in DOMAIN book |-> IF book[id].order.inst = inst
                          THEN SignOf(book[id].order.side) * book[id].filled ELSE 0]

(***************************************************************************)
(* Both totals sum integers over finitely many records.                    *)
(***************************************************************************)
LEMMA TotalsTyped ==
  ASSUME NEW book, DOMAIN book \subseteq Ids, book \in [DOMAIN book -> OrderRecord], NEW inst
  PROVE  /\ IsFiniteSet(DOMAIN book)
         /\ \A id \in DOMAIN book : /\ SignOf(book[id].order.side) \in {1, -1}
                                   /\ ExposureTerms(book, inst)[id] \in Int
                                   /\ FilledTerms(book, inst)[id] \in Int
         /\ ExposureOf(book, inst) = SumFunction(ExposureTerms(book, inst))
         /\ SignedFilled(book, inst) = SumFunction(FilledTerms(book, inst))
         /\ ExposureOf(book, inst) \in Int /\ SignedFilled(book, inst) \in Int
<1>1. IsFiniteSet(DOMAIN book)
  BY IdBound, FS_Interval, FS_Subset DEF Ids
<1>2. ASSUME NEW id \in DOMAIN book
      PROVE  /\ SignOf(book[id].order.side) \in {1, -1}
             /\ ExposureTerms(book, inst)[id] \in Int
             /\ FilledTerms(book, inst)[id] \in Int
  <2>1. SignOf(book[id].order.side) \in {1, -1}
    BY DEF SignOf
  <2>2. book[id].filled \in Nat /\ book[id].order.qty \in Nat
    BY PositiveQuantities DEF OrderRecord, Order
  <2>3. /\ SignOf(book[id].order.side) * book[id].filled \in Int
        /\ SignOf(book[id].order.side) * Remaining(book[id]) \in Int
    BY <2>1, <2>2 DEF Remaining
  <2> QED
    BY <2>1, <2>3 DEF ExposureTerms, FilledTerms
<1>3. /\ ExposureOf(book, inst) = SumFunction(ExposureTerms(book, inst))
      /\ SignedFilled(book, inst) = SumFunction(FilledTerms(book, inst))
  BY DEF ExposureOf, SignedFilled, ExposureTerms, FilledTerms
<1>4. /\ DOMAIN ExposureTerms(book, inst) = DOMAIN book
      /\ DOMAIN FilledTerms(book, inst) = DOMAIN book
  BY DEF ExposureTerms, FilledTerms
<1> QED
  BY <1>1, <1>2, <1>3, <1>4, SumOfInts

(***************************************************************************)
(* A call that touches one record, and not its order, moves each total by  *)
(* the change of that record's term.                                       *)
(***************************************************************************)
LEMMA TotalsAfterChange ==
  ASSUME NEW book, DOMAIN book \subseteq Ids, book \in [DOMAIN book -> OrderRecord],
         NEW after \in [DOMAIN book -> OrderRecord], NEW id \in DOMAIN book,
         \A k \in DOMAIN book \ {id} : after[k] = book[k],
         NEW inst
  PROVE  /\ ExposureOf(after, inst) = ExposureOf(book, inst)
               - ExposureTerms(book, inst)[id] + ExposureTerms(after, inst)[id]
         /\ SignedFilled(after, inst) = SignedFilled(book, inst)
               - FilledTerms(book, inst)[id] + FilledTerms(after, inst)[id]
<1>1. DOMAIN after = DOMAIN book
  OBVIOUS
<1>2. \A k \in DOMAIN book \ {id} :
        /\ ExposureTerms(after, inst)[k] = ExposureTerms(book, inst)[k]
        /\ FilledTerms(after, inst)[k] = FilledTerms(book, inst)[k]
  BY <1>1 DEF ExposureTerms, FilledTerms, Live
<1>3. /\ DOMAIN ExposureTerms(book, inst) = DOMAIN book
      /\ DOMAIN FilledTerms(book, inst) = DOMAIN book
      /\ DOMAIN ExposureTerms(after, inst) = DOMAIN book
      /\ DOMAIN FilledTerms(after, inst) = DOMAIN book
  BY <1>1 DEF ExposureTerms, FilledTerms
<1>4. /\ IsFiniteSet(DOMAIN book)
      /\ \A k \in DOMAIN book : /\ ExposureTerms(book, inst)[k] \in Int
                                /\ FilledTerms(book, inst)[k] \in Int
                                /\ ExposureTerms(after, inst)[k] \in Int
                                /\ FilledTerms(after, inst)[k] \in Int
  BY <1>1, TotalsTyped
<1>5. /\ ExposureOf(book, inst) = SumFunction(ExposureTerms(book, inst))
      /\ SignedFilled(book, inst) = SumFunction(FilledTerms(book, inst))
      /\ ExposureOf(after, inst) = SumFunction(ExposureTerms(after, inst))
      /\ SignedFilled(after, inst) = SumFunction(FilledTerms(after, inst))
  BY <1>1, TotalsTyped
<1>6. SumFunction(ExposureTerms(after, inst)) = SumFunction(ExposureTerms(book, inst))
               - ExposureTerms(book, inst)[id] + ExposureTerms(after, inst)[id]
  BY <1>2, <1>3, <1>4, SumAfterChange
<1>7. SumFunction(FilledTerms(after, inst)) = SumFunction(FilledTerms(book, inst))
               - FilledTerms(book, inst)[id] + FilledTerms(after, inst)[id]
  BY <1>2, <1>3, <1>4, SumAfterChange
<1> QED
  BY <1>5, <1>6, <1>7

(***************************************************************************)
(* A new record adds its own term to each total.                           *)
(***************************************************************************)
LEMMA TotalsAfterAdding ==
  ASSUME NEW book, DOMAIN book \subseteq Ids, book \in [DOMAIN book -> OrderRecord],
         NEW id \in Ids, id \notin DOMAIN book,
         NEW after \in [DOMAIN book \cup {id} -> OrderRecord],
         \A k \in DOMAIN book : after[k] = book[k],
         NEW inst
  PROVE  /\ ExposureOf(after, inst) = ExposureOf(book, inst) + ExposureTerms(after, inst)[id]
         /\ SignedFilled(after, inst) = SignedFilled(book, inst) + FilledTerms(after, inst)[id]
<1>1. DOMAIN after = DOMAIN book \cup {id} /\ DOMAIN after \subseteq Ids
  OBVIOUS
<1>2. \A k \in DOMAIN book :
        /\ ExposureTerms(after, inst)[k] = ExposureTerms(book, inst)[k]
        /\ FilledTerms(after, inst)[k] = FilledTerms(book, inst)[k]
  BY <1>1 DEF ExposureTerms, FilledTerms, Live
<1>3. /\ DOMAIN ExposureTerms(book, inst) = DOMAIN book
      /\ DOMAIN FilledTerms(book, inst) = DOMAIN book
      /\ DOMAIN ExposureTerms(after, inst) = DOMAIN book \cup {id}
      /\ DOMAIN FilledTerms(after, inst) = DOMAIN book \cup {id}
  BY <1>1 DEF ExposureTerms, FilledTerms
<1>4. /\ IsFiniteSet(DOMAIN book)
      /\ \A k \in DOMAIN book : /\ ExposureTerms(book, inst)[k] \in Int
                                /\ FilledTerms(book, inst)[k] \in Int
      /\ ExposureTerms(after, inst)[id] \in Int
      /\ FilledTerms(after, inst)[id] \in Int
  BY <1>1, TotalsTyped
<1>5. /\ ExposureOf(book, inst) = SumFunction(ExposureTerms(book, inst))
      /\ SignedFilled(book, inst) = SumFunction(FilledTerms(book, inst))
      /\ ExposureOf(after, inst) = SumFunction(ExposureTerms(after, inst))
      /\ SignedFilled(after, inst) = SumFunction(FilledTerms(after, inst))
  BY <1>1, TotalsTyped
<1>6. SumFunction(ExposureTerms(after, inst)) = SumFunction(ExposureTerms(book, inst))
               + ExposureTerms(after, inst)[id]
  BY <1>2, <1>3, <1>4, SumAfterAdding
<1>7. SumFunction(FilledTerms(after, inst)) = SumFunction(FilledTerms(book, inst))
               + FilledTerms(after, inst)[id]
  BY <1>2, <1>3, <1>4, SumAfterAdding
<1> QED
  BY <1>5, <1>6, <1>7

(***************************************************************************)
(* The exposure of orders of one side has the sign of that side, so long   *)
(* as none is overfilled.                                                  *)
(***************************************************************************)
LEMMA ExposureSign ==
  ASSUME NEW book, DOMAIN book \subseteq Ids, book \in [DOMAIN book -> OrderRecord],
         NEW side \in Sides,
         \A id \in DOMAIN book : book[id].order.side = side /\ book[id].filled <= book[id].order.qty,
         NEW inst
  PROVE  SignOf(side) * ExposureOf(book, inst) >= 0
<1> DEFINE terms == ExposureTerms(book, inst)
           negated == [id \in DOMAIN book |-> -terms[id]]
<1>1. IsFiniteSet(DOMAIN book) /\ ExposureOf(book, inst) = SumFunction(terms)
  BY TotalsTyped
<1>2. DOMAIN terms = DOMAIN book
  BY DEF ExposureTerms
<1>3. \A id \in DOMAIN book : Remaining(book[id]) \in Nat
  BY PositiveQuantities DEF Remaining, OrderRecord, Order
<1>4. ExposureOf(book, inst) \in Int
  BY TotalsTyped
<1>5. CASE side = Buy
  <2>1. \A id \in DOMAIN book : terms[id] \in Nat
    BY <1>3, <1>5 DEF ExposureTerms, SignOf
  <2>2. SumFunction(terms) \in Nat
    BY <1>1, <1>2, <2>1, SumNotNegative DEF SumFunction
  <2> QED
    BY <1>1, <1>5, <2>2 DEF SignOf
<1>6. CASE side = Sell
  <2>1. \A id \in DOMAIN book : terms[id] \in Int /\ negated[id] = -terms[id] /\ negated[id] \in Nat
    BY <1>3, <1>6 DEF ExposureTerms, SignOf, Sell, Buy
  <2>2. SumFunctionOnSet(negated, DOMAIN book) \in Nat
    <3> HIDE DEF negated, terms
    <3> QED BY <1>1, <2>1, SumNotNegative
  <2>3. SumFunctionOnSet(negated, DOMAIN book) = -SumFunctionOnSet(terms, DOMAIN book)
    <3> HIDE DEF negated, terms
    <3> QED BY <1>1, <2>1, SumNegated
  <2>4. SumFunctionOnSet(terms, DOMAIN book) = ExposureOf(book, inst)
    BY <1>1, <1>2 DEF SumFunction
  <2> HIDE DEF negated, terms
  <2> QED
    BY <1>4, <1>6, <2>2, <2>3, <2>4 DEF SignOf, Sell, Buy
<1> QED
  BY <1>5, <1>6 DEF Sides

(***************************************************************************)
(* What a fill takes from the exposure it adds to the filled quantity,     *)
(* whether or not it completes the order, and whether or not apply_fill    *)
(* goes on to refuse the transition.                                       *)
(***************************************************************************)
LEMMA FillKeepsTotal ==
  ASSUME NEW book, DOMAIN book \subseteq Ids, book \in [DOMAIN book -> OrderRecord],
         NEW f, f.qty \in Nat, f.price \in Nat, f.cost \in Nat, FillMatches(book, f),
         NEW inst
  PROVE  LET after == FillBooked(book, f)
             moved == IF f.inst = inst THEN SignOf(f.side) * f.qty ELSE 0
         IN  /\ moved \in Int
             /\ SignedFilled(after, inst) = SignedFilled(book, inst) + moved
             /\ ExposureOf(after, inst) = ExposureOf(book, inst) - moved
<1> DEFINE after == FillBooked(book, f)
           id == f.id
           sign == SignOf(f.side)
           moved == IF f.inst = inst THEN sign * f.qty ELSE 0
<1>1. /\ id \in DOMAIN book /\ book[id].state \notin TerminalStates
      /\ f.inst = book[id].order.inst /\ f.side = book[id].order.side
  BY DEF FillMatches
<1>2. /\ DOMAIN after = DOMAIN book
      /\ after \in [DOMAIN book -> OrderRecord]
      /\ after[id].order = book[id].order
      /\ after[id].filled = book[id].filled + f.qty
      /\ after[id].state = IF FillReturnsOk(book, f)
                           THEN StateAfterFill(book[id], f.qty) ELSE book[id].state
      /\ after[id].filled <= after[id].order.qty
      /\ \A k \in DOMAIN book \ {id} : after[k] = book[k]
  BY FillBookedFacts
<1>3. /\ sign \in {1, -1} /\ book[id].filled \in Nat /\ book[id].order.qty \in Nat
  BY <1>1, PositiveQuantities DEF SignOf, OrderRecord, Order
<1>4. after[id].state \in TerminalStates => Remaining(after[id]) = 0
  BY <1>1, <1>2, <1>3 DEF StateAfterFill, Remaining, TerminalStates
<1> HIDE DEF after
<1>5. /\ FilledTerms(book, inst)[id] = IF f.inst = inst THEN sign * book[id].filled ELSE 0
      /\ FilledTerms(after, inst)[id] =
            IF f.inst = inst THEN sign * (book[id].filled + f.qty) ELSE 0
  BY <1>1, <1>2 DEF FilledTerms
<1>6. ExposureTerms(book, inst)[id] =
        IF f.inst = inst THEN sign * (book[id].order.qty - book[id].filled) ELSE 0
  BY <1>1 DEF ExposureTerms, Live, Remaining
<1>7. ExposureTerms(after, inst)[id] =
        IF f.inst = inst THEN sign * (book[id].order.qty - (book[id].filled + f.qty)) ELSE 0
  <2>1. Remaining(after[id]) = book[id].order.qty - (book[id].filled + f.qty)
    BY <1>2 DEF Remaining
  <2>2. CASE after[id].state \in TerminalStates
    <3>1. ExposureTerms(after, inst)[id] = 0
      BY <1>1, <1>2, <2>2 DEF ExposureTerms, Live
    <3>2. sign * (book[id].order.qty - (book[id].filled + f.qty)) = 0
      BY <1>3, <1>4, <2>1, <2>2
    <3> QED
      BY <3>1, <3>2
  <2>3. CASE after[id].state \notin TerminalStates
    BY <1>1, <1>2, <2>1, <2>3 DEF ExposureTerms, Live
  <2> QED
    BY <2>2, <2>3
<1>8. /\ ExposureOf(after, inst) = ExposureOf(book, inst)
            - ExposureTerms(book, inst)[id] + ExposureTerms(after, inst)[id]
      /\ SignedFilled(after, inst) = SignedFilled(book, inst)
            - FilledTerms(book, inst)[id] + FilledTerms(after, inst)[id]
  BY <1>1, <1>2, TotalsAfterChange
<1>9. ExposureOf(book, inst) \in Int /\ SignedFilled(book, inst) \in Int
  BY TotalsTyped
<1>10. /\ moved \in Int
       /\ SignedFilled(after, inst) = SignedFilled(book, inst) + moved
       /\ ExposureOf(after, inst) = ExposureOf(book, inst) - moved
  <2> HIDE DEF sign, id
  <2>1. CASE sign = 1
    BY <1>3, <1>5, <1>6, <1>7, <1>8, <1>9, <2>1
  <2>2. CASE sign = -1
    BY <1>3, <1>5, <1>6, <1>7, <1>8, <1>9, <2>2
  <2> QED
    BY <1>3, <2>1, <2>2
<1> QED
  BY <1>10 DEF after

(***************************************************************************)
(* FillsConserveProjection, for every value of the constants: what the     *)
(* risk gate projects, position plus exposure_of, is not moved by a fill.  *)
(***************************************************************************)
THEOREM FillsOnlyConvert == OmsSpec => FillsConserveProjection
<1>1. ASSUME BookTypeOK, NEW f \in Fill, ApplyFill(f), NEW inst \in Instruments
      PROVE  ExposureOf(records', inst) + SignedFilled(records', inst)
               = ExposureOf(records, inst) + SignedFilled(records, inst)
  <2> DEFINE moved == IF f.inst = inst THEN SignOf(f.side) * f.qty ELSE 0
  <2>1. FillMatches(records, f) /\ records' = FillBooked(records, f)
    BY <1>1 DEF ApplyFill
  <2>2. f.qty \in Nat /\ f.price \in Nat /\ f.cost \in Nat
    BY FillAmounts
  <2>3. DOMAIN records \subseteq Ids /\ records \in [DOMAIN records -> OrderRecord]
    BY <1>1 DEF BookTypeOK
  <2>4. /\ moved \in Int
        /\ SignedFilled(records', inst) = SignedFilled(records, inst) + moved
        /\ ExposureOf(records', inst) = ExposureOf(records, inst) - moved
    BY <2>1, <2>2, <2>3, FillKeepsTotal
  <2>5. ExposureOf(records, inst) \in Int /\ SignedFilled(records, inst) \in Int
    BY <2>3, TotalsTyped
  <2> HIDE DEF moved
  <2> QED
    BY <2>4, <2>5
<1>2. BookTypeOK /\ [OmsNext]_omsVars =>
        [(\E f \in Fill : ApplyFill(f)) =>
           \A inst \in Instruments :
             ExposureOf(records', inst) + SignedFilled(records', inst)
               = ExposureOf(records, inst) + SignedFilled(records, inst)]_omsVars
  BY <1>1
<1> QED
  BY <1>2, BookIsSound, PTL DEF OmsSpec, FillsConserveProjection

-----------------------------------------------------------------------------
(* The trading core: CoreSpec.                                             *)

\* The clock has seen the event being handled.
Timely ==
  /\ exch \in 0..MaxTime /\ clock \in Nat /\ exch <= clock
  /\ phase # "idle" => \E delay \in FeedDelays : clock = exch + delay

\* What the venue knows of an instrument is a price and sizes that are
\* naturals, and no slippage eats the whole bid.
MarketRecord == [bid: Nat, ask: Nat, bidSize: Nat, askSize: Nat, hasQuote: BOOLEAN,
                 volume: Nat, updated: Nat]

MarketKnown ==
  /\ DOMAIN market \subseteq Instruments /\ DOMAIN marks = DOMAIN market
  /\ market \in [DOMAIN market -> MarketRecord]
  /\ \A i \in DOMAIN market, slip \in Slips : slip <= market[i].bid

\* Which variables are in use in which phase.
PhaseShape ==
  /\ phase \in {"idle", "matching", "dispatching", "strategy", "failed"}
  /\ active \in Instruments
  /\ budget \in Nat
  /\ phase = "matching" => active \in DOMAIN market
  /\ phase # "matching" => todo = {}
  /\ phase \notin {"matching", "dispatching"} => DOMAIN fills = {}

\* States of an order the venue may still fill.
Workable == {"working", "partially_filled"}

\* An order the venue works reached it after it was decided, and is worked in
\* the OMS with the same filled quantity, counting the fills on their way.
PendingSound ==
  /\ todo \subseteq DOMAIN pending /\ DOMAIN pending \subseteq DOMAIN records
  /\ pending \in [DOMAIN pending -> [arrival: Int, filled: Nat, triggered: BOOLEAN]]
  /\ \A id \in DOMAIN pending :
       /\ pending[id].arrival > OrderOf(id).decision
       /\ pending[id].filled < OrderOf(id).qty
       /\ OrderOf(id).terms.tif \in {"ioc", "fok"} => pending[id].filled = 0
       /\ phase # "failed" =>
            /\ records[id].state \in Workable
            /\ pending[id].filled = records[id].filled + Undelivered(id)

\* A fill on its way belongs to an order that is still worked and was already
\* visited, fits what remains of it, and is later than its decision.
FillsSound ==
  \A id \in DOMAIN fills :
    /\ id \in DOMAIN records /\ id \notin todo
    /\ records[id].state \in Workable
    /\ fills[id] \in [id: {id}, inst: {OrderOf(id).inst}, side: {OrderOf(id).side},
                      qty: Nat \ {0}, time: 0..MaxTime, price: Nat, cost: Costs]
    /\ fills[id].time > OrderOf(id).decision
    /\ records[id].filled + fills[id].qty <= OrderOf(id).qty
    /\ OrderOf(id).terms.tif = "fok" =>
         records[id].filled = 0 /\ fills[id].qty = OrderOf(id).qty

\* No order is overfilled, and a fill-or-kill order is booked in full or not
\* at all.
BookedSound ==
  \A id \in DOMAIN records :
    /\ records[id].filled <= OrderOf(id).qty
    /\ OrderOf(id).terms.tif = "fok" => records[id].filled \in {0, OrderOf(id).qty}

BooksTyped ==
  /\ position \in [Instruments -> Int] /\ splitShares \in [Instruments -> Int]
  /\ cash \in Int /\ dividendCash \in Int

CoreInv ==
  /\ BookTypeOK /\ CounterAheadOfBook
  /\ Timely /\ MarketKnown /\ PhaseShape
  /\ PendingSound /\ FillsSound /\ BookedSound /\ BooksTyped

(***************************************************************************)
(* An integer quotient of naturals is a natural: the participation budget. *)
(***************************************************************************)
LEMMA QuotientNat == \A n \in Nat, d \in Nat \ {0} : n \div d \in Nat
OBVIOUS

(***************************************************************************)
(* The engine starts empty.                                                *)
(***************************************************************************)
LEMMA InitCoreInv == CoreInit => CoreInv
<1> SUFFICES ASSUME CoreInit PROVE CoreInv
  OBVIOUS
<1>1. BookTypeOK /\ CounterAheadOfBook
  BY InitBookInv DEF CoreInit, BookInv
<1>2. Timely
  BY MoneyIsWhole DEF CoreInit, Timely
<1>3. MarketKnown /\ PhaseShape
  BY DEF CoreInit, MarketKnown, PhaseShape
<1>4. PendingSound /\ FillsSound /\ BookedSound
  BY DEF CoreInit, OmsInit, PendingSound, FillsSound, BookedSound
<1>5. BooksTyped
  BY MoneyIsWhole DEF CoreInit, BooksTyped
<1> QED
  BY <1>1, <1>2, <1>3, <1>4, <1>5 DEF CoreInv

(***************************************************************************)
(* An event finds nothing half done, and what it does to the order book,   *)
(* the venue's copy and the fills is nothing: it only starts a phase.      *)
(***************************************************************************)
LEMMA EventKeepsOrders ==
  ASSUME CoreInv, EventArrives, UNCHANGED <<records, next, pending, fills>>,
         \/ phase' = "matching" /\ todo' = DOMAIN pending
         \/ phase' \in {"strategy", "idle"} /\ todo' = todo
  PROVE  /\ BookTypeOK' /\ CounterAheadOfBook' /\ BookedSound'
         /\ Timely' /\ PendingSound' /\ FillsSound'
         /\ todo = {} /\ DOMAIN fills = {}
<1>1. phase = "idle" /\ todo = {} /\ DOMAIN fills = {}
  BY DEF EventArrives, CoreInv, PhaseShape
<1>2. BookTypeOK' /\ CounterAheadOfBook' /\ BookedSound'
  BY DEF CoreInv, BookTypeOK, CounterAheadOfBook, BookedSound, OrderOf
<1>3. Timely'
  <2>1. PICK delay \in FeedDelays : clock' = exch' + delay
    BY DEF EventArrives
  <2>2. exch' \in 0..MaxTime
    BY MoneyIsWhole DEF EventArrives, CoreInv, Timely
  <2>3. delay \in Nat
    BY FeedIsNatural
  <2>4. \A t \in 0..MaxTime, d \in Nat : t + d \in Nat /\ t <= t + d
    BY MoneyIsWhole
  <2> QED
    BY <2>1, <2>2, <2>3, <2>4 DEF Timely
<1>4. PendingSound'
  BY <1>1 DEF CoreInv, PendingSound, OrderOf, Undelivered
<1>5. FillsSound'
  BY <1>1 DEF FillsSound
<1> QED
  BY <1>1, <1>2, <1>3, <1>4, <1>5

(***************************************************************************)
(* What a bar or a quote leaves of the market is well-formed.              *)
(***************************************************************************)
LEMMA MarketUpdated ==
  ASSUME MarketKnown, NEW inst \in Instruments, NEW m \in MarketRecord, NEW mark,
         \A slip \in Slips : slip <= m.bid,
         market' = With(market, inst, m), marks' = With(marks, inst, mark)
  PROVE  MarketKnown' /\ inst \in DOMAIN market'
<1>1. DOMAIN market' = DOMAIN market \cup {inst} /\ DOMAIN marks' = DOMAIN marks \cup {inst}
  BY DEF With
<1>2. \A i \in DOMAIN market' : market'[i] = IF i = inst THEN m ELSE market[i]
  BY DEF With
<1>3. market' \in [DOMAIN market' -> MarketRecord]
  BY <1>1, <1>2 DEF MarketKnown, With
<1> QED
  BY <1>1, <1>2, <1>3 DEF MarketKnown

(***************************************************************************)
(* A matching phase begins for an instrument the venue knows.              *)
(***************************************************************************)
LEMMA MatchingBegins ==
  ASSUME CoreInv, EventArrives, UNCHANGED <<omsVars, bookVars>>,
         NEW volume \in Nat, StartMatching(volume),
         active' \in Instruments, active' \in DOMAIN market', MarketKnown'
  PROVE  CoreInv'
<1>1. /\ phase' = "matching" /\ todo' = DOMAIN pending
      /\ UNCHANGED <<records, next, pending, fills>>
  BY DEF StartMatching, omsVars
<1>2. /\ BookTypeOK' /\ CounterAheadOfBook' /\ BookedSound'
      /\ Timely' /\ PendingSound' /\ FillsSound'
  BY <1>1, EventKeepsOrders
<1>3. budget' \in Nat
  BY MoneyIsWhole, QuotientNat DEF StartMatching
<1>4. PhaseShape'
  BY <1>1, <1>3 DEF PhaseShape
<1>5. BooksTyped'
  BY DEF CoreInv, BooksTyped, bookVars
<1> QED
  BY <1>2, <1>4, <1>5 DEF CoreInv

(***************************************************************************)
(* A bar moves the touch and opens the participation budget for the bar's  *)
(* instrument; the orders to visit are those pending.                      *)
(***************************************************************************)
LEMMA StepBar == CoreInv /\ Bar => CoreInv'
<1> SUFFICES ASSUME CoreInv, Bar PROVE CoreInv'
  OBVIOUS
<1> DEFINE blank(b) == [bid |-> b.close, ask |-> b.close, bidSize |-> 0, askSize |-> 0,
                        hasQuote |-> FALSE, volume |-> 0, updated |-> 0]
           touch(inst, b) == IF inst \in DOMAIN market /\ market[inst].hasQuote
                             THEN market[inst] ELSE blank(b)
           m(inst, b) == [touch(inst, b) EXCEPT !.volume = b.volume, !.updated = exch']
<1>1. PICK inst \in Instruments, b \in Bars :
        /\ active' = inst
        /\ market' = With(market, inst, m(inst, b))
        /\ marks' = With(marks, inst, [bid |-> b.close, ask |-> b.close])
        /\ StartMatching(b.volume)
  BY DEF Bar
<1>2. EventArrives /\ UNCHANGED <<omsVars, bookVars>>
  BY DEF Bar
<1>3. exch' \in Nat
  BY <1>2, MoneyIsWhole DEF EventArrives, CoreInv, Timely
<1>4. b.close \in Nat /\ b.volume \in Nat /\ \A slip \in Slips : slip <= b.close
  BY FeedIsNatural, SlipsBelowPrices
<1>5. touch(inst, b) \in MarketRecord /\ \A slip \in Slips : slip <= touch(inst, b).bid
  <2>1. CASE inst \in DOMAIN market /\ market[inst].hasQuote
    BY <2>1 DEF CoreInv, MarketKnown
  <2>2. CASE ~(inst \in DOMAIN market /\ market[inst].hasQuote)
    BY <1>4, <2>2 DEF MarketRecord
  <2> QED
    BY <2>1, <2>2
<1>6. m(inst, b) \in MarketRecord /\ m(inst, b).bid = touch(inst, b).bid
  <2> HIDE DEF touch
  <2> QED
    BY <1>3, <1>4, <1>5 DEF MarketRecord
<1> HIDE DEF m, touch
<1>7. MarketKnown' /\ inst \in DOMAIN market'
  BY <1>1, <1>5, <1>6, MarketUpdated DEF CoreInv
<1> QED
  BY <1>1, <1>2, <1>4, <1>7, MatchingBegins

(***************************************************************************)
(* A quote replaces the touch and caps nothing by volume.                  *)
(***************************************************************************)
LEMMA StepQuote == CoreInv /\ Quote => CoreInv'
<1> SUFFICES ASSUME CoreInv, Quote PROVE CoreInv'
  OBVIOUS
<1> DEFINE volume(inst) == IF inst \in DOMAIN market THEN market[inst].volume ELSE 0
           m(inst, q) == [bid |-> q.bid, ask |-> q.ask, bidSize |-> q.bidSize,
                          askSize |-> q.askSize, hasQuote |-> TRUE,
                          volume |-> volume(inst), updated |-> exch']
<1>1. PICK inst \in Instruments, q \in Quotes :
        /\ active' = inst
        /\ market' = With(market, inst, m(inst, q))
        /\ marks' = With(marks, inst, [bid |-> q.bid, ask |-> q.ask])
        /\ StartMatching(volume(inst))
  BY DEF Quote
<1>2. EventArrives /\ UNCHANGED <<omsVars, bookVars>>
  BY DEF Quote
<1>3. exch' \in Nat
  BY <1>2, MoneyIsWhole DEF EventArrives, CoreInv, Timely
<1>4. /\ q.bid \in Nat /\ q.ask \in Nat /\ q.bidSize \in Nat /\ q.askSize \in Nat
      /\ \A slip \in Slips : slip <= q.bid
  BY FeedIsNatural, SlipsBelowPrices
<1>5. volume(inst) \in Nat
  BY DEF CoreInv, MarketKnown, MarketRecord
<1>6. m(inst, q) \in MarketRecord /\ m(inst, q).bid = q.bid
  BY <1>3, <1>4, <1>5 DEF MarketRecord
<1> HIDE DEF m, volume
<1>7. MarketKnown' /\ inst \in DOMAIN market'
  BY <1>1, <1>4, <1>6, MarketUpdated DEF CoreInv
<1> QED
  BY <1>1, <1>2, <1>5, <1>7, MatchingBegins

(***************************************************************************)
(* The events that do not reach the venue.                                 *)
(***************************************************************************)
LEMMA StepQuietEvent == CoreInv /\ (TradeOrClose \/ SessionOpen \/ Split \/ Dividend) => CoreInv'
<1> SUFFICES ASSUME CoreInv, TradeOrClose \/ SessionOpen \/ Split \/ Dividend PROVE CoreInv'
  OBVIOUS
<1>1. /\ EventArrives
      /\ UNCHANGED <<omsVars, venueVars, active, market>>
      /\ phase' \in {"strategy", "idle"}
  BY DEF TradeOrClose, SessionOpen, Split, Dividend, marketVars, EventArrives
<1>2. /\ UNCHANGED <<records, next, pending, fills, budget>> /\ todo' = todo
      /\ active' = active /\ market' = market
  BY <1>1 DEF omsVars, venueVars
<1>3. /\ BookTypeOK' /\ CounterAheadOfBook' /\ BookedSound'
      /\ Timely' /\ PendingSound' /\ FillsSound' /\ todo = {} /\ DOMAIN fills = {}
  BY <1>1, <1>2, EventKeepsOrders
<1>4. PhaseShape'
  BY <1>1, <1>2, <1>3 DEF CoreInv, PhaseShape
<1>5. MarketKnown'
  <2>1. DOMAIN marks' = DOMAIN marks
    BY DEF TradeOrClose, SessionOpen, Split, Dividend, marketVars
  <2> QED
    BY <1>2, <2>1 DEF CoreInv, MarketKnown
<1>6. BooksTyped'
  <2>1. CASE TradeOrClose \/ SessionOpen
    BY <2>1 DEF TradeOrClose, SessionOpen, CoreInv, BooksTyped, bookVars
  <2>2. CASE Split
    <3>1. PICK inst \in Instruments, r \in SplitRatios :
            /\ position' = [position EXCEPT ![inst] = @ * r]
            /\ splitShares' = [splitShares EXCEPT ![inst] = @ + position[inst] * (r - 1)]
      BY <2>2 DEF Split
    <3>2. position[inst] \in Int /\ splitShares[inst] \in Int /\ r \in Int
      BY MoneyIsWhole DEF CoreInv, BooksTyped
    <3>3. position[inst] * r \in Int /\ splitShares[inst] + position[inst] * (r - 1) \in Int
      BY <3>2
    <3>4. cash' = cash /\ dividendCash' = dividendCash
      BY <2>2 DEF Split
    <3> QED
      BY <3>1, <3>3, <3>4 DEF CoreInv, BooksTyped
  <2>3. CASE Dividend
    <3>1. PICK inst \in Instruments, amount \in Dividends :
            /\ cash' = cash + amount * position[inst]
            /\ dividendCash' = dividendCash + amount * position[inst]
      BY <2>3 DEF Dividend
    <3>2. amount * position[inst] \in Int
      BY MoneyIsWhole DEF CoreInv, BooksTyped
    <3>3. position' = position /\ splitShares' = splitShares
      BY <2>3 DEF Dividend
    <3> QED
      BY <3>1, <3>2, <3>3 DEF CoreInv, BooksTyped
  <2> QED
    BY <2>1, <2>2, <2>3
<1> QED
  BY <1>3, <1>4, <1>5, <1>6 DEF CoreInv

-----------------------------------------------------------------------------
(* on_market visits one pending order.                                     *)

\* What a visit leaves alone.
VisitFrame == UNCHANGED <<omsVars, engineVars, marketVars, bookVars>>

(***************************************************************************)
(* The parts of the invariant that on_market does not touch.               *)
(***************************************************************************)
LEMMA VisitKeeps ==
  CoreInv /\ VisitFrame =>
    /\ BookTypeOK' /\ CounterAheadOfBook' /\ Timely' /\ MarketKnown'
    /\ BookedSound' /\ BooksTyped'
<1> SUFFICES ASSUME CoreInv, VisitFrame
             PROVE  /\ BookTypeOK' /\ CounterAheadOfBook' /\ Timely' /\ MarketKnown'
                    /\ BookedSound' /\ BooksTyped'
  OBVIOUS
<1>1. BookTypeOK' /\ CounterAheadOfBook' /\ BookedSound'
  BY DEF CoreInv, VisitFrame, omsVars, BookTypeOK, CounterAheadOfBook, BookedSound, OrderOf
<1>2. Timely' /\ MarketKnown'
  BY DEF CoreInv, VisitFrame, engineVars, marketVars, Timely, MarketKnown
<1>3. BooksTyped'
  BY DEF CoreInv, VisitFrame, bookVars, BooksTyped
<1> QED
  BY <1>1, <1>2, <1>3

(***************************************************************************)
(* What the venue still has to visit, and how much it may fill of it: at   *)
(* least one, at most what is left.                                        *)
(***************************************************************************)
LEMMA VisitedFacts ==
  ASSUME CoreInv, NEW id, Visit(id)
  PROVE  /\ id \in DOMAIN pending /\ id \in DOMAIN records /\ id \notin DOMAIN fills
         /\ pending[id].filled \in Nat /\ pending[id].arrival \in Int
         /\ pending[id].triggered \in BOOLEAN
         /\ OrderOf(id) \in Order /\ OrderOf(id).qty \in Nat /\ OrderOf(id).decision \in Nat
         /\ pending[id].filled < OrderOf(id).qty
         /\ pending[id].arrival > OrderOf(id).decision
         /\ records[id].filled = pending[id].filled
         /\ records[id].state \in Workable
         /\ Want(id) \in Nat \ {0} /\ Want(id) = OrderOf(id).qty - pending[id].filled
         /\ OrderOf(id).terms.tif \in {"ioc", "fok"} => pending[id].filled = 0
         /\ phase = "matching" /\ active \in DOMAIN market /\ market[active] \in MarketRecord
<1>1. id \in todo /\ phase = "matching"
  BY DEF Visit
<1>2. id \in DOMAIN pending /\ id \in DOMAIN records /\ id \notin DOMAIN fills
  BY <1>1 DEF CoreInv, PendingSound, FillsSound
<1>3. /\ pending[id].filled \in Nat /\ pending[id].arrival \in Int
      /\ pending[id].triggered \in BOOLEAN
  BY <1>2 DEF CoreInv, PendingSound
<1>4. OrderOf(id) \in Order /\ records[id].filled \in Nat
  BY <1>2 DEF CoreInv, BookTypeOK, OrderRecord, OrderOf
<1>5. OrderOf(id).qty \in Nat /\ OrderOf(id).decision \in Nat
  BY <1>4, PositiveQuantities, TimesAreNaturals DEF Order
<1>6. /\ pending[id].filled < OrderOf(id).qty
      /\ pending[id].arrival > OrderOf(id).decision
      /\ records[id].state \in Workable
      /\ pending[id].filled = records[id].filled + Undelivered(id)
      /\ OrderOf(id).terms.tif \in {"ioc", "fok"} => pending[id].filled = 0
  BY <1>1, <1>2 DEF CoreInv, PendingSound
<1>7. records[id].filled = pending[id].filled
  BY <1>2, <1>4, <1>6 DEF Undelivered
<1>8. Want(id) \in Nat \ {0} /\ Want(id) = OrderOf(id).qty - pending[id].filled
  BY <1>3, <1>5, <1>6 DEF Want
<1>9. active \in DOMAIN market /\ market[active] \in MarketRecord
  BY <1>1 DEF CoreInv, PhaseShape, MarketKnown
<1> QED
  BY <1>1, <1>2, <1>3, <1>4, <1>5, <1>6, <1>7, <1>8, <1>9

(***************************************************************************)
(* What on_market may fill of an order it executes: at least one share, at *)
(* most what is left, of the instrument of the event and after the order   *)
(* was decided.                                                            *)
(***************************************************************************)
LEMMA AllowedFacts ==
  ASSUME CoreInv, NEW id, Visit(id), Executable(id)
  PROVE  /\ Allowed(id) \in Nat \ {0} /\ Allowed(id) <= Want(id)
         /\ OrderOf(id).inst = active /\ exch > OrderOf(id).decision
<1>1. /\ Want(id) \in Nat \ {0} /\ market[active] \in MarketRecord
      /\ pending[id].arrival \in Int /\ OrderOf(id).decision \in Nat
      /\ pending[id].arrival > OrderOf(id).decision
  BY VisitedFacts
<1>2. OrderOf(id).inst = active /\ exch >= pending[id].arrival
  BY DEF Executable, Arrived
<1>3. DisplayCapped(id) \in Nat \ {0} /\ DisplayCapped(id) <= Want(id)
  <2>1. DisplayedSize(active, OrderOf(id).side) \in Nat
    BY <1>1 DEF DisplayedSize, MarketRecord
  <2>2. DisplayCapped(id) > 0
    BY DEF Executable, Liquid
  <2>3. DisplayCapped(id) = Want(id)
        \/ DisplayCapped(id) = Least(Want(id), DisplayedSize(active, OrderOf(id).side))
    BY <1>2 DEF DisplayCapped
  <2> QED
    BY <1>1, <2>1, <2>2, <2>3 DEF Least
<1>4. budget \in Nat /\ exch \in Int
  BY DEF CoreInv, PhaseShape, Timely
<1>5. Allowed(id) \in Nat \ {0} /\ Allowed(id) <= Want(id)
  BY <1>1, <1>3, <1>4 DEF Allowed, CapApplies
<1> QED
  BY <1>1, <1>2, <1>4, <1>5

(***************************************************************************)
(* Passing over an order that is not executable at this event.             *)
(***************************************************************************)
LEMMA StepSkip == \A id \in todo : CoreInv /\ Skip(id) => CoreInv'
<1> SUFFICES ASSUME NEW id \in todo, CoreInv, Skip(id) PROVE CoreInv'
  OBVIOUS
<1>1. VisitFrame /\ Visit(id) /\ UNCHANGED <<budget, fills>>
  BY DEF Skip, VisitFrame
<1>2. /\ BookTypeOK' /\ CounterAheadOfBook' /\ Timely' /\ MarketKnown'
      /\ BookedSound' /\ BooksTyped'
  BY <1>1, VisitKeeps
<1>3. /\ UNCHANGED <<records, phase, active, market, budget, fills>>
      /\ todo' = todo \ {id} /\ phase = "matching"
  BY <1>1 DEF VisitFrame, Visit, omsVars, engineVars, marketVars
<1>4. id \in DOMAIN pending /\ pending[id].triggered \in BOOLEAN
  BY <1>1, VisitedFacts
<1>5. Triggered(id) \in BOOLEAN
  BY <1>4 DEF Triggered
<1>6. /\ DOMAIN pending' = DOMAIN pending
      /\ pending' \in [DOMAIN pending -> [arrival: Int, filled: Nat, triggered: BOOLEAN]]
      /\ \A k \in DOMAIN pending : /\ pending'[k].arrival = pending[k].arrival
                                 /\ pending'[k].filled = pending[k].filled
  <2>1. pending' = pending \/ pending' = [pending EXCEPT ![id].triggered = Triggered(id)]
    BY DEF Skip
  <2>2. pending \in [DOMAIN pending -> [arrival: Int, filled: Nat, triggered: BOOLEAN]]
    BY DEF CoreInv, PendingSound
  <2> QED
    BY <1>4, <1>5, <2>1, <2>2
<1>7. PendingSound'
  BY <1>3, <1>6 DEF CoreInv, PendingSound, OrderOf, Undelivered
<1>8. FillsSound'
  BY <1>3 DEF CoreInv, FillsSound, OrderOf
<1>9. PhaseShape'
  BY <1>3 DEF CoreInv, PhaseShape
<1> QED
  BY <1>2, <1>7, <1>8, <1>9 DEF CoreInv

(***************************************************************************)
(* Dropping a fill-or-kill order that cannot fill in full: the venue       *)
(* forgets it, and the OMS, which is not told, still shows it as working.  *)
(***************************************************************************)
LEMMA StepKill == \A id \in todo : CoreInv /\ Kill(id) => CoreInv'
<1> SUFFICES ASSUME NEW id \in todo, CoreInv, Kill(id) PROVE CoreInv'
  OBVIOUS
<1>1. VisitFrame /\ Visit(id) /\ UNCHANGED <<budget, fills>> /\ pending' = Without(pending, id)
  BY DEF Kill, VisitFrame
<1>2. /\ BookTypeOK' /\ CounterAheadOfBook' /\ Timely' /\ MarketKnown'
      /\ BookedSound' /\ BooksTyped'
  BY <1>1, VisitKeeps
<1>3. /\ UNCHANGED <<records, phase, active, market, budget, fills>>
      /\ todo' = todo \ {id} /\ phase = "matching"
  BY <1>1 DEF VisitFrame, Visit, omsVars, engineVars, marketVars
<1>4. /\ DOMAIN pending' = DOMAIN pending \ {id}
      /\ \A k \in DOMAIN pending' : pending'[k] = pending[k]
      /\ pending' \in [DOMAIN pending' -> [arrival: Int, filled: Nat, triggered: BOOLEAN]]
  BY <1>1 DEF Without, CoreInv, PendingSound
<1>5. PendingSound'
  BY <1>3, <1>4 DEF CoreInv, PendingSound, OrderOf, Undelivered
<1>6. FillsSound'
  BY <1>3 DEF CoreInv, FillsSound, OrderOf
<1>7. PhaseShape'
  BY <1>3 DEF CoreInv, PhaseShape
<1> QED
  BY <1>2, <1>5, <1>6, <1>7 DEF CoreInv

(***************************************************************************)
(* Filling an order in full or in part: the fill fits what remains, and    *)
(* the venue counts it before the OMS does.                                *)
(***************************************************************************)
LEMMA StepExecute == \A id \in todo : CoreInv /\ Execute(id) => CoreInv'
<1> SUFFICES ASSUME NEW id \in todo, CoreInv, Execute(id) PROVE CoreInv'
  OBVIOUS
<1> DEFINE o == OrderOf(id)
           q == Allowed(id)
<1>1. VisitFrame /\ Visit(id) /\ Executable(id) /\ ~Killed(id)
  BY DEF Execute, VisitFrame
<1>2. PICK slip \in Slips, cost \in Costs :
        fills' = With(fills, id,
                      [id |-> id, inst |-> o.inst, side |-> o.side, qty |-> q,
                       time |-> exch, cost |-> cost,
                       price |-> Touch(o.inst, o.side) + SignOf(o.side) * slip])
  BY DEF Execute
<1>3. budget' = BudgetAfter(q) /\ pending' = AfterExecution(id, q)
  BY DEF Execute
<1>4. /\ BookTypeOK' /\ CounterAheadOfBook' /\ Timely' /\ MarketKnown'
      /\ BookedSound' /\ BooksTyped'
  BY <1>1, VisitKeeps
<1>5. /\ UNCHANGED <<records, phase, active, market>>
      /\ todo' = todo \ {id} /\ phase = "matching"
  BY <1>1 DEF VisitFrame, Visit, omsVars, engineVars, marketVars
<1>6. /\ id \in DOMAIN pending /\ id \in DOMAIN records /\ id \notin DOMAIN fills
      /\ pending[id].filled \in Nat /\ pending[id].triggered \in BOOLEAN
      /\ o.qty \in Nat /\ records[id].filled = pending[id].filled
      /\ records[id].state \in Workable
      /\ Want(id) \in Nat \ {0} /\ Want(id) = o.qty - pending[id].filled
      /\ o.terms.tif \in {"ioc", "fok"} => pending[id].filled = 0
      /\ active \in DOMAIN market /\ market[active] \in MarketRecord
  BY <1>1, VisitedFacts
<1>7. q \in Nat \ {0} /\ q <= Want(id) /\ o.inst = active /\ exch > o.decision
  BY <1>1, AllowedFacts
<1>8. o.terms.tif = "fok" => q = Want(id)
  BY <1>1, <1>6, <1>7 DEF Killed
<1>9. Touch(o.inst, o.side) + SignOf(o.side) * slip \in Nat
  <2>1. slip \in Nat /\ slip <= market[active].bid
    BY <1>6, SlipsBelowPrices DEF CoreInv, MarketKnown
  <2>2. market[active].bid \in Nat /\ market[active].ask \in Nat
    BY <1>6 DEF MarketRecord
  <2>3. CASE o.side = Buy
    BY <1>7, <2>1, <2>2, <2>3 DEF Touch, SignOf
  <2>4. CASE o.side # Buy
    BY <1>7, <2>1, <2>2, <2>4 DEF Touch, SignOf
  <2> QED
    BY <2>3, <2>4
<1>10. exch \in 0..MaxTime /\ budget \in Nat
  BY DEF CoreInv, Timely, PhaseShape
<1> HIDE DEF q
<1>11. /\ DOMAIN fills' = DOMAIN fills \cup {id}
       /\ \A k \in DOMAIN fills : fills'[k] = fills[k]
       /\ fills'[id] \in [id: {id}, inst: {o.inst}, side: {o.side}, qty: Nat \ {0},
                          time: 0..MaxTime, price: Nat, cost: Costs]
       /\ fills'[id].time = exch /\ fills'[id].qty = q
  BY <1>2, <1>6, <1>7, <1>9, <1>10 DEF With
<1>12. FillsSound'
  <2>1. ASSUME NEW k \in DOMAIN fills
        PROVE  /\ k \in DOMAIN records /\ k \notin todo'
               /\ records[k].state \in Workable
               /\ fills'[k] \in [id: {k}, inst: {OrderOf(k).inst}, side: {OrderOf(k).side},
                                 qty: Nat \ {0}, time: 0..MaxTime, price: Nat, cost: Costs]
               /\ fills'[k].time > OrderOf(k).decision
               /\ records[k].filled + fills'[k].qty <= OrderOf(k).qty
               /\ OrderOf(k).terms.tif = "fok" =>
                    records[k].filled = 0 /\ fills'[k].qty = OrderOf(k).qty
    BY <1>5, <1>11 DEF CoreInv, FillsSound
  <2>2. /\ id \notin todo' /\ fills'[id].time > o.decision
        /\ records[id].filled + fills'[id].qty <= o.qty
        /\ o.terms.tif = "fok" => records[id].filled = 0 /\ fills'[id].qty = o.qty
    BY <1>5, <1>6, <1>7, <1>8, <1>11
  <2> QED
    BY <1>5, <1>6, <1>11, <2>1, <2>2 DEF FillsSound, OrderOf
<1>13. Triggered(id) \in BOOLEAN
  BY <1>6 DEF Triggered
<1>14. PendingSound'
  <2>1. CASE q = Want(id) \/ o.terms.tif = "ioc"
    <3>1. /\ DOMAIN pending' = DOMAIN pending \ {id}
          /\ \A k \in DOMAIN pending' : pending'[k] = pending[k]
          /\ pending' \in [DOMAIN pending' -> [arrival: Int, filled: Nat, triggered: BOOLEAN]]
      BY <1>3, <2>1 DEF AfterExecution, Without, CoreInv, PendingSound
    <3> QED
      BY <1>5, <1>11, <3>1 DEF CoreInv, PendingSound, OrderOf, Undelivered
  <2>2. CASE ~(q = Want(id) \/ o.terms.tif = "ioc")
    <3>1. pending' = [pending EXCEPT ![id].filled = @ + q, ![id].triggered = Triggered(id)]
      BY <1>3, <2>2 DEF AfterExecution
    <3>2. pending \in [DOMAIN pending -> [arrival: Int, filled: Nat, triggered: BOOLEAN]]
      BY DEF CoreInv, PendingSound
    <3>3. pending[id].filled + q \in Nat /\ pending[id].filled + q < o.qty
      BY <1>6, <1>7, <2>2
    <3>4. /\ DOMAIN pending' = DOMAIN pending
          /\ pending' \in [DOMAIN pending -> [arrival: Int, filled: Nat, triggered: BOOLEAN]]
          /\ pending'[id].filled = pending[id].filled + q
          /\ pending'[id].arrival = pending[id].arrival
          /\ \A k \in DOMAIN pending \ {id} : pending'[k] = pending[k]
      BY <1>6, <1>13, <3>1, <3>2, <3>3
    <3>5. o.terms.tif \notin {"ioc", "fok"}
      BY <1>8, <2>2
    <3>6. pending'[id].filled = records[id].filled + q
      BY <1>6, <3>4
    <3> QED
      BY <1>5, <1>6, <1>11, <3>3, <3>4, <3>5, <3>6 DEF CoreInv, PendingSound, OrderOf, Undelivered
  <2> QED
    BY <2>1, <2>2
<1>15. PhaseShape'
  <2>1. budget' \in Nat
    BY <1>3, <1>7, <1>10 DEF BudgetAfter
  <2> QED
    BY <1>5, <2>1 DEF CoreInv, PhaseShape
<1> QED
  BY <1>4, <1>12, <1>14, <1>15 DEF CoreInv

(***************************************************************************)
(* on_market returns: every pending order was visited, and the fills wait  *)
(* for dispatch_fills.                                                     *)
(***************************************************************************)
LEMMA StepMatchingDone == CoreInv /\ MatchingDone => CoreInv'
<1> SUFFICES ASSUME CoreInv, MatchingDone PROVE CoreInv'
  OBVIOUS
<1>1. /\ UNCHANGED <<records, next, clock, exch, active, market, marks, pending, todo, budget, fills>>
      /\ UNCHANGED <<position, cash, splitShares, dividendCash>>
      /\ phase = "matching" /\ phase' = "dispatching" /\ todo = {}
  BY DEF MatchingDone, omsVars, marketVars, venueVars, bookVars
<1>2. BookTypeOK' /\ CounterAheadOfBook' /\ BookedSound'
  BY <1>1 DEF CoreInv, BookTypeOK, CounterAheadOfBook, BookedSound, OrderOf
<1>3. Timely' /\ MarketKnown' /\ BooksTyped'
  BY <1>1 DEF CoreInv, Timely, MarketKnown, BooksTyped
<1>4. PhaseShape' /\ FillsSound'
  BY <1>1 DEF CoreInv, PhaseShape, FillsSound, OrderOf
<1>5. PendingSound'
  BY <1>1 DEF CoreInv, PendingSound, OrderOf, Undelivered
<1> QED
  BY <1>2, <1>3, <1>4, <1>5 DEF CoreInv

-----------------------------------------------------------------------------
(* dispatch_fills books one fill.                                          *)

(***************************************************************************)
(* A fill on its way is one the OMS accepts, whatever else was booked      *)
(* since the venue made it.                                                *)
(***************************************************************************)
LEMMA FillAccepted ==
  ASSUME CoreInv, NEW id \in DOMAIN fills
  PROVE  /\ fills[id].id = id /\ fills[id].inst \in Instruments /\ fills[id].side \in Sides
         /\ fills[id].qty \in Nat \ {0} /\ fills[id].price \in Nat /\ fills[id].cost \in Nat
         /\ id \in DOMAIN records
         /\ FillMatches(records, fills[id]) /\ FillReturnsOk(records, fills[id])
<1> DEFINE f == fills[id]
<1>1. /\ id \in DOMAIN records /\ records[id].state \in Workable
      /\ f \in [id: {id}, inst: {OrderOf(id).inst}, side: {OrderOf(id).side},
                qty: Nat \ {0}, time: 0..MaxTime, price: Nat, cost: Costs]
      /\ f.time > OrderOf(id).decision
      /\ records[id].filled + f.qty <= OrderOf(id).qty
  BY DEF CoreInv, FillsSound
<1> HIDE DEF f
<1>2. OrderOf(id) \in Order
  BY <1>1 DEF CoreInv, BookTypeOK, OrderRecord, OrderOf
<1>3. /\ f.id = id /\ f.inst = OrderOf(id).inst /\ f.side = OrderOf(id).side
      /\ f.qty \in Nat \ {0} /\ f.price \in Nat /\ f.cost \in Nat
  BY <1>1, MoneyIsNatural
<1>4. FillMatches(records, f)
  BY <1>1, <1>3 DEF FillMatches, OrderOf, Workable, TerminalStates
<1>5. FillReturnsOk(records, f)
  BY <1>1, <1>3 DEF FillReturnsOk, StateAfterFill, LegalTransition, Successors, Workable,
                     TerminalStates
<1> QED
  BY <1>1, <1>2, <1>3, <1>4, <1>5 DEF f, Order

(***************************************************************************)
(* The book after a fill is delivered: well-formed, and the order is still *)
(* worked unless the fill completed it.                                    *)
(***************************************************************************)
LEMMA DeliveredFacts ==
  ASSUME CoreInv, NEW id \in DOMAIN fills, records' = FillBooked(records, fills[id]),
         next' = next
  PROVE  /\ BookTypeOK' /\ CounterAheadOfBook' /\ BookedSound'
         /\ DOMAIN records' = DOMAIN records
         /\ \A k \in DOMAIN records : records'[k].order = records[k].order
         /\ records'[id].filled = records[id].filled + fills[id].qty
         /\ records'[id].filled < OrderOf(id).qty => records'[id].state = "partially_filled"
         /\ \A k \in DOMAIN records \ {id} : records'[k] = records[k]
<1> DEFINE f == fills[id]
<1>1. /\ f.id = id /\ f.qty \in Nat \ {0} /\ f.price \in Nat /\ f.cost \in Nat
      /\ id \in DOMAIN records /\ FillMatches(records, f) /\ FillReturnsOk(records, f)
  BY FillAccepted
<1>2. /\ records[id].filled + f.qty <= OrderOf(id).qty
      /\ OrderOf(id).terms.tif = "fok" => records[id].filled = 0 /\ f.qty = OrderOf(id).qty
  BY DEF CoreInv, FillsSound
<1> HIDE DEF f
<1>3. DOMAIN records \subseteq Ids /\ records \in [DOMAIN records -> OrderRecord]
  BY DEF CoreInv, BookTypeOK
<1>4. /\ DOMAIN records' = DOMAIN records
      /\ records' \in [DOMAIN records -> OrderRecord]
      /\ records'[id].order = records[id].order
      /\ records'[id].filled = records[id].filled + f.qty
      /\ records'[id].state = StateAfterFill(records[id], f.qty)
      /\ \A k \in DOMAIN records \ {id} : records'[k] = records[k]
  BY <1>1, <1>3, FillBookedFacts DEF f
<1>5. BookTypeOK' /\ CounterAheadOfBook'
  BY <1>4 DEF CoreInv, BookTypeOK, CounterAheadOfBook
<1>6. records[id].filled \in Nat /\ OrderOf(id).qty \in Nat
  BY <1>1, <1>3, PositiveQuantities DEF OrderRecord, Order, OrderOf
<1>7. BookedSound'
  BY <1>2, <1>4, <1>6 DEF CoreInv, BookedSound, OrderOf
<1>8. records'[id].filled < OrderOf(id).qty => records'[id].state = "partially_filled"
  BY <1>1, <1>4, <1>6 DEF StateAfterFill, OrderOf
<1> QED
  BY <1>4, <1>5, <1>7, <1>8 DEF f

(***************************************************************************)
(* Money and shares stay integers.                                         *)
(***************************************************************************)
LEMMA FillAmountsInt ==
  ASSUME CoreInv, NEW id \in DOMAIN fills
  PROVE  /\ SignOf(fills[id].side) \in {1, -1}
         /\ fills[id].price * fills[id].qty \in Nat
         /\ PositionDelta(fills[id]) \in Int /\ CashDelta(fills[id]) \in Int
<1> DEFINE f == fills[id]
           value == f.price * f.qty
<1>1. f.qty \in Nat /\ f.price \in Nat /\ f.cost \in Nat
  BY FillAccepted
<1>2. SignOf(f.side) \in {1, -1}
  BY DEF SignOf
<1> HIDE DEF f
<1>3. value \in Nat
  BY <1>1
<1>4. SignOf(f.side) * f.qty \in Int
  BY <1>1, <1>2
<1> HIDE DEF value
<1>5. -(value * SignOf(f.side)) - f.cost \in Int
  BY <1>1, <1>2, <1>3
<1> QED
  BY <1>2, <1>3, <1>4, <1>5 DEF PositionDelta, CashDelta, f, value

(***************************************************************************)
(* dispatch_fills books one fill in the OMS and the portfolio.             *)
(***************************************************************************)
LEMMA StepDispatchFill == \A id \in DOMAIN fills : CoreInv /\ DispatchFill(id) => CoreInv'
<1> SUFFICES ASSUME NEW id \in DOMAIN fills, CoreInv, DispatchFill(id) PROVE CoreInv'
  OBVIOUS
<1> DEFINE f == fills[id]
<1>1. /\ records' = FillBooked(records, f) /\ fills' = Without(fills, id)
      /\ position' = [position EXCEPT ![f.inst] = @ + PositionDelta(f)]
      /\ cash' = cash + CashDelta(f)
      /\ UNCHANGED <<next, engineVars, marketVars, pending, todo, budget, splitShares, dividendCash>>
      /\ phase = "dispatching"
  BY DEF DispatchFill, OldestFill
<1>2. UNCHANGED <<next, phase, active, clock, exch, market, marks>>
  BY <1>1 DEF engineVars, marketVars
<1>3. /\ BookTypeOK' /\ CounterAheadOfBook' /\ BookedSound'
      /\ DOMAIN records' = DOMAIN records
      /\ \A k \in DOMAIN records : records'[k].order = records[k].order
      /\ records'[id].filled = records[id].filled + f.qty
      /\ records'[id].filled < OrderOf(id).qty => records'[id].state = "partially_filled"
      /\ \A k \in DOMAIN records \ {id} : records'[k] = records[k]
  BY <1>1, DeliveredFacts
<1>4. Timely' /\ MarketKnown'
  BY <1>1, <1>2 DEF CoreInv, Timely, MarketKnown
<1>5. DOMAIN fills' = DOMAIN fills \ {id} /\ \A k \in DOMAIN fills' : fills'[k] = fills[k]
  BY <1>1 DEF Without
<1>6. PhaseShape'
  BY <1>1, <1>2, <1>5 DEF CoreInv, PhaseShape
<1>7. FillsSound'
  BY <1>1, <1>3, <1>5 DEF CoreInv, FillsSound, OrderOf
<1>8. PendingSound'
  <2>1. id \in DOMAIN pending => /\ pending[id].filled = records'[id].filled
                                 /\ records'[id].state \in Workable
    BY <1>1, <1>3 DEF CoreInv, PendingSound, Undelivered, Workable
  <2>2. /\ todo' \subseteq DOMAIN pending' /\ DOMAIN pending' \subseteq DOMAIN records'
        /\ pending' \in [DOMAIN pending' -> [arrival: Int, filled: Nat, triggered: BOOLEAN]]
    BY <1>1, <1>3 DEF CoreInv, PendingSound
  <2>3. ASSUME NEW k \in DOMAIN pending
        PROVE  /\ pending[k].arrival > records'[k].order.decision
               /\ pending[k].filled < records'[k].order.qty
               /\ records'[k].order.terms.tif \in {"ioc", "fok"} => pending[k].filled = 0
               /\ records'[k].state \in Workable
               /\ pending[k].filled = records'[k].filled + (IF k \in DOMAIN fills' THEN fills'[k].qty ELSE 0)
    <3>1. /\ k \in DOMAIN records /\ pending[k].arrival > records[k].order.decision
          /\ pending[k].filled < records[k].order.qty
          /\ records[k].order.terms.tif \in {"ioc", "fok"} => pending[k].filled = 0
          /\ records[k].state \in Workable
          /\ pending[k].filled = records[k].filled + (IF k \in DOMAIN fills THEN fills[k].qty ELSE 0)
      BY <1>1 DEF CoreInv, PendingSound, OrderOf, Undelivered
    <3>2. pending[k].filled \in Nat
      BY DEF CoreInv, PendingSound
    <3>3. CASE k = id
      BY <1>3, <1>5, <2>1, <3>1, <3>2, <3>3
    <3>4. CASE k # id
      BY <1>3, <1>5, <3>1, <3>4
    <3> QED
      BY <3>3, <3>4
  <2> QED
    BY <1>1, <2>2, <2>3 DEF PendingSound, OrderOf, Undelivered
<1>9. BooksTyped'
  <2>1. PositionDelta(f) \in Int /\ CashDelta(f) \in Int /\ f.inst \in Instruments
    BY FillAmountsInt, FillAccepted
  <2> HIDE DEF f
  <2>2. position[f.inst] + PositionDelta(f) \in Int /\ cash + CashDelta(f) \in Int
    BY <2>1 DEF CoreInv, BooksTyped
  <2> QED
    BY <1>1, <2>1, <2>2 DEF CoreInv, BooksTyped
<1> QED
  BY <1>3, <1>4, <1>6, <1>7, <1>8, <1>9 DEF CoreInv

(***************************************************************************)
(* The portfolio refuses a fill the OMS booked, and the engine stops.      *)
(***************************************************************************)
LEMMA StepDispatchRefused == \A id \in DOMAIN fills : CoreInv /\ DispatchRefused(id) => CoreInv'
<1> SUFFICES ASSUME NEW id \in DOMAIN fills, CoreInv, DispatchRefused(id) PROVE CoreInv'
  OBVIOUS
<1> DEFINE f == fills[id]
<1>1. /\ records' = FillBooked(records, f) /\ DOMAIN fills' = {}
      /\ UNCHANGED <<next, active, clock, exch, market, marks, pending, todo, budget>>
      /\ UNCHANGED <<position, cash, splitShares, dividendCash>>
      /\ phase = "dispatching" /\ phase' = "failed"
  BY FillAccepted DEF DispatchRefused, OldestFill, marketVars, bookVars
<1>2. /\ BookTypeOK' /\ CounterAheadOfBook' /\ BookedSound'
      /\ DOMAIN records' = DOMAIN records
      /\ \A k \in DOMAIN records : records'[k].order = records[k].order
  BY <1>1, DeliveredFacts
<1>3. Timely' /\ MarketKnown' /\ BooksTyped'
  BY <1>1 DEF CoreInv, Timely, MarketKnown, BooksTyped
<1>4. PhaseShape' /\ FillsSound'
  BY <1>1 DEF CoreInv, PhaseShape, FillsSound
<1>5. PendingSound'
  BY <1>1, <1>2 DEF CoreInv, PendingSound, OrderOf
<1> QED
  BY <1>2, <1>3, <1>4, <1>5 DEF CoreInv

(***************************************************************************)
(* With every fill booked, the strategy gets its turn.                     *)
(***************************************************************************)
LEMMA StepDispatchDone == CoreInv /\ DispatchDone => CoreInv'
<1> SUFFICES ASSUME CoreInv, DispatchDone PROVE CoreInv'
  OBVIOUS
<1>1. /\ UNCHANGED <<records, next, clock, exch, active, market, marks, pending, todo, budget, fills>>
      /\ UNCHANGED <<position, cash, splitShares, dividendCash>>
      /\ phase = "dispatching" /\ phase' = "strategy" /\ DOMAIN fills = {}
  BY DEF DispatchDone, omsVars, marketVars, venueVars, bookVars
<1>2. BookTypeOK' /\ CounterAheadOfBook' /\ BookedSound'
  BY <1>1 DEF CoreInv, BookTypeOK, CounterAheadOfBook, BookedSound, OrderOf
<1>3. Timely' /\ MarketKnown' /\ BooksTyped'
  BY <1>1 DEF CoreInv, Timely, MarketKnown, BooksTyped
<1>4. PhaseShape' /\ FillsSound'
  BY <1>1 DEF CoreInv, PhaseShape, FillsSound, OrderOf
<1>5. PendingSound'
  BY <1>1 DEF CoreInv, PendingSound, OrderOf, Undelivered
<1> QED
  BY <1>2, <1>3, <1>4, <1>5 DEF CoreInv

-----------------------------------------------------------------------------
(* The strategy's turn.                                                    *)

\* The record a submission leaves, in whichever state it leaves it.
SentAs(id, o, state) == [Submitted(records, id, o) EXCEPT ![id].state = state]

(***************************************************************************)
(* A submission adds one record without fills, rejected or working, and    *)
(* leaves the others as they are.                                          *)
(***************************************************************************)
LEMMA SentBook ==
  ASSUME BookTypeOK, NEW id \in Ids, id \notin DOMAIN records, NEW o \in Order,
         NEW state \in {"rejected", "working"}, records' = SentAs(id, o, state)
  PROVE  /\ DOMAIN records' = DOMAIN records \cup {id}
         /\ records' \in [DOMAIN records \cup {id} -> OrderRecord]
         /\ records'[id].order = o /\ records'[id].state = state
         /\ records'[id].filled = 0 /\ records'[id].notional = 0 /\ records'[id].cost = 0
         /\ \A k \in DOMAIN records : records'[k] = records[k]
<1> DEFINE base == Submitted(records, id, o)
           new == [NewRecord(o) EXCEPT !.state = state]
<1>1. /\ DOMAIN base = DOMAIN records \cup {id}
      /\ base \in [DOMAIN records \cup {id} -> OrderRecord]
  BY SubmittedTyped DEF BookTypeOK
<1>2. base[id] = NewRecord(o) /\ \A k \in DOMAIN records : base[k] = records[k]
  BY DEF Submitted
<1>3. /\ new \in OrderRecord /\ new.order = o /\ new.state = state
      /\ new.filled = 0 /\ new.notional = 0 /\ new.cost = 0
  BY DEF NewRecord, OrderRecord, OrderStates
<1>4. records' = [base EXCEPT ![id].state = state]
  BY DEF SentAs
<1> HIDE DEF base, new
<1>5. records' = [base EXCEPT ![id] = new]
  BY <1>1, <1>2, <1>4 DEF new
<1> QED
  BY <1>1, <1>2, <1>3, <1>5

\* The orders the strategy of the model can send.
StrategyOrder(inst, side, q, t, skew) ==
  [inst |-> inst, side |-> side, qty |-> q, parent |-> NoOrder,
   decision |-> clock + skew, terms |-> t]

(***************************************************************************)
(* A submission is refused by the risk gate, refused by the venue, or      *)
(* reaches the venue with an arrival after its decision.                   *)
(***************************************************************************)
LEMMA StepStrategySubmit ==
  ASSUME CoreInv, NEW inst \in Instruments, NEW side \in Sides, NEW q \in Quantities,
         NEW t \in Terms, NEW skew \in DecisionSkews,
         StrategySubmit(StrategyOrder(inst, side, q, t, skew))
  PROVE  CoreInv'
<1> DEFINE o == StrategyOrder(inst, side, q, t, skew)
           id == next
<1>1. /\ phase = "strategy" /\ next <= MaxId /\ next' = next + 1
      /\ UNCHANGED <<engineVars, marketVars, todo, budget, fills, bookVars>>
  BY DEF StrategySubmit
<1>2. UNCHANGED <<clock, exch, phase, active, market, marks, todo, budget, fills, position, cash, splitShares, dividendCash>>
  BY <1>1 DEF engineVars, marketVars, bookVars
<1>3. o.decision = clock + skew /\ o.qty = q /\ o.terms = t /\ o \in Order
  <2>1. PICK delay \in FeedDelays : clock = exch + delay
    BY <1>1 DEF CoreInv, Timely
  <2>2. clock + skew \in DecisionTimes
    BY <2>1, DecisionTimesCovered DEF CoreInv, Timely
  <2> QED
    BY <2>2 DEF StrategyOrder, Order
<1>4. id \in Ids /\ id \notin DOMAIN records /\ id \notin DOMAIN pending
  <2>1. next \in 1..(MaxId + 1) /\ \A k \in DOMAIN records : k < next
    BY DEF CoreInv, BookTypeOK, CounterAheadOfBook
  <2>2. DOMAIN pending \subseteq DOMAIN records /\ DOMAIN records \subseteq Ids
    BY DEF CoreInv, PendingSound, BookTypeOK
  <2> QED
    BY <1>1, <2>1, <2>2, IdBound DEF Ids
<1>5. /\ q \in Nat \ {0} /\ clock \in Nat /\ o.decision \in Nat
  BY <1>3, PositiveQuantities, TimesAreNaturals DEF CoreInv, Timely, Order
<1>6. \/ UNCHANGED <<records, pending>>
      \/ records' = SentAs(id, o, "rejected") /\ UNCHANGED pending
      \/ /\ records' = SentAs(id, o, "working") /\ o.decision <= clock
         /\ \E l \in Latencies :
              pending' = With(pending, id, [arrival |-> clock + (IF l > 0 THEN l ELSE 1),
                                            filled |-> 0, triggered |-> FALSE])
  BY DEF StrategySubmit, SentAs
<1> HIDE DEF o
<1>7. Timely' /\ MarketKnown' /\ BooksTyped' /\ PhaseShape'
  BY <1>2 DEF CoreInv, Timely, MarketKnown, BooksTyped, PhaseShape
<1>8. todo = {} /\ DOMAIN fills = {}
  BY <1>1 DEF CoreInv, PhaseShape
<1>9. FillsSound'
  BY <1>2, <1>8 DEF FillsSound
<1>10. next' \in 1..(MaxId + 1)
  BY <1>1, IdBound DEF CoreInv, BookTypeOK
<1>11. CASE UNCHANGED <<records, pending>>
  <2>1. BookTypeOK' /\ BookedSound'
    BY <1>10, <1>11 DEF CoreInv, BookTypeOK, BookedSound, OrderOf
  <2>2. CounterAheadOfBook'
    BY <1>1, <1>11 DEF CoreInv, CounterAheadOfBook, BookTypeOK, Ids
  <2>3. PendingSound'
    BY <1>2, <1>11 DEF CoreInv, PendingSound, OrderOf, Undelivered
  <2> QED
    BY <1>7, <1>9, <2>1, <2>2, <2>3 DEF CoreInv
<1>12. ASSUME NEW state \in {"rejected", "working"}, records' = SentAs(id, o, state)
       PROVE  /\ BookTypeOK' /\ CounterAheadOfBook' /\ BookedSound'
              /\ DOMAIN records' = DOMAIN records \cup {id}
              /\ records'[id].order = o /\ records'[id].state = state /\ records'[id].filled = 0
              /\ \A k \in DOMAIN records : records'[k] = records[k]
  <2>1. BookTypeOK
    BY DEF CoreInv
  <2>2. /\ DOMAIN records' = DOMAIN records \cup {id}
        /\ records' \in [DOMAIN records \cup {id} -> OrderRecord]
        /\ records'[id].order = o /\ records'[id].state = state /\ records'[id].filled = 0
        /\ \A k \in DOMAIN records : records'[k] = records[k]
    <3> HIDE DEF id
    <3> QED
      BY <1>3, <1>4, <1>12, <2>1, SentBook
  <2>3. BookTypeOK'
    BY <1>4, <1>10, <2>2 DEF CoreInv, BookTypeOK
  <2>4. CounterAheadOfBook'
    BY <1>1, <1>4, <2>2 DEF CoreInv, BookTypeOK, CounterAheadOfBook, Ids
  <2>5. BookedSound'
    BY <1>3, <1>4, <1>5, <2>2 DEF CoreInv, BookedSound, OrderOf
  <2> QED
    BY <1>4, <2>2, <2>3, <2>4, <2>5
<1>13. CASE records' = SentAs(id, o, "rejected") /\ UNCHANGED pending
  <2>1. /\ BookTypeOK' /\ CounterAheadOfBook' /\ BookedSound'
        /\ DOMAIN records' = DOMAIN records \cup {id}
        /\ \A k \in DOMAIN records : records'[k] = records[k]
    BY <1>12, <1>13
  <2>2. PendingSound'
    BY <1>2, <1>13, <2>1 DEF CoreInv, PendingSound, OrderOf, Undelivered
  <2> QED
    BY <1>7, <1>9, <2>1, <2>2 DEF CoreInv
<1>14. CASE /\ records' = SentAs(id, o, "working") /\ o.decision <= clock
            /\ \E l \in Latencies :
                 pending' = With(pending, id, [arrival |-> clock + (IF l > 0 THEN l ELSE 1),
                                               filled |-> 0, triggered |-> FALSE])
  <2>1. /\ BookTypeOK' /\ CounterAheadOfBook' /\ BookedSound'
        /\ DOMAIN records' = DOMAIN records \cup {id}
        /\ records'[id].order = o /\ records'[id].state = "working" /\ records'[id].filled = 0
        /\ \A k \in DOMAIN records : records'[k] = records[k]
    BY <1>12, <1>14
  <2>2. PICK l \in Latencies :
          pending' = With(pending, id, [arrival |-> clock + (IF l > 0 THEN l ELSE 1),
                                        filled |-> 0, triggered |-> FALSE])
    BY <1>14
  <2>3. l \in Int
    BY FeedIsNatural
  <2>4. clock + (IF l > 0 THEN l ELSE 1) \in Int /\ clock + (IF l > 0 THEN l ELSE 1) > o.decision
    BY <1>5, <1>14, <2>3
  <2>5. /\ DOMAIN pending' = DOMAIN pending \cup {id}
        /\ pending'[id] = [arrival |-> clock + (IF l > 0 THEN l ELSE 1),
                           filled |-> 0, triggered |-> FALSE]
        /\ \A k \in DOMAIN pending : pending'[k] = pending[k]
    BY <1>4, <2>2 DEF With
  <2>6. /\ pending'[id].arrival > o.decision /\ pending'[id].filled = 0
        /\ pending' \in [DOMAIN pending' -> [arrival: Int, filled: Nat, triggered: BOOLEAN]]
    <3>1. pending'[id] \in [arrival: Int, filled: Nat, triggered: BOOLEAN]
      BY <2>4, <2>5
    <3>2. \A k \in DOMAIN pending' : pending'[k] \in [arrival: Int, filled: Nat, triggered: BOOLEAN]
      BY <2>5, <3>1 DEF CoreInv, PendingSound
    <3>3. pending' = [k \in DOMAIN pending' |-> pending'[k]]
      BY <2>2, <2>5 DEF With
    <3> QED
      BY <2>4, <2>5, <3>2, <3>3
  <2>7. PendingSound'
    <3>1. todo' \subseteq DOMAIN pending' /\ DOMAIN pending' \subseteq DOMAIN records'
      BY <1>2, <1>8, <2>1, <2>5 DEF CoreInv, PendingSound
    <3>2. /\ pending'[id].arrival > records'[id].order.decision
          /\ pending'[id].filled < records'[id].order.qty
          /\ records'[id].state \in Workable
          /\ pending'[id].filled = records'[id].filled
      BY <1>3, <1>5, <2>1, <2>6 DEF Workable
    <3>3. ASSUME NEW k \in DOMAIN pending
          PROVE  /\ pending'[k].arrival > records'[k].order.decision
                 /\ pending'[k].filled < records'[k].order.qty
                 /\ records'[k].order.terms.tif \in {"ioc", "fok"} => pending'[k].filled = 0
                 /\ records'[k].state \in Workable
                 /\ pending'[k].filled = records'[k].filled
      <4>1. /\ k \in DOMAIN records /\ pending[k].arrival > records[k].order.decision
            /\ pending[k].filled < records[k].order.qty
            /\ records[k].order.terms.tif \in {"ioc", "fok"} => pending[k].filled = 0
            /\ records[k].state \in Workable
            /\ pending[k].filled = records[k].filled + 0
        BY <1>1, <1>8 DEF CoreInv, PendingSound, OrderOf, Undelivered
      <4>2. records[k].filled \in Nat
        BY <4>1 DEF CoreInv, BookTypeOK, OrderRecord
      <4> QED
        BY <2>1, <2>5, <4>1, <4>2
    <3>4. \A k \in DOMAIN pending' : Undelivered(k)' = 0 /\ records'[k].filled \in Nat
      BY <1>2, <1>8, <2>1, <3>1 DEF Undelivered, BookTypeOK, OrderRecord
    <3> QED
      BY <2>5, <2>6, <3>1, <3>2, <3>3, <3>4 DEF PendingSound, OrderOf
  <2> QED
    BY <1>7, <1>9, <2>1, <2>7 DEF CoreInv
<1> QED
  BY <1>6, <1>11, <1>13, <1>14

(***************************************************************************)
(* A cancellation takes the order from the venue and closes it in the OMS  *)
(* in one call.                                                            *)
(***************************************************************************)
LEMMA StepStrategyCancel == \A id \in DOMAIN pending : CoreInv /\ StrategyCancel(id) => CoreInv'
<1> SUFFICES ASSUME NEW id \in DOMAIN pending, CoreInv, StrategyCancel(id) PROVE CoreInv'
  OBVIOUS
<1>1. /\ phase = "strategy" /\ next' = next
      /\ pending' = Without(pending, id) /\ records' = Transitioned(records, id, "cancelled")
      /\ UNCHANGED <<clock, exch, phase, active, market, marks, todo, budget, fills>>
      /\ UNCHANGED <<position, cash, splitShares, dividendCash>>
  BY DEF StrategyCancel, engineVars, marketVars, bookVars
<1>2. todo = {} /\ DOMAIN fills = {}
  BY <1>1 DEF CoreInv, PhaseShape
<1>3. Transitionable(records, id, "cancelled")
  BY <1>1 DEF CoreInv, PendingSound, Transitionable, LegalTransition, Successors, Workable,
              TerminalStates
<1>4. /\ DOMAIN records' = DOMAIN records
      /\ records' \in [DOMAIN records -> OrderRecord]
  BY <1>1, <1>3, TransitionedTyped DEF CoreInv, BookTypeOK
<1>5. /\ \A k \in DOMAIN records : /\ records'[k].order = records[k].order
                                 /\ records'[k].filled = records[k].filled
      /\ \A k \in DOMAIN records \ {id} : records'[k] = records[k]
  BY <1>1 DEF Transitioned, CoreInv, BookTypeOK, OrderRecord
<1>6. BookTypeOK' /\ CounterAheadOfBook' /\ BookedSound'
  BY <1>1, <1>4, <1>5 DEF CoreInv, BookTypeOK, CounterAheadOfBook, BookedSound, OrderOf
<1>7. Timely' /\ MarketKnown' /\ BooksTyped' /\ PhaseShape'
  BY <1>1 DEF CoreInv, Timely, MarketKnown, BooksTyped, PhaseShape
<1>8. FillsSound'
  BY <1>1, <1>2 DEF FillsSound
<1>9. /\ DOMAIN pending' = DOMAIN pending \ {id}
      /\ \A k \in DOMAIN pending' : pending'[k] = pending[k]
      /\ pending' \in [DOMAIN pending' -> [arrival: Int, filled: Nat, triggered: BOOLEAN]]
  BY <1>1 DEF Without, CoreInv, PendingSound
<1>10. PendingSound'
  BY <1>1, <1>2, <1>4, <1>5, <1>9 DEF CoreInv, PendingSound, OrderOf, Undelivered
<1> QED
  BY <1>6, <1>7, <1>8, <1>10 DEF CoreInv

(***************************************************************************)
(* The strategy returns, and the engine waits for the next event.          *)
(***************************************************************************)
LEMMA StepStrategyReturns == CoreInv /\ StrategyReturns => CoreInv'
<1> SUFFICES ASSUME CoreInv, StrategyReturns PROVE CoreInv'
  OBVIOUS
<1>1. /\ UNCHANGED <<records, next, clock, exch, active, market, marks, pending, todo, budget, fills>>
      /\ UNCHANGED <<position, cash, splitShares, dividendCash>>
      /\ phase = "strategy" /\ phase' = "idle"
  BY DEF StrategyReturns, omsVars, marketVars, venueVars, bookVars
<1>2. BookTypeOK' /\ CounterAheadOfBook' /\ BookedSound'
  BY <1>1 DEF CoreInv, BookTypeOK, CounterAheadOfBook, BookedSound, OrderOf
<1>3. Timely' /\ MarketKnown' /\ BooksTyped'
  BY <1>1 DEF CoreInv, Timely, MarketKnown, BooksTyped
<1>4. PhaseShape' /\ FillsSound'
  BY <1>1 DEF CoreInv, PhaseShape, FillsSound, OrderOf
<1>5. PendingSound'
  BY <1>1 DEF CoreInv, PendingSound, OrderOf, Undelivered
<1> QED
  BY <1>2, <1>3, <1>4, <1>5 DEF CoreInv

(***************************************************************************)
(* A step that changes nothing keeps the invariant.                        *)
(***************************************************************************)
LEMMA StutterCoreInv == CoreInv /\ UNCHANGED coreVars => CoreInv'
<1> SUFFICES ASSUME CoreInv, UNCHANGED coreVars PROVE CoreInv'
  OBVIOUS
<1>1. /\ UNCHANGED <<records, next, clock, exch, phase, active, market, marks, pending, todo, budget, fills>>
      /\ UNCHANGED <<position, cash, splitShares, dividendCash>>
  BY DEF coreVars, engineVars, omsVars, marketVars, venueVars, bookVars
<1>2. BookTypeOK' /\ CounterAheadOfBook' /\ BookedSound'
  BY <1>1 DEF CoreInv, BookTypeOK, CounterAheadOfBook, BookedSound, OrderOf
<1>3. Timely' /\ MarketKnown' /\ BooksTyped'
  BY <1>1 DEF CoreInv, Timely, MarketKnown, BooksTyped
<1>4. PhaseShape' /\ FillsSound'
  BY <1>1 DEF CoreInv, PhaseShape, FillsSound, OrderOf
<1>5. PendingSound'
  BY <1>1 DEF CoreInv, PendingSound, OrderOf, Undelivered
<1> QED
  BY <1>2, <1>3, <1>4, <1>5 DEF CoreInv

(***************************************************************************)
(* CoreInv is inductive.                                                   *)
(***************************************************************************)
LEMMA StepCoreInv == CoreInv /\ [CoreNext]_coreVars => CoreInv'
<1> SUFFICES ASSUME CoreInv, [CoreNext]_coreVars PROVE CoreInv'
  OBVIOUS
<1>1. ASSUME Bar \/ Quote PROVE CoreInv'
  BY <1>1, StepBar, StepQuote
<1>2. ASSUME TradeOrClose \/ SessionOpen \/ Split \/ Dividend PROVE CoreInv'
  BY <1>2, StepQuietEvent
<1>3. ASSUME NEW id \in todo, Skip(id) \/ Kill(id) \/ Execute(id) PROVE CoreInv'
  BY <1>3, StepSkip, StepKill, StepExecute
<1>4. ASSUME MatchingDone PROVE CoreInv'
  BY <1>4, StepMatchingDone
<1>5. ASSUME NEW id \in DOMAIN fills, DispatchFill(id) \/ DispatchRefused(id) PROVE CoreInv'
  BY <1>5, StepDispatchFill, StepDispatchRefused
<1>6. ASSUME DispatchDone PROVE CoreInv'
  BY <1>6, StepDispatchDone
<1>7. ASSUME NEW inst \in Instruments, NEW side \in Sides, NEW q \in Quantities,
             NEW t \in Terms, NEW skew \in DecisionSkews,
             StrategySubmit(StrategyOrder(inst, side, q, t, skew))
      PROVE  CoreInv'
  BY <1>7, StepStrategySubmit
<1>8. ASSUME NEW id \in DOMAIN pending, StrategyCancel(id) PROVE CoreInv'
  BY <1>8, StepStrategyCancel
<1>9. ASSUME StrategyReturns PROVE CoreInv'
  BY <1>9, StepStrategyReturns
<1>10. ASSUME UNCHANGED coreVars PROVE CoreInv'
  BY <1>10, StutterCoreInv
<1> QED
  BY <1>1, <1>2, <1>3, <1>4, <1>5, <1>6, <1>7, <1>8, <1>9, <1>10 DEF CoreNext, StrategyOrder

(***************************************************************************)
(* CoreInv, for every value of the constants: whatever the interleaving of *)
(* market events, fills, submissions and cancellations, the venue never    *)
(* counts a fill the OMS does not hear of, and works no order the OMS has  *)
(* closed.                                                                 *)
(***************************************************************************)
THEOREM CoreInvariant == CoreSpec => []CoreInv
BY InitCoreInv, StepCoreInv, PTL DEF CoreSpec

(***************************************************************************)
(* VenueMatchesBook, for every value of the constants: between on_market   *)
(* and dispatch_fills the venue and the OMS agree about every order, and   *)
(* apply_fill never refuses what the venue filled.                         *)
(***************************************************************************)
THEOREM VenueAndBookAgree == CoreSpec => []VenueMatchesBook
<1>1. CoreInv => CoreTypeOK
  <2> SUFFICES ASSUME CoreInv PROVE CoreTypeOK
    OBVIOUS
  <2>1. ASSUME NEW id \in DOMAIN fills
        PROVE  fills[id] \in [id: {id}, inst: Instruments, side: Sides, qty: Nat,
                              time: 0..MaxTime, price: Nat, cost: Costs]
    <3>1. /\ fills[id] \in [id: {id}, inst: {OrderOf(id).inst}, side: {OrderOf(id).side},
                            qty: Nat \ {0}, time: 0..MaxTime, price: Nat, cost: Costs]
          /\ id \in DOMAIN records
      BY DEF CoreInv, FillsSound
    <3>2. OrderOf(id) \in Order
      BY <3>1 DEF CoreInv, BookTypeOK, OrderRecord, OrderOf
    <3> QED
      BY <3>1, <3>2 DEF Order
  <2> QED
    BY <2>1 DEF CoreInv, CoreTypeOK, PhaseShape, Timely, PendingSound, MarketKnown, BooksTyped
<1>2. CoreInv => VenueAgrees
  <2> SUFFICES ASSUME CoreInv, phase # "failed", NEW id \in DOMAIN pending
               PROVE  /\ id \in Live(records)
                      /\ pending[id].filled = records[id].filled + Undelivered(id)
                      /\ pending[id].filled < OrderOf(id).qty
    BY DEF VenueAgrees
  <2> QED
    BY DEF CoreInv, PendingSound, Live, Workable, TerminalStates
<1>3. CoreInv => FillsAcceptable
  BY FillAccepted DEF FillsAcceptable, OmsAccepts
<1> QED
  BY <1>1, <1>2, <1>3, CoreInvariant, PTL DEF VenueMatchesBook

(***************************************************************************)
(* TimeInForceHonoured, for every value of the constants.                  *)
(***************************************************************************)
THEOREM TimeInForceKept == CoreSpec => []TimeInForceHonoured
<1>1. CoreInv => TimeInForceHonoured
  BY DEF CoreInv, TimeInForceHonoured, BookedSound, PendingSound
<1> QED
  BY <1>1, CoreInvariant, PTL

-----------------------------------------------------------------------------
(* The portfolio is explained by the order book.                           *)

\* What one record has cost: notional with the sign of its side, and costs.
CashTerms(book) == [id \in DOMAIN book |->
                      SignOf(book[id].order.side) * book[id].notional + book[id].cost]

Spent(book) == SumFunction(CashTerms(book))

(***************************************************************************)
(* The terms of the total are integers, and so is the total.               *)
(***************************************************************************)
LEMMA SpentTyped ==
  ASSUME NEW book, DOMAIN book \subseteq Ids, book \in [DOMAIN book -> OrderRecord]
  PROVE  /\ IsFiniteSet(DOMAIN book) /\ DOMAIN CashTerms(book) = DOMAIN book
         /\ \A id \in DOMAIN book : CashTerms(book)[id] \in Int
         /\ Spent(book) \in Int
<1>1. IsFiniteSet(DOMAIN book) /\ DOMAIN CashTerms(book) = DOMAIN book
  BY IdBound, FS_Interval, FS_Subset DEF Ids, CashTerms
<1>2. ASSUME NEW id \in DOMAIN book PROVE CashTerms(book)[id] \in Int
  <2>1. SignOf(book[id].order.side) \in {1, -1} /\ book[id].notional \in Nat /\ book[id].cost \in Nat
    BY DEF SignOf, OrderRecord
  <2>2. SignOf(book[id].order.side) * book[id].notional \in Int
    BY <2>1
  <2> QED
    BY <2>1, <2>2 DEF CashTerms
<1>3. \A id \in DOMAIN book : CashTerms(book)[id] \in Int
  BY <1>2
<1> QED
  BY <1>1, <1>3, SumOfInts DEF Spent

(***************************************************************************)
(* When one record changes, the total moves by the change of its term.     *)
(***************************************************************************)
LEMMA SpentAfterChange ==
  ASSUME NEW book, DOMAIN book \subseteq Ids, book \in [DOMAIN book -> OrderRecord],
         NEW after \in [DOMAIN book -> OrderRecord], NEW id \in DOMAIN book,
         \A k \in DOMAIN book \ {id} : after[k] = book[k]
  PROVE  Spent(after) = Spent(book) - CashTerms(book)[id] + CashTerms(after)[id]
<1>1. DOMAIN after = DOMAIN book
  OBVIOUS
<1>2. \A k \in DOMAIN book \ {id} : CashTerms(after)[k] = CashTerms(book)[k]
  BY <1>1 DEF CashTerms
<1>3. /\ DOMAIN CashTerms(book) = DOMAIN book /\ DOMAIN CashTerms(after) = DOMAIN book
      /\ IsFiniteSet(DOMAIN book)
      /\ \A k \in DOMAIN book : CashTerms(book)[k] \in Int /\ CashTerms(after)[k] \in Int
  BY <1>1, SpentTyped
<1> QED
  BY <1>2, <1>3, SumAfterChange DEF Spent

(***************************************************************************)
(* A new record adds its own term to the total.                            *)
(***************************************************************************)
LEMMA SpentAfterAdding ==
  ASSUME NEW book, DOMAIN book \subseteq Ids, book \in [DOMAIN book -> OrderRecord],
         NEW id \in Ids, id \notin DOMAIN book,
         NEW after \in [DOMAIN book \cup {id} -> OrderRecord],
         \A k \in DOMAIN book : after[k] = book[k]
  PROVE  Spent(after) = Spent(book) + CashTerms(after)[id]
<1>1. DOMAIN after = DOMAIN book \cup {id} /\ DOMAIN after \subseteq Ids
  OBVIOUS
<1>2. \A k \in DOMAIN book : CashTerms(after)[k] = CashTerms(book)[k]
  BY <1>1 DEF CashTerms
<1>3. /\ DOMAIN CashTerms(book) = DOMAIN book /\ DOMAIN CashTerms(after) = DOMAIN book \cup {id}
      /\ IsFiniteSet(DOMAIN book)
      /\ \A k \in DOMAIN book : CashTerms(book)[k] \in Int
      /\ CashTerms(after)[id] \in Int
  BY <1>1, SpentTyped
<1> QED
  BY <1>2, <1>3, SumAfterAdding DEF Spent

(***************************************************************************)
(* What a submission does to the book, in one statement: nothing, or a new *)
(* unfilled record, live only if the risk gate let it through.             *)
(***************************************************************************)
LEMMA SubmitFacts ==
  ASSUME CoreInv, NEW inst \in Instruments, NEW side \in Sides, NEW q \in Quantities,
         NEW t \in Terms, NEW skew \in DecisionSkews,
         StrategySubmit(StrategyOrder(inst, side, q, t, skew))
  PROVE  LET o == StrategyOrder(inst, side, q, t, skew)
         IN  /\ o.inst = inst /\ o.side = side /\ o.qty = q
             /\ UNCHANGED <<market, marks, phase, position, cash, splitShares, dividendCash>>
             /\ \/ records' = records
                \/ /\ next \in Ids /\ next \notin DOMAIN records
                   /\ records' \in [DOMAIN records \cup {next} -> OrderRecord]
                   /\ \A k \in DOMAIN records : records'[k] = records[k]
                   /\ records'[next].order = o /\ records'[next].filled = 0
                   /\ records'[next].notional = 0 /\ records'[next].cost = 0
                   /\ \/ records'[next].state = "rejected"
                      \/ /\ records'[next].state = "working"
                         /\ RiskApproves(o, RiskContext(inst))
<1> DEFINE o == StrategyOrder(inst, side, q, t, skew)
<1>1. /\ UNCHANGED <<market, marks, phase, position, cash, splitShares, dividendCash>>
      /\ phase = "strategy" /\ next <= MaxId
  BY DEF StrategySubmit, engineVars, marketVars, bookVars
<1>2. o.inst = inst /\ o.side = side /\ o.qty = q /\ o \in Order
  <2>1. PICK delay \in FeedDelays : clock = exch + delay
    BY <1>1 DEF CoreInv, Timely
  <2>2. clock + skew \in DecisionTimes
    BY <2>1, DecisionTimesCovered DEF CoreInv, Timely
  <2> QED
    BY <2>2 DEF StrategyOrder, Order
<1>3. next \in Ids /\ next \notin DOMAIN records
  BY <1>1, IdBound DEF CoreInv, BookTypeOK, CounterAheadOfBook, Ids
<1>4. \/ records' = records
      \/ records' = SentAs(next, o, "rejected")
      \/ /\ records' = SentAs(next, o, "working")
         /\ RiskApproves(o, RiskContext(o.inst))
  BY DEF StrategySubmit, SentAs
<1> HIDE DEF o
<1>5. ASSUME NEW state \in {"rejected", "working"}, records' = SentAs(next, o, state)
      PROVE  /\ records' \in [DOMAIN records \cup {next} -> OrderRecord]
             /\ \A k \in DOMAIN records : records'[k] = records[k]
             /\ records'[next].order = o /\ records'[next].filled = 0
             /\ records'[next].notional = 0 /\ records'[next].cost = 0
             /\ records'[next].state = state
  <2> DEFINE id == next
  <2>1. /\ id \in Ids /\ id \notin DOMAIN records /\ o \in Order
        /\ records' = SentAs(id, o, state) /\ BookTypeOK
    BY <1>2, <1>3, <1>5 DEF CoreInv
  <2> HIDE DEF id
  <2>2. /\ records' \in [DOMAIN records \cup {id} -> OrderRecord]
        /\ records'[id].order = o /\ records'[id].state = state
        /\ records'[id].filled = 0 /\ records'[id].notional = 0 /\ records'[id].cost = 0
        /\ \A k \in DOMAIN records : records'[k] = records[k]
    BY <2>1, SentBook
  <2> QED
    BY <2>2 DEF id
<1>6. CASE records' = SentAs(next, o, "rejected")
  BY <1>1, <1>2, <1>3, <1>5, <1>6 DEF o
<1>7. CASE records' = SentAs(next, o, "working") /\ RiskApproves(o, RiskContext(o.inst))
  BY <1>1, <1>2, <1>3, <1>5, <1>7 DEF o
<1> QED
  BY <1>1, <1>2, <1>4, <1>6, <1>7 DEF o

(***************************************************************************)
(* What a cancel does to the book: it ends one live record.                *)
(***************************************************************************)
LEMMA CancelFacts ==
  ASSUME CoreInv, NEW id \in DOMAIN pending, StrategyCancel(id)
  PROVE  /\ id \in DOMAIN records /\ records[id].state \notin TerminalStates
         /\ records' \in [DOMAIN records -> OrderRecord]
         /\ \A k \in DOMAIN records \ {id} : records'[k] = records[k]
         /\ records'[id].order = records[id].order /\ records'[id].filled = records[id].filled
         /\ records'[id].notional = records[id].notional /\ records'[id].cost = records[id].cost
         /\ records'[id].state = "cancelled"
         /\ UNCHANGED <<market, marks, phase, position, cash, splitShares, dividendCash>>
<1>1. /\ phase = "strategy" /\ records' = Transitioned(records, id, "cancelled")
      /\ UNCHANGED <<market, marks, phase, position, cash, splitShares, dividendCash>>
  BY DEF StrategyCancel, engineVars, marketVars, bookVars
<1>2. id \in DOMAIN records /\ records[id].state \in Workable
  BY <1>1 DEF CoreInv, PendingSound
<1>3. Transitionable(records, id, "cancelled")
  BY <1>2 DEF Transitionable, LegalTransition, Successors, Workable, TerminalStates
<1>4. records \in [DOMAIN records -> OrderRecord]
  BY DEF CoreInv, BookTypeOK
<1>5. records' \in [DOMAIN records -> OrderRecord]
  BY <1>1, <1>3, TransitionedTyped DEF CoreInv, BookTypeOK
<1> QED
  BY <1>1, <1>2, <1>4, <1>5 DEF Transitioned, OrderRecord, Workable, TerminalStates

\* PortfolioMatchesOrders, with the totals named.
Ledger ==
  phase # "failed" =>
    /\ \A i \in Instruments : position[i] = SignedFilled(records, i) + splitShares[i]
    /\ cash = InitialCash + dividendCash - Spent(records)

(***************************************************************************)
(* The totals named here are those of the property.                        *)
(***************************************************************************)
LEMMA LedgerIsPortfolio == Ledger <=> PortfolioMatchesOrders
<1>1. Spent(records) = SumFunction([id \in DOMAIN records |->
                         SignOf(OrderOf(id).side) * records[id].notional + records[id].cost])
  BY DEF Spent, CashTerms, OrderOf
<1> QED
  BY <1>1 DEF Ledger, PortfolioMatchesOrders, PositionExplained, CashExplained

(***************************************************************************)
(* A submission adds a record without fills, or changes nothing.           *)
(***************************************************************************)
LEMMA LedgerOnSubmit ==
  ASSUME CoreInv, Ledger, NEW inst \in Instruments, NEW side \in Sides, NEW q \in Quantities,
         NEW t \in Terms, NEW skew \in DecisionSkews,
         StrategySubmit(StrategyOrder(inst, side, q, t, skew))
  PROVE  Ledger'
<1>1. /\ UNCHANGED <<phase, position, cash, splitShares, dividendCash>>
      /\ \/ records' = records
         \/ /\ next \in Ids /\ next \notin DOMAIN records
            /\ records' \in [DOMAIN records \cup {next} -> OrderRecord]
            /\ \A k \in DOMAIN records : records'[k] = records[k]
            /\ records'[next].filled = 0
            /\ records'[next].notional = 0 /\ records'[next].cost = 0
  BY SubmitFacts
<1>2. CASE records' = records
  BY <1>1, <1>2 DEF Ledger
<1>3. CASE /\ next \in Ids /\ next \notin DOMAIN records
           /\ records' \in [DOMAIN records \cup {next} -> OrderRecord]
           /\ \A k \in DOMAIN records : records'[k] = records[k]
           /\ records'[next].filled = 0
           /\ records'[next].notional = 0 /\ records'[next].cost = 0
  <2>1. DOMAIN records \subseteq Ids /\ records \in [DOMAIN records -> OrderRecord]
    BY DEF CoreInv, BookTypeOK
  <2>2. SignOf(records'[next].order.side) \in {1, -1}
    BY DEF SignOf
  <2>3. ASSUME NEW i \in Instruments PROVE SignedFilled(records', i) = SignedFilled(records, i)
    <3>1. SignedFilled(records', i) = SignedFilled(records, i) + FilledTerms(records', i)[next]
      BY <1>3, <2>1, TotalsAfterAdding
    <3>2. FilledTerms(records', i)[next] = 0
      BY <1>3, <2>2 DEF FilledTerms
    <3>3. SignedFilled(records, i) \in Int
      BY <2>1, TotalsTyped
    <3> QED
      BY <3>1, <3>2, <3>3
  <2>4. Spent(records') = Spent(records)
    <3>1. Spent(records') = Spent(records) + CashTerms(records')[next]
      BY <1>3, <2>1, SpentAfterAdding
    <3>2. CashTerms(records')[next] = 0
      BY <1>3, <2>2 DEF CashTerms
    <3>3. Spent(records) \in Int
      BY <2>1, SpentTyped
    <3> QED
      BY <3>1, <3>2, <3>3
  <2> QED
    BY <1>1, <2>3, <2>4 DEF Ledger
<1> QED
  BY <1>1, <1>2, <1>3

(***************************************************************************)
(* A cancellation changes the state of a record, and neither its fills nor *)
(* what they cost.                                                         *)
(***************************************************************************)
LEMMA LedgerOnCancel ==
  ASSUME CoreInv, Ledger, NEW id \in DOMAIN pending, StrategyCancel(id)
  PROVE  Ledger'
<1>1. /\ id \in DOMAIN records /\ records' \in [DOMAIN records -> OrderRecord]
      /\ \A k \in DOMAIN records \ {id} : records'[k] = records[k]
      /\ records'[id].order = records[id].order /\ records'[id].filled = records[id].filled
      /\ records'[id].notional = records[id].notional /\ records'[id].cost = records[id].cost
      /\ UNCHANGED <<phase, position, cash, splitShares, dividendCash>>
  BY CancelFacts
<1>2. DOMAIN records \subseteq Ids /\ records \in [DOMAIN records -> OrderRecord]
  BY DEF CoreInv, BookTypeOK
<1>3. ASSUME NEW i \in Instruments PROVE SignedFilled(records', i) = SignedFilled(records, i)
  <2>1. SignedFilled(records', i) = SignedFilled(records, i)
          - FilledTerms(records, i)[id] + FilledTerms(records', i)[id]
    BY <1>1, <1>2, TotalsAfterChange
  <2>2. FilledTerms(records', i)[id] = FilledTerms(records, i)[id]
    BY <1>1 DEF FilledTerms
  <2>3. FilledTerms(records, i)[id] \in Int /\ SignedFilled(records, i) \in Int
    BY <1>1, <1>2, TotalsTyped
  <2> QED
    BY <2>1, <2>2, <2>3
<1>4. Spent(records') = Spent(records)
  <2>1. Spent(records') = Spent(records) - CashTerms(records)[id] + CashTerms(records')[id]
    BY <1>1, <1>2, SpentAfterChange
  <2>2. CashTerms(records')[id] = CashTerms(records)[id]
    BY <1>1 DEF CashTerms
  <2>3. CashTerms(records)[id] \in Int /\ Spent(records) \in Int
    BY <1>1, <1>2, SpentTyped
  <2> QED
    BY <2>1, <2>2, <2>3
<1> QED
  BY <1>1, <1>3, <1>4 DEF Ledger

(***************************************************************************)
(* A delivered fill moves both sides of the ledger by the same amounts.    *)
(***************************************************************************)
LEMMA LedgerOnFill ==
  ASSUME CoreInv, Ledger, NEW id \in DOMAIN fills, DispatchFill(id)
  PROVE  Ledger'
<1> DEFINE f == fills[id]
           sign == SignOf(f.side)
           value == f.price * f.qty
<1>1. /\ records' = FillBooked(records, f)
      /\ position' = [position EXCEPT ![f.inst] = @ + PositionDelta(f)]
      /\ cash' = cash + CashDelta(f)
      /\ UNCHANGED <<phase, splitShares, dividendCash>>
      /\ phase = "dispatching"
  BY DEF DispatchFill, OldestFill, engineVars
<1>2. /\ f.id = id /\ f.inst \in Instruments
      /\ f.qty \in Nat /\ f.price \in Nat /\ f.cost \in Nat
      /\ id \in DOMAIN records /\ FillMatches(records, f)
      /\ f.side = records[id].order.side
  BY FillAccepted DEF FillMatches
<1>3. DOMAIN records \subseteq Ids /\ records \in [DOMAIN records -> OrderRecord]
  BY DEF CoreInv, BookTypeOK
<1>4. sign \in {1, -1} /\ value \in Nat /\ PositionDelta(f) = sign * f.qty
      /\ CashDelta(f) = -(value * sign) - f.cost
      /\ PositionDelta(f) \in Int /\ CashDelta(f) \in Int
  BY FillAmountsInt DEF PositionDelta, CashDelta
<1>5. /\ position \in [Instruments -> Int] /\ splitShares \in [Instruments -> Int]
      /\ cash \in Int /\ dividendCash \in Int /\ InitialCash \in Int
  BY MoneyIsWhole DEF CoreInv, BooksTyped
<1> HIDE DEF f
<1>6. /\ records' \in [DOMAIN records -> OrderRecord]
      /\ records'[id].order = records[id].order
      /\ records'[id].notional = records[id].notional + value
      /\ records'[id].cost = records[id].cost + f.cost
      /\ \A k \in DOMAIN records \ {id} : records'[k] = records[k]
  BY <1>1, <1>2, <1>3, FillBookedFacts
<1> HIDE DEF sign, value
<1>7. ASSUME NEW i \in Instruments
      PROVE  position'[i] = SignedFilled(records', i) + splitShares'[i]
  <2>1. SignedFilled(records', i) =
          SignedFilled(records, i) + (IF f.inst = i THEN SignOf(f.side) * f.qty ELSE 0)
    BY <1>1, <1>2, <1>3, FillKeepsTotal
  <2>2. SignedFilled(records, i) \in Int
    BY <1>3, TotalsTyped
  <2>3. position[i] = SignedFilled(records, i) + splitShares[i]
    BY <1>1 DEF Ledger
  <2>4. CASE f.inst = i
    <3>1. position'[i] = position[i] + PositionDelta(f)
      BY <1>1, <1>2, <1>5, <2>4
    <3>2. SignedFilled(records', i) = SignedFilled(records, i) + PositionDelta(f)
      BY <1>4, <2>1, <2>4 DEF sign
    <3> QED
      BY <1>1, <1>4, <1>5, <2>2, <2>3, <3>1, <3>2
  <2>5. CASE f.inst # i
    BY <1>1, <1>2, <1>5, <2>1, <2>2, <2>3, <2>5
  <2> QED
    BY <2>4, <2>5
<1>8. Spent(records') = Spent(records) - CashDelta(f)
  <2>1. Spent(records') = Spent(records) - CashTerms(records)[id] + CashTerms(records')[id]
    BY <1>2, <1>3, <1>6, SpentAfterChange
  <2>2. /\ CashTerms(records)[id] = sign * records[id].notional + records[id].cost
        /\ CashTerms(records')[id] = sign * (records[id].notional + value) + (records[id].cost + f.cost)
    BY <1>2, <1>6 DEF CashTerms, sign
  <2>3. records[id].notional \in Nat /\ records[id].cost \in Nat
    BY <1>2, <1>3 DEF OrderRecord
  <2>4. Spent(records) \in Int
    BY <1>3, SpentTyped
  <2>5. CASE sign = 1
    BY <1>2, <1>4, <2>1, <2>2, <2>3, <2>4, <2>5
  <2>6. CASE sign = -1
    BY <1>2, <1>4, <2>1, <2>2, <2>3, <2>4, <2>6
  <2> QED
    BY <1>4, <2>5, <2>6
<1>9. cash' = InitialCash + dividendCash' - Spent(records')
  <2>1. cash = InitialCash + dividendCash - Spent(records) /\ Spent(records) \in Int
    BY <1>1, <1>3, SpentTyped DEF Ledger
  <2> QED
    BY <1>1, <1>4, <1>5, <1>8, <2>1
<1> QED
  BY <1>7, <1>9 DEF Ledger

(***************************************************************************)
(* A split scales the position; the history of split shares takes the      *)
(* difference.                                                             *)
(***************************************************************************)
LEMMA LedgerOnSplit == CoreInv /\ Ledger /\ Split => Ledger'
<1> SUFFICES ASSUME CoreInv, Ledger, Split PROVE Ledger'
  OBVIOUS
<1>1. PICK inst \in Instruments, r \in SplitRatios :
        /\ position' = [position EXCEPT ![inst] = @ * r]
        /\ splitShares' = [splitShares EXCEPT ![inst] = @ + position[inst] * (r - 1)]
  BY DEF Split
<1>2. UNCHANGED <<records, phase, cash, dividendCash>> /\ phase = "idle"
  BY DEF Split, omsVars, EventArrives
<1>3. /\ position \in [Instruments -> Int] /\ splitShares \in [Instruments -> Int] /\ r \in Int
  BY MoneyIsWhole DEF CoreInv, BooksTyped
<1>4. ASSUME NEW i \in Instruments
      PROVE  position'[i] = SignedFilled(records, i) + splitShares'[i]
  <2>1. position[i] = SignedFilled(records, i) + splitShares[i]
    BY <1>2 DEF Ledger
  <2>2. SignedFilled(records, i) \in Int
    BY TotalsTyped DEF CoreInv, BookTypeOK
  <2>3. CASE i # inst
    BY <1>1, <1>3, <2>1, <2>3
  <2>4. CASE i = inst
    <3>1. /\ position'[i] = position[i] * r
          /\ splitShares'[i] = splitShares[i] + position[i] * (r - 1)
      BY <1>1, <1>3, <2>4
    <3>2. position[i] * (r - 1) = position[i] * r - position[i]
      BY <1>3
    <3>3. position[i] * r \in Int /\ position[i] \in Int /\ splitShares[i] \in Int
      BY <1>3
    <3> QED
      BY <2>1, <2>2, <3>1, <3>2, <3>3
  <2> QED
    BY <2>3, <2>4
<1> QED
  BY <1>2, <1>4 DEF Ledger

(***************************************************************************)
(* A dividend adds the same amount to the cash and to the history of       *)
(* dividends.                                                              *)
(***************************************************************************)
LEMMA LedgerOnDividend == CoreInv /\ Ledger /\ Dividend => Ledger'
<1> SUFFICES ASSUME CoreInv, Ledger, Dividend PROVE Ledger'
  OBVIOUS
<1>1. PICK inst \in Instruments, amount \in Dividends :
        /\ cash' = cash + amount * position[inst]
        /\ dividendCash' = dividendCash + amount * position[inst]
  BY DEF Dividend
<1>2. UNCHANGED <<records, phase, position, splitShares>> /\ phase = "idle"
  BY DEF Dividend, omsVars, EventArrives
<1>3. amount * position[inst] \in Int /\ cash \in Int /\ dividendCash \in Int /\ InitialCash \in Int
  BY MoneyIsWhole DEF CoreInv, BooksTyped
<1>4. Spent(records) \in Int
  BY SpentTyped DEF CoreInv, BookTypeOK
<1>5. cash = InitialCash + dividendCash - Spent(records)
  BY <1>2 DEF Ledger
<1>6. cash' = InitialCash + dividendCash' - Spent(records)
  BY <1>1, <1>3, <1>4, <1>5
<1> QED
  BY <1>2, <1>6 DEF Ledger

\* Neither the records nor the portfolio change.
BooksStill == UNCHANGED <<records, position, cash, splitShares, dividendCash>>

(***************************************************************************)
(* Market events, the visits of on_market and the returns of the three     *)
(* loops leave both books alone, and none of them leaves the failed        *)
(* engine.                                                                 *)
(***************************************************************************)
LEMMA StillSteps ==
  ASSUME Bar \/ Quote \/ TradeOrClose \/ SessionOpen
         \/ (\E id \in todo : Skip(id) \/ Kill(id) \/ Execute(id))
         \/ MatchingDone \/ DispatchDone \/ StrategyReturns \/ UNCHANGED coreVars
  PROVE  BooksStill /\ (phase = "failed" => phase' = "failed")
<1>1. ASSUME Bar \/ Quote \/ TradeOrClose \/ SessionOpen
      PROVE  BooksStill /\ phase = "idle"
  BY <1>1 DEF Bar, Quote, TradeOrClose, SessionOpen, BooksStill, EventArrives, omsVars, bookVars
<1>2. ASSUME NEW id \in todo, Skip(id) \/ Kill(id) \/ Execute(id)
      PROVE  BooksStill /\ phase = "matching"
  BY <1>2 DEF Skip, Kill, Execute, Visit, BooksStill, omsVars, bookVars
<1>3. ASSUME MatchingDone \/ DispatchDone \/ StrategyReturns
      PROVE  BooksStill /\ phase # "failed"
  BY <1>3 DEF MatchingDone, DispatchDone, StrategyReturns, BooksStill, omsVars, bookVars
<1>4. ASSUME UNCHANGED coreVars PROVE BooksStill /\ phase' = phase
  BY <1>4 DEF coreVars, engineVars, omsVars, bookVars, BooksStill
<1> QED
  BY <1>1, <1>2, <1>3, <1>4

(***************************************************************************)
(* Every step of the engine keeps the portfolio explained.                 *)
(***************************************************************************)
LEMMA StepLedger == CoreInv /\ Ledger /\ [CoreNext]_coreVars => Ledger'
<1> SUFFICES ASSUME CoreInv, Ledger, [CoreNext]_coreVars PROVE Ledger'
  OBVIOUS
<1>1. ASSUME BooksStill, phase = "failed" => phase' = "failed" PROVE Ledger'
  BY <1>1 DEF BooksStill, Ledger
<1>2. ASSUME NEW id \in DOMAIN fills, DispatchRefused(id) PROVE Ledger'
  BY <1>2 DEF DispatchRefused, Ledger
<1>3. ASSUME NEW inst \in Instruments, NEW side \in Sides, NEW q \in Quantities,
             NEW t \in Terms, NEW skew \in DecisionSkews,
             StrategySubmit(StrategyOrder(inst, side, q, t, skew))
      PROVE  Ledger'
  BY <1>3, LedgerOnSubmit
<1> QED
  BY <1>1, <1>2, <1>3, StillSteps, LedgerOnFill, LedgerOnCancel, LedgerOnSplit, LedgerOnDividend
     DEF CoreNext, StrategyOrder

(***************************************************************************)
(* PortfolioMatchesOrders, for every value of the constants: over any      *)
(* interleaving of fills, splits and dividends, position and cash are      *)
(* what the order book and the corporate actions say, to the unit.         *)
(***************************************************************************)
THEOREM PortfolioIsExplained == CoreSpec => []PortfolioMatchesOrders
<1>1. CoreInit => Ledger
  <2> SUFFICES ASSUME CoreInit PROVE Ledger
    OBVIOUS
  <2>1. /\ DOMAIN records = {} /\ cash = InitialCash /\ dividendCash = 0
        /\ \A i \in Instruments : position[i] = 0 /\ splitShares[i] = 0
    BY DEF CoreInit, OmsInit
  <2>2. \A i \in Instruments : SignedFilled(records, i) = 0
    BY <2>1, SumEmpty DEF SignedFilled, SumFunction
  <2>3. Spent(records) = 0
    BY <2>1, SumEmpty DEF Spent, CashTerms, SumFunction
  <2> QED
    BY <2>1, <2>2, <2>3, MoneyIsWhole DEF Ledger
<1>2. CoreInv /\ Ledger /\ [CoreNext]_coreVars => Ledger'
  BY StepLedger
<1>3. Ledger => PortfolioMatchesOrders
  BY LedgerIsPortfolio
<1> QED
  BY <1>1, <1>2, <1>3, CoreInvariant, PTL DEF CoreSpec

-----------------------------------------------------------------------------
(* The position limit under a burst of orders of one side.                 *)

OneSided(side) == \A id \in DOMAIN records : OrderOf(id).side = side

\* What the risk gate projects before the order it judges.
Held(i) == position[i] + ExposureOf(records, i)

\* While bars are the only prices, the reference price is the close of one.
PricedByBars ==
  \A i \in DOMAIN market : ~market[i].hasQuote /\ \E b \in Bars : market[i].bid = b.close

\* With orders of one side only, the position has their sign, nothing is held
\* in an instrument without a price, and what is held stays within the limit
\* at the price of some bar.
BurstInv ==
  \A side \in Sides : OneSided(side) =>
    /\ \A i \in Instruments : SignOf(side) * position[i] >= 0
    /\ \A i \in Instruments \ DOMAIN market : Held(i) = 0
    /\ \A i \in DOMAIN market : \E b \in Bars :
         Abs(Held(i)) * b.close <= Limits.maxPositionNotional

(***************************************************************************)
(* What is held has the sign of the side.                                  *)
(***************************************************************************)
LEMMA HeldFacts ==
  ASSUME CoreInv, NEW side \in Sides, OneSided(side),
         \A i \in Instruments : SignOf(side) * position[i] >= 0, NEW i \in Instruments
  PROVE  /\ Held(i) \in Int /\ SignOf(side) * Held(i) >= 0
         /\ Abs(Held(i)) = SignOf(side) * Held(i)
<1>1. DOMAIN records \subseteq Ids /\ records \in [DOMAIN records -> OrderRecord]
  BY DEF CoreInv, BookTypeOK
<1>2. SignOf(side) * ExposureOf(records, i) >= 0
  BY <1>1, ExposureSign DEF OneSided, OrderOf, CoreInv, BookedSound
<1>3. ExposureOf(records, i) \in Int /\ position[i] \in Int /\ SignOf(side) \in {1, -1}
  BY <1>1, TotalsTyped DEF CoreInv, BooksTyped, SignOf
<1>4. SignOf(side) * position[i] >= 0
  OBVIOUS
<1> QED
  BY <1>2, <1>3, <1>4 DEF Held, Abs

(***************************************************************************)
(* Less held at the same price is worth no more.                           *)
(***************************************************************************)
LEMMA LessIsWorthLess == \A x, y, c \in Nat : x <= y => x * c <= y * c
OBVIOUS

(***************************************************************************)
(* A step that changes no price, adds no order and takes what is held      *)
(* towards zero keeps the limit.                                           *)
(***************************************************************************)
LEMMA BurstShrinks ==
  ASSUME CoreInv, CoreInv', BurstInv, market' = market,
         DOMAIN records' = DOMAIN records,
         \A k \in DOMAIN records : records'[k].order = records[k].order,
         \A side \in Sides : OneSided(side) =>
           \A i \in Instruments :
             /\ SignOf(side) * position'[i] >= 0
             /\ SignOf(side) * Held(i)' <= SignOf(side) * Held(i)
  PROVE  BurstInv'
<1> SUFFICES ASSUME NEW side \in Sides, OneSided(side)'
             PROVE  /\ \A i \in Instruments : SignOf(side) * position'[i] >= 0
                    /\ \A i \in Instruments \ DOMAIN market : Held(i)' = 0
                    /\ \A i \in DOMAIN market : \E b \in Bars :
                         Abs(Held(i)') * b.close <= Limits.maxPositionNotional
  BY DEF BurstInv
<1>1. OneSided(side)
  BY DEF OneSided, OrderOf
<1>2. /\ \A i \in Instruments : SignOf(side) * position'[i] >= 0
      /\ \A i \in Instruments : SignOf(side) * position[i] >= 0
      /\ \A i \in Instruments : SignOf(side) * Held(i)' <= SignOf(side) * Held(i)
  BY <1>1 DEF BurstInv
<1>3. ASSUME NEW i \in Instruments
      PROVE  /\ Held(i) \in Int /\ SignOf(side) * Held(i) >= 0
             /\ Abs(Held(i)) = SignOf(side) * Held(i)
  BY <1>1, <1>2, HeldFacts
<1>4. ASSUME NEW i \in Instruments
      PROVE  /\ Held(i)' \in Int /\ SignOf(side) * Held(i)' >= 0
             /\ Abs(Held(i)') = SignOf(side) * Held(i)'
  <2>1. DOMAIN records' \subseteq Ids /\ records' \in [DOMAIN records' -> OrderRecord]
    BY DEF CoreInv, BookTypeOK
  <2>2. SignOf(side) * ExposureOf(records', i) >= 0
    BY <2>1, ExposureSign DEF OneSided, OrderOf, CoreInv, BookedSound
  <2>3. ExposureOf(records', i) \in Int /\ position'[i] \in Int /\ SignOf(side) \in {1, -1}
    BY <2>1, TotalsTyped DEF CoreInv, BooksTyped, SignOf
  <2>4. SignOf(side) * position'[i] >= 0
    BY <1>2
  <2> QED
    BY <2>2, <2>3, <2>4 DEF Held, Abs
<1>5. ASSUME NEW i \in Instruments \ DOMAIN market PROVE Held(i)' = 0
  <2>1. Held(i) = 0
    BY <1>1 DEF BurstInv
  <2>2. SignOf(side) \in {1, -1}
    BY DEF SignOf
  <2>3. /\ Held(i)' \in Int /\ SignOf(side) * Held(i)' >= 0
        /\ SignOf(side) * Held(i)' <= SignOf(side) * Held(i)
    BY <1>2, <1>4
  <2> QED
    BY <2>1, <2>2, <2>3
<1>6. ASSUME NEW i \in DOMAIN market
      PROVE  \E b \in Bars : Abs(Held(i)') * b.close <= Limits.maxPositionNotional
  <2>1. PICK b \in Bars : Abs(Held(i)) * b.close <= Limits.maxPositionNotional
    BY <1>1 DEF BurstInv
  <2>2. i \in Instruments
    BY DEF CoreInv, MarketKnown
  <2>3. Abs(Held(i)) \in Nat /\ Abs(Held(i)') \in Nat /\ Abs(Held(i)') <= Abs(Held(i))
    BY <1>2, <1>3, <1>4, <2>2 DEF Abs
  <2>4. b.close \in Nat /\ Limits.maxPositionNotional \in Nat
    BY FeedIsNatural, LimitsAreNaturals
  <2>5. Abs(Held(i)') * b.close <= Abs(Held(i)) * b.close
    BY <2>3, <2>4, LessIsWorthLess
  <2>6. Abs(Held(i)') * b.close \in Nat /\ Abs(Held(i)) * b.close \in Nat
    BY <2>3, <2>4
  <2> QED
    BY <2>1, <2>4, <2>5, <2>6
<1> QED
  BY <1>2, <1>5, <1>6

(***************************************************************************)
(* A bar may give an instrument its first price; nothing is held in it.    *)
(***************************************************************************)
LEMMA BurstOnBar == CoreInv /\ BurstInv /\ PricedByBars /\ Bar => BurstInv' /\ PricedByBars'
<1> SUFFICES ASSUME CoreInv, BurstInv, PricedByBars, Bar PROVE BurstInv' /\ PricedByBars'
  OBVIOUS
<1> DEFINE blank(b) == [bid |-> b.close, ask |-> b.close, bidSize |-> 0, askSize |-> 0,
                        hasQuote |-> FALSE, volume |-> 0, updated |-> 0]
           touch(inst, b) == IF inst \in DOMAIN market /\ market[inst].hasQuote
                             THEN market[inst] ELSE blank(b)
           m(inst, b) == [touch(inst, b) EXCEPT !.volume = b.volume, !.updated = exch']
<1>1. PICK inst \in Instruments, b \in Bars : market' = With(market, inst, m(inst, b))
  BY DEF Bar
<1>2. UNCHANGED <<records, position>>
  BY DEF Bar, omsVars, bookVars
<1>3. touch(inst, b) = blank(b)
  BY DEF PricedByBars
<1>4. m(inst, b).bid = b.close /\ m(inst, b).hasQuote = FALSE
  BY <1>3
<1> HIDE DEF m
<1>5. /\ DOMAIN market' = DOMAIN market \cup {inst} /\ market'[inst] = m(inst, b)
      /\ \A i \in DOMAIN market \ {inst} : market'[i] = market[i]
  BY <1>1 DEF With
<1>6. PricedByBars'
  BY <1>4, <1>5 DEF PricedByBars
<1>7. BurstInv'
  <2>1. \A i : Held(i)' = Held(i)
    BY <1>2 DEF Held
  <2>2. \A side : OneSided(side)' <=> OneSided(side)
    BY <1>2 DEF OneSided, OrderOf
  <2>3. ASSUME NEW side \in Sides, OneSided(side)
        PROVE  \E c \in Bars : Abs(Held(inst)) * c.close <= Limits.maxPositionNotional
    <3>1. CASE inst \in DOMAIN market
      BY <2>3, <3>1 DEF BurstInv
    <3>2. CASE inst \notin DOMAIN market
      <4>1. Abs(Held(inst)) = 0
        BY <2>3, <3>2 DEF BurstInv, Abs
      <4>2. b.close \in Nat /\ Limits.maxPositionNotional \in Nat
        BY FeedIsNatural, LimitsAreNaturals
      <4> QED
        BY <4>1, <4>2
    <3> QED
      BY <3>1, <3>2
  <2> QED
    BY <1>2, <1>5, <2>1, <2>2, <2>3 DEF BurstInv
<1> QED
  BY <1>6, <1>7

(***************************************************************************)
(* A fill moves nothing between held and not held; refused by the          *)
(* portfolio, it leaves less in flight.                                    *)
(***************************************************************************)
LEMMA BurstOnFill ==
  ASSUME CoreInv, CoreInv', BurstInv, NEW id \in DOMAIN fills,
         DispatchFill(id) \/ DispatchRefused(id)
  PROVE  BurstInv' /\ market' = market
<1> DEFINE f == fills[id]
           moved(i) == IF f.inst = i THEN SignOf(f.side) * f.qty ELSE 0
<1>1. /\ records' = FillBooked(records, f) /\ next' = next /\ market' = market
      /\ \/ position' = [position EXCEPT ![f.inst] = @ + PositionDelta(f)]
         \/ position' = position
  BY FillAccepted DEF DispatchFill, DispatchRefused, marketVars, bookVars
<1>2. /\ f.id = id /\ f.inst \in Instruments
      /\ f.qty \in Nat /\ f.price \in Nat /\ f.cost \in Nat
      /\ id \in DOMAIN records /\ FillMatches(records, f)
      /\ f.side = OrderOf(id).side
  BY FillAccepted DEF FillMatches, OrderOf
<1>3. DOMAIN records \subseteq Ids /\ records \in [DOMAIN records -> OrderRecord]
  BY DEF CoreInv, BookTypeOK
<1>4. PositionDelta(f) = SignOf(f.side) * f.qty /\ position \in [Instruments -> Int]
  BY DEF PositionDelta, CoreInv, BooksTyped
<1>5. /\ DOMAIN records' = DOMAIN records
      /\ \A k \in DOMAIN records : records'[k].order = records[k].order
  BY <1>1, DeliveredFacts
<1> HIDE DEF f
<1>6. ASSUME NEW side \in Sides, OneSided(side), NEW i \in Instruments
      PROVE  /\ SignOf(side) * position'[i] >= 0
             /\ SignOf(side) * Held(i)' <= SignOf(side) * Held(i)
  <2>1. f.side = side
    BY <1>2, <1>6 DEF OneSided
  <2>2. moved(i) \in Int /\ ExposureOf(records', i) = ExposureOf(records, i) - moved(i)
    BY <1>1, <1>2, <1>3, FillKeepsTotal
  <2>3. ExposureOf(records, i) \in Int
    BY <1>3, TotalsTyped
  <2>4. SignOf(side) * position[i] >= 0 /\ SignOf(side) \in {1, -1}
    BY <1>6 DEF BurstInv, SignOf
  <2>5. position[i] \in Int /\ (position'[i] = position[i] + moved(i) \/ position'[i] = position[i])
    BY <1>1, <1>2, <1>4
  <2>6. SignOf(side) * moved(i) >= 0
    BY <1>2, <2>1, <2>4
  <2> HIDE DEF moved
  <2> QED
    BY <2>2, <2>3, <2>4, <2>5, <2>6 DEF Held
<1> QED
  BY <1>1, <1>5, <1>6, BurstShrinks

(***************************************************************************)
(* A cancellation takes away what was in flight of the order.              *)
(***************************************************************************)
LEMMA BurstOnCancel ==
  ASSUME CoreInv, CoreInv', BurstInv, NEW id \in DOMAIN pending, StrategyCancel(id)
  PROVE  BurstInv' /\ market' = market
<1>1. /\ id \in DOMAIN records /\ records' \in [DOMAIN records -> OrderRecord]
      /\ records[id].state \notin TerminalStates
      /\ \A k \in DOMAIN records \ {id} : records'[k] = records[k]
      /\ records'[id].order = records[id].order
      /\ records'[id].state = "cancelled"
      /\ market' = market /\ position' = position
  BY CancelFacts
<1>2. DOMAIN records \subseteq Ids /\ records \in [DOMAIN records -> OrderRecord]
  BY DEF CoreInv, BookTypeOK
<1>3. /\ DOMAIN records' = DOMAIN records
      /\ \A k \in DOMAIN records : records'[k].order = records[k].order
  BY <1>1
<1>4. ASSUME NEW side \in Sides, OneSided(side), NEW i \in Instruments
      PROVE  /\ SignOf(side) * position'[i] >= 0
             /\ SignOf(side) * Held(i)' <= SignOf(side) * Held(i)
  <2>1. ExposureOf(records', i) = ExposureOf(records, i)
          - ExposureTerms(records, i)[id] + ExposureTerms(records', i)[id]
    BY <1>1, <1>2, TotalsAfterChange
  <2>2. ExposureTerms(records', i)[id] = 0
    BY <1>1 DEF ExposureTerms, Live, TerminalStates
  <2>3. /\ SignOf(side) \in {1, -1} /\ SignOf(side) * position[i] >= 0
        /\ OrderOf(id).side = side
    BY <1>1, <1>4 DEF BurstInv, SignOf, OneSided
  <2>4. Remaining(records[id]) \in Nat
    BY <1>1, <1>2, PositiveQuantities DEF Remaining, CoreInv, BookedSound, OrderOf, OrderRecord, Order
  <2>5. SignOf(side) * ExposureTerms(records, i)[id] >= 0
    BY <1>1, <2>3, <2>4 DEF ExposureTerms, OrderOf
  <2>6. /\ ExposureOf(records, i) \in Int /\ ExposureTerms(records, i)[id] \in Int
        /\ position[i] \in Int
    BY <1>1, <1>2, TotalsTyped DEF CoreInv, BooksTyped
  <2> QED
    BY <1>1, <2>1, <2>2, <2>3, <2>5, <2>6 DEF Held
<1> QED
  BY <1>1, <1>3, <1>4, BurstShrinks

(***************************************************************************)
(* The gate lets an order through only if what would be held with it is    *)
(* within the limit at the last close.                                     *)
(***************************************************************************)
LEMMA ApprovedWithinLimit ==
  ASSUME CoreInv, PricedByBars, NEW inst \in Instruments, NEW o, o.inst = inst,
         o.side \in Sides, o.qty \in Nat, RiskApproves(o, RiskContext(inst))
  PROVE  /\ inst \in DOMAIN market
         /\ \E b \in Bars : Abs(Held(inst) + SignedQty(o)) * b.close <= Limits.maxPositionNotional
<1> DEFINE c == RiskContext(inst)
<1>1. inst \in DOMAIN market
  <2>1. ~(c.age > Limits.maxStaleness)
    BY DEF RiskApproves, NoUsableData
  <2>2. inst \notin DOMAIN market => c.age = Limits.maxStaleness + 1
    BY DEF RiskContext
  <2>3. Limits.maxStaleness \in Nat
    BY LimitsAreNaturals
  <2> HIDE DEF c
  <2> QED
    BY <2>1, <2>2, <2>3
<1>2. PICK b \in Bars : market[inst].bid = b.close /\ ~market[inst].hasQuote
  BY <1>1 DEF PricedByBars
<1>3. c.ref = b.close
  BY <1>1, <1>2 DEF RiskContext
<1>4. c.position + c.inFlight = Held(inst)
  BY DEF RiskContext, Held
<1>5. ~(Abs(Projected(o, c)) * c.ref > Limits.maxPositionNotional)
  BY DEF RiskApproves, SizeRefused
<1> HIDE DEF c
<1>6. Projected(o, c) = Held(inst) + SignedQty(o)
  BY <1>4 DEF Projected
<1>7. Held(inst) \in Int
  BY TotalsTyped DEF Held, CoreInv, BookTypeOK, BooksTyped
<1>8. SignedQty(o) \in Int
  BY DEF SignedQty, SignOf
<1>9. Abs(Held(inst) + SignedQty(o)) \in Nat
  BY <1>7, <1>8 DEF Abs
<1>10. b.close \in Nat /\ Limits.maxPositionNotional \in Nat
  BY FeedIsNatural, LimitsAreNaturals
<1>11. Abs(Held(inst) + SignedQty(o)) * b.close \in Nat
  BY <1>9, <1>10
<1>12. Abs(Held(inst) + SignedQty(o)) * b.close <= Limits.maxPositionNotional
  BY <1>3, <1>5, <1>6, <1>10, <1>11
<1> QED
  BY <1>1, <1>12

(***************************************************************************)
(* What a submission adds to the exposure passed the gate together with    *)
(* all that is held; a refused one adds nothing.                           *)
(***************************************************************************)
LEMMA BurstOnSubmit ==
  ASSUME CoreInv, BurstInv, PricedByBars,
         NEW inst \in Instruments, NEW side \in Sides, NEW q \in Quantities,
         NEW t \in Terms, NEW skew \in DecisionSkews,
         StrategySubmit(StrategyOrder(inst, side, q, t, skew))
  PROVE  BurstInv' /\ market' = market
<1> DEFINE o == StrategyOrder(inst, side, q, t, skew)
           id == next
<1>1. /\ o.inst = inst /\ o.side = side /\ o.qty = q /\ q \in Nat
      /\ market' = market /\ position' = position
  BY SubmitFacts, PositiveQuantities
<1>2. \/ records' = records
      \/ /\ id \in Ids /\ id \notin DOMAIN records
         /\ records' \in [DOMAIN records \cup {id} -> OrderRecord]
         /\ \A k \in DOMAIN records : records'[k] = records[k]
         /\ records'[id].order = o /\ records'[id].filled = 0
         /\ \/ records'[id].state = "rejected"
            \/ /\ records'[id].state = "working"
               /\ RiskApproves(o, RiskContext(inst))
  BY SubmitFacts
<1> HIDE DEF o, id
<1>3. CASE records' = records
  BY <1>1, <1>3 DEF BurstInv, OneSided, OrderOf, Held
<1>4. CASE /\ id \in Ids /\ id \notin DOMAIN records
           /\ records' \in [DOMAIN records \cup {id} -> OrderRecord]
           /\ \A k \in DOMAIN records : records'[k] = records[k]
           /\ records'[id].order = o /\ records'[id].filled = 0
           /\ \/ records'[id].state = "rejected"
              \/ /\ records'[id].state = "working"
                 /\ RiskApproves(o, RiskContext(inst))
  <2>1. DOMAIN records \subseteq Ids /\ records \in [DOMAIN records -> OrderRecord]
    BY DEF CoreInv, BookTypeOK
  <2>2. ASSUME NEW i \in Instruments
        PROVE  /\ Held(i)' = Held(i) + ExposureTerms(records', i)[id]
               /\ Held(i) \in Int
    <3>1. ExposureOf(records', i) = ExposureOf(records, i) + ExposureTerms(records', i)[id]
      BY <1>4, <2>1, TotalsAfterAdding
    <3>2. ExposureOf(records, i) \in Int /\ position[i] \in Int
      BY <2>1, TotalsTyped DEF CoreInv, BooksTyped
    <3>3. ExposureTerms(records', i)[id] \in Int
      <4>1. DOMAIN records' = DOMAIN records \cup {id}
        BY <1>4
      <4> QED
        BY <1>4, <2>1, <4>1, TotalsTyped
    <3> QED
      BY <1>1, <3>1, <3>2, <3>3 DEF Held
  <2>3. ASSUME NEW i \in Instruments
        PROVE  \/ Held(i)' = Held(i)
               \/ /\ i = inst /\ records'[id].state = "working"
                  /\ Held(i)' = Held(i) + SignedQty(o)
    <3>1. id \in DOMAIN records'
      BY <1>4
    <3>2. CASE i = inst /\ records'[id].state = "working"
      <4>1. Remaining(records'[id]) = o.qty
        BY <1>1, <1>4 DEF Remaining
      <4>2. ExposureTerms(records', i)[id] = SignedQty(o)
        BY <1>1, <1>4, <3>1, <3>2, <4>1 DEF ExposureTerms, Live, TerminalStates, SignedQty
      <4> QED
        BY <2>2, <3>2, <4>2
    <3>3. CASE ~(i = inst /\ records'[id].state = "working")
      <4>1. ExposureTerms(records', i)[id] = 0
        BY <1>1, <1>4, <3>1, <3>3 DEF ExposureTerms, Live, TerminalStates
      <4> QED
        BY <2>2, <4>1
    <3> QED
      BY <3>2, <3>3
  <2>4. records'[id].state = "working" =>
          /\ inst \in DOMAIN market
          /\ \E b \in Bars : Abs(Held(inst) + SignedQty(o)) * b.close <= Limits.maxPositionNotional
    BY <1>1, <1>4, ApprovedWithinLimit
  <2>5. \A s \in Sides : OneSided(s)' => OneSided(s)
    BY <1>4 DEF OneSided, OrderOf
  <2>6. ASSUME NEW s \in Sides, OneSided(s)'
        PROVE  /\ \A i \in Instruments : SignOf(s) * position'[i] >= 0
               /\ \A i \in Instruments \ DOMAIN market' : Held(i)' = 0
               /\ \A i \in DOMAIN market' : \E b \in Bars :
                    Abs(Held(i)') * b.close <= Limits.maxPositionNotional
    <3>1. /\ \A i \in Instruments : SignOf(s) * position[i] >= 0
          /\ \A i \in Instruments \ DOMAIN market : Held(i) = 0
          /\ \A i \in DOMAIN market : \E b \in Bars :
               Abs(Held(i)) * b.close <= Limits.maxPositionNotional
      BY <2>5, <2>6 DEF BurstInv
    <3>2. ASSUME NEW i \in Instruments \ DOMAIN market PROVE Held(i)' = 0
      BY <2>3, <2>4, <3>1
    <3>3. ASSUME NEW i \in DOMAIN market
          PROVE  \E b \in Bars : Abs(Held(i)') * b.close <= Limits.maxPositionNotional
      <4>1. i \in Instruments
        BY DEF CoreInv, MarketKnown
      <4>2. CASE Held(i)' = Held(i)
        BY <3>1, <4>2
      <4>3. CASE i = inst /\ records'[id].state = "working" /\ Held(i)' = Held(i) + SignedQty(o)
        BY <2>4, <4>3
      <4> QED
        BY <2>3, <4>1, <4>2, <4>3
    <3> QED
      BY <1>1, <3>1, <3>2, <3>3
  <2> QED
    BY <1>1, <2>6 DEF BurstInv
<1> QED
  BY <1>2, <1>3, <1>4

(***************************************************************************)
(* Every step of an engine fed with bars keeps the limit.                  *)
(***************************************************************************)
LEMMA StepBurst ==
  ASSUME Quotes = {}, SplitRatios = {}, CoreInv, CoreInv', BurstInv, PricedByBars,
         [CoreNext]_coreVars
  PROVE  BurstInv' /\ PricedByBars'
<1>1. ASSUME UNCHANGED <<records, position, market>> PROVE BurstInv' /\ PricedByBars'
  BY <1>1 DEF BurstInv, PricedByBars, OneSided, OrderOf, Held
<1>2. ASSUME \/ TradeOrClose \/ SessionOpen \/ Dividend
             \/ \E id \in todo : Skip(id) \/ Kill(id) \/ Execute(id)
             \/ MatchingDone \/ DispatchDone \/ StrategyReturns \/ UNCHANGED coreVars
      PROVE  UNCHANGED <<records, position, market>>
  <2>1. ASSUME TradeOrClose \/ SessionOpen \/ Dividend PROVE UNCHANGED <<records, position, market>>
    BY <2>1 DEF TradeOrClose, SessionOpen, Dividend, omsVars, marketVars, bookVars
  <2>2. ASSUME NEW id \in todo, Skip(id) \/ Kill(id) \/ Execute(id)
        PROVE  UNCHANGED <<records, position, market>>
    BY <2>2 DEF Skip, Kill, Execute, omsVars, marketVars, bookVars
  <2>3. ASSUME MatchingDone \/ DispatchDone \/ StrategyReturns
        PROVE  UNCHANGED <<records, position, market>>
    BY <2>3 DEF MatchingDone, DispatchDone, StrategyReturns, omsVars, marketVars, bookVars
  <2>4. ASSUME UNCHANGED coreVars PROVE UNCHANGED <<records, position, market>>
    BY <2>4 DEF coreVars, omsVars, marketVars, bookVars
  <2> QED
    BY <1>2, <2>1, <2>2, <2>3, <2>4
<1>3. ASSUME Bar PROVE BurstInv' /\ PricedByBars'
  BY <1>3, BurstOnBar
<1>4. ~Quote /\ ~Split
  BY DEF Quote, Split
<1>5. ASSUME NEW id \in DOMAIN fills, DispatchFill(id) \/ DispatchRefused(id)
      PROVE  BurstInv' /\ PricedByBars'
  BY <1>5, BurstOnFill DEF PricedByBars
<1>6. ASSUME NEW inst \in Instruments, NEW side \in Sides, NEW q \in Quantities,
             NEW t \in Terms, NEW skew \in DecisionSkews,
             StrategySubmit(StrategyOrder(inst, side, q, t, skew))
      PROVE  BurstInv' /\ PricedByBars'
  BY <1>6, BurstOnSubmit DEF PricedByBars
<1>7. ASSUME NEW id \in DOMAIN pending, StrategyCancel(id) PROVE BurstInv' /\ PricedByBars'
  BY <1>7, BurstOnCancel DEF PricedByBars
<1> QED
  BY <1>1, <1>2, <1>3, <1>4, <1>5, <1>6, <1>7 DEF CoreNext, StrategyOrder

(***************************************************************************)
(* OneSidedBurstWithinLimit, for every value of the other constants, while *)
(* bars are the only prices and no split multiplies a position: however    *)
(* many orders of one side are submitted before the first of them fills,   *)
(* position and exposure together stay within the limit the gate checked   *)
(* each of them against.                                                   *)
(***************************************************************************)
THEOREM BurstStaysWithinLimit ==
  ASSUME Quotes = {}, SplitRatios = {}
  PROVE  CoreSpec => []OneSidedBurstWithinLimit
<1>1. CoreInit => BurstInv /\ PricedByBars
  <2> SUFFICES ASSUME CoreInit PROVE BurstInv /\ PricedByBars
    OBVIOUS
  <2>1. DOMAIN records = {} /\ DOMAIN market = {} /\ \A i \in Instruments : position[i] = 0
    BY DEF CoreInit, OmsInit
  <2>2. \A i \in Instruments : ExposureOf(records, i) = 0
    BY <2>1, SumEmpty DEF ExposureOf, SumFunction
  <2>3. \A side \in Sides : SignOf(side) \in {1, -1}
    BY DEF SignOf
  <2> QED
    BY <2>1, <2>2, <2>3 DEF BurstInv, PricedByBars, Held
<1>2. CoreInv /\ CoreInv' /\ BurstInv /\ PricedByBars /\ [CoreNext]_coreVars => BurstInv' /\ PricedByBars'
  BY StepBurst
<1>3. CoreInv /\ BurstInv => OneSidedBurstWithinLimit
  <2> SUFFICES ASSUME CoreInv, BurstInv, NEW side \in Sides,
                      \A id \in DOMAIN records : OrderOf(id).side = side, NEW i \in DOMAIN marks
               PROVE  \E b \in Bars :
                        Abs(position[i] + ExposureOf(records, i)) * b.close <= Limits.maxPositionNotional
    BY DEF OneSidedBurstWithinLimit
  <2>1. OneSided(side) /\ i \in DOMAIN market
    BY DEF OneSided, CoreInv, MarketKnown
  <2> QED
    BY <2>1 DEF BurstInv, Held
<1> QED
  BY <1>1, <1>2, <1>3, CoreInvariant, PTL DEF CoreSpec
=============================================================================
