----------------------------- MODULE HostInbox ------------------------------
(***************************************************************************)
(* The paper-session host of the API (frontend/backend/bindings/           *)
(* session_host.cpp): manual requests are queued between the steps of the  *)
(* engine and drained by the host's strategy at its next bar, before the   *)
(* strategy acts itself.  flatten queues cancels for what is working and   *)
(* closing orders for what is held at the moment it is called.             *)
(*                                                                         *)
(* A bar is handled in three phases of one step of the engine: fills, the  *)
(* drain, the strategy's own signal; no request is queued in between.  The *)
(* engine and the venue appear as the strategy's sink: an order is gated   *)
(* (either way), then works until it is filled, in parts, or cancelled.    *)
(***************************************************************************)
EXTENDS Integers, Sequences, FiniteSets, Functions

CONSTANTS ManualQty,    \* quantities of manual orders
          AutoQty,      \* quantity of the strategy's own orders (25)
          SignalEvery,  \* bars between two signals of the strategy (15)
          KeptOutcomes, \* kMaxOutcomes
          MaxRequests, MaxBars, MaxSubmits   \* bounds

ASSUME HostBounds ==
  /\ ManualQty \subseteq Nat \ {0} /\ AutoQty \in Nat \ {0}
  /\ SignalEvery \in Nat \ {0} /\ KeptOutcomes \in Nat \ {0}

VARIABLES hostState,   \* PaperSessionHost::state_
          nextRequest, \* Impl::next_request_id
          inbox, outcomes, blotter,   \* HostStrategy::inbox_, outcomes_, submitted_
          halted, bars,               \* HostStrategy::halted_, bars_
          placed,      \* the orders in the OMS, by id
          holding,     \* the position in the portfolio
          barPhase,    \* where the handling of a bar has got to
          flattened    \* history: the last call of enqueue_flatten

inboxVars == <<nextRequest, inbox, outcomes, blotter, halted, bars, placed, holding,
               flattened>>
hostInboxVars == <<hostState, barPhase, inboxVars>>

NotFlattened == [requests |-> {}, closing |-> 0, working |-> {}, order |-> 0, owed |-> 0]

Working == {id \in DOMAIN placed : placed[id].left > 0}

-----------------------------------------------------------------------------
(* Queueing, between steps.                                                *)

RequestOf(side, qty) == [rid |-> nextRequest, kind |-> "order", side |-> side, qty |-> qty]
CancelAs(rid, id) == [rid |-> rid, kind |-> "cancel", id |-> id]

Queueable == hostState = "Running" /\ barPhase = "between"

Enqueue(requests) ==
  /\ nextRequest + Len(requests) <= MaxRequests + 1
  /\ inbox' = inbox \o requests
  /\ nextRequest' = nextRequest + Len(requests)
  /\ UNCHANGED <<hostState, barPhase, outcomes, blotter, halted, bars, placed, holding>>

EnqueueOrder ==
  /\ Queueable
  /\ \E side \in {1, -1}, q \in ManualQty : Enqueue(<<RequestOf(side, q)>>)
  /\ UNCHANGED flattened

\* Any order the OMS knows may be named, a finished one too.
EnqueueCancel ==
  /\ Queueable
  /\ \E id \in DOMAIN placed : Enqueue(<<CancelAs(nextRequest, id)>>)
  /\ UNCHANGED flattened

Ascending(ids) ==
  CHOOSE s \in Bijection(1..Cardinality(ids), ids) : \A i, j \in DOMAIN s : i < j => s[i] < s[j]

CancelsFor(ids) ==
  [i \in 1..Cardinality(ids) |-> CancelAs(nextRequest + i - 1, Ascending(ids)[i])]

EnqueueCancelAll ==
  /\ Queueable /\ Working # {}
  /\ Enqueue(CancelsFor(Working))
  /\ UNCHANGED flattened

\* Mutant of CancelsFirst: the position is closed while orders still work.
NoCancelsFirst == <<>>

CancelsFirst == CancelsFor(Working)

\* The opposite side, for the exact quantity held.
Closing(rid) ==
  IF holding = 0 THEN <<>>
  ELSE <<[rid |-> rid, kind |-> "order",
          side |-> IF holding > 0 THEN -1 ELSE 1,
          qty |-> IF holding > 0 THEN holding ELSE -holding]>>

EnqueueFlatten ==
  /\ Queueable
  /\ LET requests == CancelsFirst \o Closing(nextRequest + Len(CancelsFirst))
     IN  /\ Enqueue(requests)
         /\ flattened' = [requests |-> {requests[i].rid : i \in 1..Len(requests)},
                          closing |-> IF holding = 0 THEN 0 ELSE requests[Len(requests)].rid,
                          working |-> Working, order |-> 0, owed |-> 0]

SetHalted ==
  /\ Queueable
  /\ halted' = ~halted
  /\ UNCHANGED <<hostState, barPhase, nextRequest, inbox, outcomes, blotter, bars, placed,
                 holding, flattened>>

-----------------------------------------------------------------------------
(* One bar.                                                                *)

BarArrives ==
  /\ Queueable /\ bars < MaxBars
  /\ barPhase' = "fills"
  /\ UNCHANGED <<hostState, inboxVars>>

\* What flatten is owed: fills of other orders since it was called stay in the
\* book whatever its closing order does.
OwedAfter(id, signedQty) ==
  IF id # flattened.order
  THEN [flattened EXCEPT !.owed = @ + signedQty] ELSE flattened

FillAtVenue(id, q) ==
  /\ barPhase = "fills"
  /\ placed' = [placed EXCEPT ![id].left = @ - q]
  /\ holding' = holding + placed[id].side * q
  /\ flattened' = OwedAfter(id, placed[id].side * q)
  /\ UNCHANGED <<hostState, barPhase, nextRequest, inbox, outcomes, blotter, halted, bars>>

FillsEnd ==
  /\ barPhase = "fills"
  /\ barPhase' = "drain"
  /\ UNCHANGED <<hostState, inboxVars>>

\* Mutant of Recorded: the bound evicts the newest outcome.
RecordedAtFront(outcome) ==
  IF Len(outcomes) = KeptOutcomes THEN outcomes ELSE Append(outcomes, outcome)

Recorded(outcome) ==
  LET all == Append(outcomes, outcome)
  IN  IF Len(all) > KeptOutcomes THEN Tail(all) ELSE all

\* The sink: the risk gate decides, and a refused order is in the OMS, finished.
Place(side, qty, approved) ==
  placed' = Append(placed, [side |-> side, left |-> IF approved THEN qty ELSE 0,
                            cancelled |-> FALSE])

DrainCancel(r) ==
  /\ placed' = IF r.id \in Working
               THEN [placed EXCEPT ![r.id].left = 0, ![r.id].cancelled = TRUE] ELSE placed
  /\ outcomes' = Recorded([rid |-> r.rid, id |-> r.id, accepted |-> r.id \in Working])
  /\ UNCHANGED <<blotter, flattened>>

DrainOrder(r, approved) ==
  /\ Place(r.side, r.qty, approved)
  /\ outcomes' = Recorded([rid |-> r.rid, id |-> IF approved THEN Len(placed') ELSE 0,
                           accepted |-> approved])
  /\ blotter' = IF approved THEN Append(blotter, Len(placed')) ELSE blotter
  /\ flattened' = IF approved /\ r.rid = flattened.closing
                  THEN [flattened EXCEPT !.order = Len(placed')] ELSE flattened

DrainOne ==
  /\ barPhase = "drain" /\ inbox # <<>>
  /\ inbox' = Tail(inbox)
  /\ LET r == Head(inbox)
     IN  \/ r.kind = "cancel" /\ DrainCancel(r)
         \/ /\ r.kind = "order" /\ Len(placed) < MaxSubmits
            /\ \E approved \in BOOLEAN : DrainOrder(r, approved)
  /\ UNCHANGED <<hostState, barPhase, nextRequest, halted, bars, holding>>

\* The strategy's own order comes after the drain, and does not see what the
\* drain has just sent.
Signals == ~halted /\ (bars + 1) % SignalEvery = 0 /\ Len(placed) < MaxSubmits

StrategyActs ==
  /\ barPhase = "drain" /\ inbox = <<>>
  /\ bars' = bars + 1
  /\ barPhase' = "between"
  /\ \/ ~Signals /\ UNCHANGED <<placed, blotter>>
     \/ Signals /\ \E approved \in BOOLEAN :
          /\ Place(IF holding > 0 THEN -1 ELSE 1, AutoQty, approved)
          /\ blotter' = IF approved THEN Append(blotter, Len(placed')) ELSE blotter
  /\ UNCHANGED <<hostState, nextRequest, inbox, outcomes, halted, holding, flattened>>

-----------------------------------------------------------------------------
(* The lifecycle: every session is a new Impl, with an inbox of its own.   *)

EmptyImpl ==
  /\ nextRequest' = 1 /\ inbox' = <<>> /\ outcomes' = <<>> /\ blotter' = <<>>
  /\ halted' = FALSE /\ bars' = 0 /\ placed' = <<>> /\ holding' = 0
  /\ flattened' = NotFlattened

StartHost ==
  /\ hostState # "Running" /\ barPhase = "between"
  /\ \/ hostState' = "Running" /\ EmptyImpl
     \/ hostState' = "Error" /\ UNCHANGED inboxVars   \* a failed start keeps the old Impl
  /\ UNCHANGED barPhase

StopHost ==
  /\ hostState = "Running" /\ barPhase = "between"
  /\ \/ hostState' = "Stopped" /\ EmptyImpl           \* requests still queued are dropped
     \/ hostState' = "Error" /\ UNCHANGED inboxVars
  /\ UNCHANGED barPhase

HostStepFails ==
  /\ hostState = "Running" /\ barPhase \in {"between", "fills"}
  /\ hostState' = "Error" /\ barPhase' = "between"
  /\ UNCHANGED inboxVars

HostInboxInit ==
  /\ hostState = "Stopped" /\ barPhase = "between"
  /\ nextRequest = 1 /\ inbox = <<>> /\ outcomes = <<>> /\ blotter = <<>>
  /\ halted = FALSE /\ bars = 0 /\ placed = <<>> /\ holding = 0
  /\ flattened = NotFlattened

HostInboxNext ==
  \/ EnqueueOrder \/ EnqueueCancel \/ EnqueueCancelAll \/ EnqueueFlatten \/ SetHalted
  \/ BarArrives
  \/ \E id \in Working : \E q \in 1..placed[id].left : FillAtVenue(id, q)
  \/ FillsEnd \/ DrainOne \/ StrategyActs
  \/ StartHost \/ StopHost \/ HostStepFails

HostInboxSpec == HostInboxInit /\ [][HostInboxNext]_hostInboxVars

-----------------------------------------------------------------------------
\* Every request the host accepted is waiting or has its outcome, once, in the
\* order it was accepted, up to the outcomes the bound has evicted: over
\* refusals, cancels of finished orders and several bars, the id a client was
\* given names one answer.
RequestsAnsweredOnce ==
  LET ids == [i \in 1..Len(outcomes) |-> outcomes[i].rid]
             \o [i \in 1..Len(inbox) |-> inbox[i].rid]
      first == IF ids = <<>> THEN nextRequest ELSE ids[1]
  IN  /\ ids = [i \in 1..Len(ids) |-> first + i - 1]
      /\ first + Len(ids) = nextRequest
      /\ first > 1 => Len(outcomes) = KeptOutcomes

FlattenDrained == \A i \in 1..Len(inbox) : inbox[i].rid \notin flattened.requests

\* What flatten promises: once its requests have been drained, no order that was
\* working when it was called is still working, and once its closing order has
\* filled, what is left in the book is exactly what other orders traded since:
\* of the position it found nothing remains.
FlattenKeepsItsWord ==
  FlattenDrained =>
    /\ flattened.working \cap Working = {}
    /\ flattened.order # 0 /\ placed[flattened.order].left = 0
         /\ ~placed[flattened.order].cancelled => holding = flattened.owed

\* Every request is answered once, and a flatten that was accepted leaves no
\* position it could have seen.
HostKeepsItsWord == RequestsAnsweredOnce /\ FlattenKeepsItsWord
=============================================================================
