----------------------------- MODULE OrderTypes -----------------------------
(***************************************************************************)
(* Vocabulary of the order lifecycle shared by the order manager, the      *)
(* venue and the engine: include/ptl/oms/order.hpp and order_manager.hpp.  *)
(***************************************************************************)
EXTENDS Integers

Buy == "buy"
Sell == "sell"
Sides == {Buy, Sell}

\* sign_of(side): a buy adds to the position, a sell takes from it.
SignOf(side) == IF side = Buy THEN 1 ELSE -1

OrderStates == {"new", "pending_new", "working", "partially_filled", "filled",
                "pending_cancel", "cancelled", "rejected", "expired"}

\* is_terminal
TerminalStates == {"filled", "cancelled", "rejected", "expired"}

\* The switch of is_legal_transition, one row per non-terminal state.
Successors ==
  [new              |-> {"pending_new", "rejected", "cancelled"},
   pending_new      |-> {"working", "rejected", "partially_filled", "filled",
                         "cancelled"},
   working          |-> {"partially_filled", "filled", "pending_cancel",
                         "cancelled", "expired"},
   partially_filled |-> {"filled", "pending_cancel", "cancelled", "expired"},
   pending_cancel   |-> {"cancelled", "filled", "partially_filled"}]

LegalTransition(from, to) ==
  /\ from \notin TerminalStates
  /\ from # to
  /\ to \in Successors[from]
=============================================================================
