------------------------------ MODULE PaperVenue ----------------------------
(***************************************************************************)
(* The brokerage a paper account trades at: PaperBroker over the simulator *)
(* (src/paper/broker.cpp) and PaperAccount, the margin policy over the     *)
(* portfolio (src/paper/account.cpp).  One instrument, whose price moves;  *)
(* the owner of the broker routes the simulator's fills to it and applies  *)
(* the fills it polls to the portfolio, without costs.  Margin is counted  *)
(* in quarters of the exposure, the default maintenance.                   *)
(***************************************************************************)
EXTENDS Integers, Sequences, FiniteSets, Functions

CONSTANTS OrderSizes, MarkPrices,
          Deposit,          \* cash of the account at the start
          BuyingPower,      \* buying_power_multiplier
          AllowShort,
          VenueLimit,       \* max_order_notional
          RejectEvery,      \* reject_every_n; zero disables it
          MaxVenueOrders    \* bound

\* The multiplier is no more than what the maintenance requirement can carry: the
\* code's defaults are half of that, and nothing in it compares the two.
ASSUME VenueTerms ==
  /\ BuyingPower \in 0..4 /\ Deposit \in Nat \ {0} /\ MaxVenueOrders \in Nat
  /\ OrderSizes \subseteq Nat \ {0} /\ MarkPrices \subseteq Nat \ {0}

VARIABLES linked,     \* connected_
          suspended,
          cash, shares, markPrice,   \* the portfolio
          alive,      \* orders at the simulator: signed quantity left by id
          working,    \* PaperBroker::working_
          routed,     \* pending_: fills to be polled
          asked, taken, refused,   \* BrokerStats
          crowded     \* history: an order was accepted beside another, or a price moved

venueVars == <<linked, suspended, cash, shares, markPrice, alive, working, routed, asked, taken,
               refused, crowded>>

Abs(x) == IF x < 0 THEN -x ELSE x
Sgn(x) == IF x > 0 THEN 1 ELSE IF x < 0 THEN -1 ELSE 0
Equity == cash + shares * markPrice
GrossExposure == Abs(shares) * markPrice

-----------------------------------------------------------------------------
(* PaperAccount.                                                           *)

\* Equity above the maintenance requirement, four times over.
MarginExcess == 4 * Equity - GrossExposure

AccountStatus ==
  IF suspended THEN "suspended" ELSE IF Equity <= 0 THEN "liquidation"
  ELSE IF MarginExcess < 0 THEN "margin_call" ELSE "active"

\* Slip: what is held already is not counted.
PowerOfEquity == IF Equity <= 0 THEN 0 ELSE Equity * BuyingPower

AvailableBuyingPower ==
  IF Equity <= 0 \/ Equity * BuyingPower < GrossExposure THEN 0
  ELSE Equity * BuyingPower - GrossExposure

\* can_accept() as the broker asks it, never for an order that reduces risk.
CanAccept(quantity, price) ==
  /\ AccountStatus = "active"
  /\ quantity < 0 => AllowShort
  /\ Abs(quantity) * price <= AvailableBuyingPower

-----------------------------------------------------------------------------
(* PaperBroker.                                                            *)

Connect == linked' = TRUE /\ UNCHANGED <<suspended, cash, shares, markPrice, alive, working, routed,
                                         asked, taken, refused, crowded>>

Disconnect == linked' = FALSE /\ UNCHANGED <<suspended, cash, shares, markPrice, alive, working, routed,
                                             asked, taken, refused, crowded>>

\* screen(): the reason of the first check that fails.  A market order is valued
\* at its arrival price, a limit order at its limit; both are the markPrice here.
Screen(quantity) ==
  IF ~linked THEN "not_connected"
  ELSE IF VenueLimit > 0 /\ Abs(quantity) * markPrice > VenueLimit THEN "exceeds_venue_limit"
  ELSE IF CanAccept(quantity, markPrice) THEN "none"
  ELSE CASE AccountStatus = "suspended" -> "account_suspended"
         [] AccountStatus \in {"margin_call", "liquidation"} -> "margin_call"
         [] OTHER -> "insufficient_buying_power"

\* Every n-th order submitted, refused ones counted, is refused in any case.
TurnedAway == RejectEvery > 0 /\ (asked + 1) % RejectEvery = 0

Answer(quantity) ==
  IF Screen(quantity) # "none" THEN Screen(quantity)
  ELSE IF TurnedAway THEN "simulator_rejected" ELSE "none"

InFlight == routed # <<>> \/ \E id \in DOMAIN alive : alive[id] # 0

\* A disconnected venue is an error, any other refusal a rejected acknowledgement.
SubmitToVenue(quantity) ==
  LET id == asked + 1
      accepted == Answer(quantity) = "none"
  IN  /\ asked < MaxVenueOrders /\ asked' = id
      /\ taken' = taken + (IF accepted THEN 1 ELSE 0)
      /\ refused' = refused + (IF accepted THEN 0 ELSE 1)
      /\ alive' = [alive EXCEPT ![id] = IF accepted THEN quantity ELSE 0]
      /\ working' = IF accepted THEN working \cup {id} ELSE working
      /\ crowded' = (crowded \/ (accepted /\ InFlight))
      /\ UNCHANGED <<linked, suspended, cash, shares, markPrice, routed>>

Cancel(id) ==
  /\ linked /\ alive[id] # 0
  /\ alive' = [alive EXCEPT ![id] = 0]
  /\ working' = working \ {id}
  /\ UNCHANGED <<linked, suspended, cash, shares, markPrice, routed, asked, taken, refused, crowded>>

\* The simulator fills an order whole, or but for one share, and the session routes the fill:
\* the broker counts the order as done either way.
FillAndRoute(id, part) ==
  /\ alive[id] # 0
  /\ alive' = [alive EXCEPT ![id] = @ - part]
  /\ working' = working \ {id}
  /\ routed' = Append(routed, [quantity |-> part, price |-> markPrice])
  /\ UNCHANGED <<linked, suspended, cash, shares, markPrice, asked, taken, refused, crowded>>

\* poll_fills(): the queue is drained, connected or not, and the fills booked.
PollFills ==
  /\ routed # <<>>
  /\ cash' = cash - SumFunction([i \in DOMAIN routed |-> routed[i].quantity * routed[i].price])
  /\ shares' = shares + SumFunction([i \in DOMAIN routed |-> routed[i].quantity])
  /\ routed' = <<>>
  /\ UNCHANGED <<linked, suspended, markPrice, alive, working, asked, taken, refused, crowded>>

-----------------------------------------------------------------------------
MarkMoves(price) ==
  /\ price # markPrice /\ ~crowded /\ markPrice' = price /\ crowded' = TRUE
  /\ UNCHANGED <<linked, suspended, cash, shares, alive, working, routed, asked, taken, refused>>

SuspendOrLift ==
  /\ suspended' = ~suspended
  /\ UNCHANGED <<linked, cash, shares, markPrice, alive, working, routed, asked, taken, refused, crowded>>

VenueInit ==
  /\ linked = FALSE /\ suspended = FALSE
  /\ cash = Deposit /\ shares = 0 /\ markPrice = 1
  /\ alive = [id \in 1..MaxVenueOrders |-> 0] /\ working = {} /\ routed = <<>>
  /\ asked = 0 /\ taken = 0 /\ refused = 0 /\ crowded = FALSE

VenueNext ==
  \/ Connect \/ Disconnect \/ PollFills \/ SuspendOrLift
  \/ \E size \in OrderSizes : SubmitToVenue(size) \/ SubmitToVenue(-size)
  \/ \E id \in 1..MaxVenueOrders :
       Cancel(id) \/ \E part \in {alive[id], alive[id] - Sgn(alive[id])} \ {0} : FillAndRoute(id, part)
  \/ \E price \in MarkPrices : MarkMoves(price)

VenueSpec == VenueInit /\ [][VenueNext]_venueVars

-----------------------------------------------------------------------------
\* "A position compliant when opened is not instantly in breach" (MarginConfig):
\* orders sent one after the other never bring on a margin call by themselves,
\* whatever was bought, sold, cancelled or refused before; every order is answered
\* once, and what the broker calls working is at the simulator.
\* (Orders in flight together each see the whole buying power, and may.)
CompliantWhenOpened ==
  /\ ~crowded /\ ~suspended => AccountStatus = "active"
  /\ asked = taken + refused /\ working \subseteq {id \in DOMAIN alive : alive[id] # 0}
=============================================================================
