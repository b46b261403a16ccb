------------------------------ MODULE RiskGate ------------------------------
(***************************************************************************)
(* RiskManager::check (src/risk/risk_manager.cpp): the pre-trade gate, a   *)
(* pure function of the order, the portfolio, the OMS exposure and the     *)
(* market context.  Quotients of the code (leverage, concentration,        *)
(* drawdown, turnover, collar) are compared cross-multiplied, in percent.  *)
(***************************************************************************)
EXTENDS OrderTypes

CONSTANT Limits   \* the RiskLimits record

ASSUME LimitsAreNaturals ==
  Limits \in [maxOrderNotional: Nat, maxPositionNotional: Nat, maxGrossPct: Nat,
              maxNetPct: Nat, maxConcentrationPct: Nat, collarPct: Nat,
              maxStaleness: Nat, maxDrawdownPct: Nat, maxTurnoverPct: Nat,
              allowShort: BOOLEAN]

Abs(x) == IF x < 0 THEN -x ELSE x

SignedQty(o) == SignOf(o.side) * o.qty

\* amount / base > pct / 100 for a positive base.
ExceedsPct(amount, base, pct) == base > 0 /\ amount * 100 > pct * base

\* Slip: working orders are not counted.
ProjectedWithoutInFlight(o, c) == c.position + SignedQty(o)

\* The position if every live order and this one filled.
Projected(o, c) == c.position + c.inFlight + SignedQty(o)

NoUsableData(c) == c.age > Limits.maxStaleness \/ c.ref <= 0

DrawdownKill(c) == ExceedsPct(c.peak - c.equity, c.peak, Limits.maxDrawdownPct)

ShortRefused(o, c) == ~Limits.allowShort /\ Projected(o, c) < 0

SizeRefused(o, c) ==
  \/ o.qty * c.ref > Limits.maxOrderNotional
  \/ Abs(Projected(o, c)) * c.ref > Limits.maxPositionNotional
  \/ ExceedsPct(Abs(Projected(o, c)) * c.ref, c.equity, Limits.maxConcentrationPct)

LeverageRefused(o, c) ==
  \/ ExceedsPct(c.gross + o.qty * c.ref, c.equity, Limits.maxGrossPct)
  \/ ExceedsPct(Abs(c.net + SignedQty(o) * c.ref), c.equity, Limits.maxNetPct)

CollarRefused(o, c) ==
  o.terms.limit # 0 /\ ExceedsPct(Abs(o.terms.limit - c.ref), c.ref, Limits.collarPct)

\* Only a buy consumes cash.
BuyingPowerRefused(o, c) ==
  o.side = Buy /\ o.qty * c.ref > (IF c.cash > 0 THEN c.cash ELSE 0)

TurnoverRefused(o, c) ==
  /\ Limits.maxTurnoverPct > 0
  /\ ExceedsPct(c.turnover + o.qty * c.ref, c.equity, Limits.maxTurnoverPct)

RiskApproves(o, c) ==
  /\ ~NoUsableData(c)
  /\ ~DrawdownKill(c)
  /\ ~ShortRefused(o, c)
  /\ ~SizeRefused(o, c)
  /\ ~LeverageRefused(o, c)
  /\ ~CollarRefused(o, c)
  /\ ~BuyingPowerRefused(o, c)
  /\ ~TurnoverRefused(o, c)
=============================================================================
