--------------------------- MODULE AlgoExecution ----------------------------
(***************************************************************************)
(* The execution algorithms (src/algo): an Executor holds one plan for     *)
(* each parent order and, at each market event, lets the algorithm release *)
(* one more child order through the engine's sink; fills, cancels and the  *)
(* end of the window finish a plan.  Quantities are whole lots; a schedule *)
(* target, which the code interpolates as a fraction, is compared cross-   *)
(* multiplied and truncated to lots where the code truncates.              *)
(*                                                                         *)
(* The sink is the engine: its risk gate may refuse a child, and a child   *)
(* rests at the venue until it is filled, whole or in parts, cancelled, or *)
(* dropped by the venue without a report (an IOC remainder, a killed FOK). *)
(***************************************************************************)
EXTENDS Integers, Sequences, FiniteSetsExt, Functions

CONSTANTS Parents,     \* parent order ids
          ParentQty,   \* quantities of parents
          Algos,       \* AlgoKind: "immediate", "twap", "vwap", "pov", "iceberg", "adaptive"
          Profile,     \* the volume profile of VWAP, weights of its slices
          TwapSlices,  \* slices of TWAP and of the adaptive limit
          WindowEnd,   \* window_end; every window begins at 0
          OpenTimes,   \* instants outside the open and close buffers
          Volumes,     \* interval volumes
          RateDiv,     \* 1 / max_participation_rate
          Display,     \* max_display_quantity, 0 for none; the clip of an iceberg otherwise
          MinClip,     \* min_clip_size
          MaxNow, MaxChildren   \* bounds

ASSUME AlgoBounds ==
  /\ ParentQty \subseteq Nat \ {0} /\ WindowEnd \in Nat \ {0} /\ RateDiv \in Nat \ {0}
  /\ Display \in Nat /\ MinClip \in Nat /\ Volumes \subseteq Nat /\ TwapSlices \in Nat \ {0}
  /\ Profile \in Seq(Nat) /\ \E i \in DOMAIN Profile : Profile[i] > 0
  /\ Algos \subseteq {"immediate", "twap", "vwap", "pov", "iceberg", "adaptive"}

VARIABLES plans,     \* Executor::plans_
          children,  \* child orders sent, by parent and number, as the venue has them
          algoNow    \* the time of the market event

algoVars == <<plans, children, algoNow>>

TerminalPlans == {"completed", "cancelled", "expired", "failed"}

Left(plan) == IF plan.filled < plan.qty THEN plan.qty - plan.filled ELSE 0

-----------------------------------------------------------------------------
(* Schedules.                                                              *)

Weights(algo) ==
  CASE algo = "vwap" -> Profile
    [] algo \in {"twap", "adaptive"} -> [i \in 1..TwapSlices |-> 1]
    [] OTHER -> <<1>>

TotalWeight(w) == SumFunction(w)
WeightBefore(w, i) == SumFunctionOnSet(w, 1..(i - 1))

SliceBegin(w, i) == (WindowEnd \div Len(w)) * (i - 1)
SliceEnd(w, i) == IF i = Len(w) THEN WindowEnd ELSE (WindowEnd \div Len(w)) * i

\* ExecutionSchedule::target_by, minus what is filled: positive when behind,
\* in units of 1 / (TotalWeight * the length of the current slice).
Behind(plan, t) ==
  LET w == Weights(plan.algo)
      i == CHOOSE k \in DOMAIN w : SliceBegin(w, k) <= t /\ t < SliceEnd(w, k)
      len == SliceEnd(w, i) - SliceBegin(w, i)
      unit == TotalWeight(w) * len
  IN  [due |-> plan.qty * (WeightBefore(w, i) * len + w[i] * (t - SliceBegin(w, i)))
               - plan.filled * unit,
       unit |-> unit]

-----------------------------------------------------------------------------
(* What an algorithm releases next (next_child): a quantity, 0 for nothing.*)

Releasable(m) == m.executable /\ algoNow \in OpenTimes /\ algoNow < WindowEnd

\* The floor comes last; a residue below it goes out whole.
Floored(want, left) ==
  IF want >= MinClip THEN want ELSE IF left <= MinClip THEN left ELSE 0

\* AlgorithmBase::apply_policy_caps
Capped(desired, left, m) ==
  Floored(Min({desired, left} \cup (IF m.volume > 0 THEN {m.volume \div RateDiv} ELSE {})
              \cup (IF Display > 0 THEN {Display} ELSE {})), left)

\* clip_quantity: chase the cumulative target, not the slice's own.
ChildDue(plan, m) ==
  LET b == Behind(plan, algoNow)
  IN  IF b.due <= 0 THEN 0 ELSE Capped(b.due \div b.unit, Left(plan), m)

ImmediateClip(plan, m) == Capped(Left(plan), Left(plan), m)
TwapClip(plan, m) == ChildDue(plan, m)
VwapClip(plan, m) == ChildDue(plan, m)
AdaptiveClip(plan, m) == ChildDue(plan, m)     \* urgency chooses a type, not a quantity

\* POV follows the observed volume; its own rate is the policy's here.
PovClip(plan, m) ==
  IF m.volume = 0 THEN 0
  ELSE Floored(Min({m.volume \div RateDiv, Left(plan)}), Left(plan))

\* An iceberg shows a clip, whatever trades.
IcebergClip(plan) == Min({Display, Left(plan)})

Clip(plan, m) ==
  CASE plan.algo = "immediate" -> ImmediateClip(plan, m)
    [] plan.algo = "twap"      -> TwapClip(plan, m)
    [] plan.algo = "vwap"      -> VwapClip(plan, m)
    [] plan.algo = "pov"       -> PovClip(plan, m)
    [] plan.algo = "iceberg"   -> IcebergClip(plan)
    [] plan.algo = "adaptive"  -> AdaptiveClip(plan, m)

-----------------------------------------------------------------------------
(* The Executor.                                                           *)

Resting(p) == {c \in DOMAIN children : c[1] = p /\ children[c].rests}

NewPlan(algo, q) ==
  [algo |-> algo, qty |-> q, filled |-> 0, sent |-> 0, child |-> 0, state |-> "pending"]

SubmitParent(p, algo, q) ==
  /\ p \notin DOMAIN plans /\ algoNow = 0   \* the window begins
  /\ algo = "iceberg" => Display > 0      \* plan() refuses
  /\ plans' = [k \in DOMAIN plans \cup {p} |->
       IF k = p THEN NewPlan(algo, q) ELSE plans[k]]
  /\ UNCHANGED <<children, algoNow>>

\* Mutant of Idle: a child is sent although one rests.
IdleOrNot(plan) == plan.state \notin TerminalPlans /\ plan.filled < plan.qty

\* A plan that may release a child: not finished, and no child resting.
Idle(plan) ==
  plan.state \notin TerminalPlans /\ plan.filled < plan.qty /\ plan.child = 0

\* A child as the sink takes it (emit_child), with the history of what happened to
\* it: was it filled in parts, and was its cancel refused?
ChildOf(clip) == [qty |-> clip, left |-> clip, rests |-> TRUE, parts |-> FALSE, kept |-> FALSE]

\* Executor::on_market visits every plan; the gate approves some of the children.
OnMarket ==
  \E m \in [executable: BOOLEAN, volume: Volumes], approved \in SUBSET DOMAIN plans :
    LET releasing == {p \in approved : /\ Idle(plans[p]) /\ Releasable(m)
                                       /\ Clip(plans[p], m) > 0}
        next(p) == plans[p].sent + 1
    IN  /\ releasing # {}
        /\ \A p \in releasing : next(p) <= MaxChildren
        /\ plans' = [p \in DOMAIN plans |->
             IF p \in releasing
             THEN [plans[p] EXCEPT !.state = "working", !.sent = next(p), !.child = next(p)]
             ELSE plans[p]]
        /\ children' = [c \in DOMAIN children \cup {<<p, next(p)>> : p \in releasing} |->
             IF c \in DOMAIN children THEN children[c] ELSE ChildOf(Clip(plans[c[1]], m))]
        /\ UNCHANGED algoNow

\* Executor::on_fill, after the venue: any fill of the working child, a partial
\* one too, makes room for the next child.
ChildFilled(c, q) ==
  LET p == c[1]
      filled == plans[p].filled + q
  IN  /\ children' = [children EXCEPT ![c].left = @ - q, ![c].rests = children[c].left > q,
                                      ![c].parts = @ \/ children[c].left > q]
      /\ plans' = [plans EXCEPT ![p].filled = filled,
                                ![p].child = IF @ = c[2] THEN 0 ELSE @,
                                ![p].state = IF filled >= plans[p].qty THEN "completed" ELSE @]
      /\ UNCHANGED algoNow

\* The venue drops a child without telling: the plan waits for it from now on.
ChildDropped(c) ==
  /\ children' = [children EXCEPT ![c].rests = FALSE]
  /\ UNCHANGED <<plans, algoNow>>

\* The resting child of each closed plan is cancelled first; that the sink refuses a
\* cancel is ignored.
Recalled(closed, denied) ==
  [c \in DOMAIN children |->
     IF c[1] \in closed /\ c[2] = plans[c[1]].child
     THEN [children[c] EXCEPT !.rests = @ /\ c[1] \in denied, !.kept = c[1] \in denied]
     ELSE children[c]]

Closed(closed, state) ==
  /\ \E denied \in SUBSET closed : children' = Recalled(closed, denied)
  /\ plans' = [p \in DOMAIN plans |->
       IF p \in closed THEN [plans[p] EXCEPT !.state = state, !.child = 0] ELSE plans[p]]

CancelParent(p) ==
  /\ plans[p].state \notin TerminalPlans
  /\ Closed({p}, "cancelled")
  /\ UNCHANGED algoNow

\* Executor::expire_stale
ExpireStale ==
  LET stale == {p \in DOMAIN plans : plans[p].state \notin TerminalPlans}
  IN  /\ algoNow >= WindowEnd /\ stale # {}
      /\ Closed(stale, "expired")
      /\ UNCHANGED algoNow

AlgoTick == algoNow < MaxNow /\ algoNow' = algoNow + 1 /\ UNCHANGED <<plans, children>>

AlgoInit == plans = <<>> /\ children = <<>> /\ algoNow = 0

AlgoNext ==
  \/ \E p \in Parents, a \in Algos, q \in ParentQty : SubmitParent(p, a, q)
  \/ OnMarket
  \/ \E c \in DOMAIN children :
       children[c].rests /\ (ChildDropped(c) \/ \E q \in 1..children[c].left : ChildFilled(c, q))
  \/ \E p \in DOMAIN plans : CancelParent(p)
  \/ ExpireStale
  \/ AlgoTick

AlgoSpec == AlgoInit /\ [][AlgoNext]_algoVars

-----------------------------------------------------------------------------
\* A parent never has more than its quantity filled and resting, in at most one
\* child, and nothing of a finished plan rests but what the sink refused to cancel:
\* as long as none of its children was filled in parts.  (A partial fill releases
\* the plan while the rest of the child is still at the venue, and the next child
\* doubles it.)
ParentNeverExceeded ==
  \A p \in DOMAIN plans :
    (\A c \in DOMAIN children : c[1] = p => ~children[c].parts) =>
      /\ plans[p].filled + SumFunctionOnSet([c \in DOMAIN children |-> children[c].left], Resting(p))
           <= plans[p].qty
      /\ Cardinality(Resting(p)) <= 1
      /\ plans[p].state \in TerminalPlans => \A c \in Resting(p) : children[c].kept
=============================================================================
