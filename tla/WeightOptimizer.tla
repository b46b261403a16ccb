-------------------------- MODULE WeightOptimizer --------------------------
(***************************************************************************)
(* From a problem to portfolio weights (src/optimization): the projection  *)
(* onto the limits (constraints.cpp), the closed-form optimizers and the   *)
(* projected ascent (optimizer.cpp) over the separable objectives          *)
(* (objective.cpp).  Weights are fixed-point with Unit for one of equity,  *)
(* rounded toward zero; Slack covers the rounding.  The iterative          *)
(* risk-parity weights, correlations and beta neutrality are left out.     *)
(***************************************************************************)
EXTENDS Integers, Sequences, FiniteSets, SequencesExt, FiniteSetsExt

CONSTANTS AssetCount,      \* size of the universe
          Problems,        \* limits and inputs of a call, see the fields below
          MaxIterations    \* OptimizerConfig::max_iterations

Assets == 1..AssetCount
Unit == 10000
Slack == 4 * AssetCount
Passes == 12               \* kMaxPasses

VARIABLES problem,         \* of the call
          weights,         \* the last accepted point
          trial,           \* the point being projected, the passes over it, and whether one changed it
          climb,           \* ascend(): iterations done, step as a power of a half, first value
          stage            \* where the call is; at the end the status of its result

optimizerVars == <<problem, weights, trial, climb, stage>>

Mag(x) == IF x < 0 THEN 0 - x ELSE x
Rounded(a, b) == IF a < 0 THEN 0 - ((0 - a) \div b) ELSE a \div b
NetOf(S, w) == MapThenSumSet(LAMBDA i : w[i], S)
GrossOf(S, w) == MapThenSumSet(LAMBDA i : Mag(w[i]), S)
Scaled(w, num, den) == [i \in Assets |-> Rounded(w[i] * num, den)]
Moved(w, by) == [i \in Assets |-> w[i] - by]
Clipped(x, low, high) == IF x > high THEN high ELSE IF x < low THEN low ELSE x

-----------------------------------------------------------------------------
(* One pass of ConstraintProjector::project(), in its order; passes are     *)
(* made until one changes nothing, at most Passes of them.                 *)

\* Slip: the budget forgets the cash to hold back.
BudgetWithoutReserve(p) == p.gross

Budget(p) == Rounded(p.gross * (Unit - p.reserve), Unit)

Directed(p, w) ==
  [i \in Assets |-> IF p.direction = "LongOnly" /\ w[i] < 0 THEN 0 ELSE w[i]]

Bounded(p, w) == [i \in Assets |-> Clipped(w[i], p.minPosition, p.maxPosition)]

WithoutDust(p, w) == [i \in Assets |-> IF Mag(w[i]) < p.minTrade THEN 0 ELSE w[i]]

SectorSize(p, S, w) == GrossOf(S, w)

SectorAssets(p, s) == {i \in Assets : p.sectors[i] = s}

SectorsCapped(p, w) ==
  [i \in Assets |->
    LET S == SectorAssets(p, p.sectors[i])
        size == SectorSize(p, S, w)
    IN  IF p.sectors[i] >= 0 /\ size > p.maxSector THEN Rounded(w[i] * p.maxSector, size) ELSE w[i]]

Neutral(p, w) ==
  IF p.direction = "DollarNeutral" THEN Moved(w, Rounded(NetOf(Assets, w), AssetCount)) ELSE w

GrossCapped(p, w) ==
  LET gross == GrossOf(Assets, w)
  IN  IF gross > Budget(p) THEN Scaled(w, Budget(p), gross) ELSE w

NetCapped(p, w) ==
  LET net == NetOf(Assets, w)
      share == (Mag(net) - p.net) \div AssetCount
  IN  IF Mag(net) > p.net THEN Moved(w, IF net > 0 THEN share ELSE 0 - share) ELSE w

Concentrated(p, w) ==
  LET cap == Rounded(p.maxShare * GrossOf(Assets, w), Unit)
  IN  IF p.maxShare < Unit THEN [i \in Assets |-> Clipped(w[i], 0 - cap, cap)] ELSE w

Turnover(p, w) == GrossOf(Assets, [i \in Assets |-> w[i] - p.current[i]])

\* Slip: the budget of a rebalance is not kept.
TurnoverUncapped(p, w) == w

\* Part of the way from the book held now.
TurnoverCapped(p, w) ==
  LET turnover == Turnover(p, w)
  IN  IF p.maxTurnover > 0 /\ turnover > p.maxTurnover
      THEN [i \in Assets |-> p.current[i] + Rounded((w[i] - p.current[i]) * p.maxTurnover, turnover)]
      ELSE w

\* Each step works on the weights the one before left; "<<>> \o" makes them a sequence.
Pass(p, w) ==
  LET bounded  == <<>> \o WithoutDust(p, Bounded(p, Directed(p, w)))
      capped   == <<>> \o Neutral(p, <<>> \o SectorsCapped(p, bounded))
      netted   == <<>> \o NetCapped(p, <<>> \o GrossCapped(p, capped))
  IN  <<>> \o TurnoverCapped(p, <<>> \o Concentrated(p, netted))

\* ConstraintSet::validate().
Valid(p) ==
  /\ p.maxPosition > 0 /\ p.minPosition <= p.maxPosition
  /\ ~(p.direction = "LongOnly" /\ p.minPosition < 0)
  /\ p.gross > 0 /\ p.net >= 0 /\ p.reserve \in 0..Unit - 1
  /\ p.maxShare \in 1..Unit /\ p.maxSector > 0

-----------------------------------------------------------------------------
(* The optimizers.                                                         *)

EqualWeights(p) == [i \in Assets |-> Budget(p) \div AssetCount]

\* A volatility of zero takes no weight; without any the weights are equal.
InverseVolatility(p) ==
  LET inverse == [i \in Assets |-> IF p.vols[i] > 0 THEN Unit \div p.vols[i] ELSE 0]
      total == NetOf(Assets, inverse)
  IN  IF total <= 0 THEN EqualWeights(p) ELSE Scaled(inverse, Budget(p), total)

SignalWeights(p) ==
  LET total == GrossOf(Assets, p.signals)
  IN  IF total <= 0 THEN [i \in Assets |-> 0] ELSE Scaled(p.signals, Budget(p), total)

\* MaximizeReturn, MinimizeVariance and Kelly with uncorrelated assets: the return's
\* weight and the variance's, per unit of weight.
ReturnTerm(p) == IF p.method = "minimum_variance" THEN 0 ELSE 1
RiskOf(p, i) == p.vols[i] * p.vols[i]
Worth(p, w) ==
  MapThenSumSet(LAMBDA i : ReturnTerm(p) * p.returns[i] * w[i]
                           - Rounded(RiskOf(p, i) * ((w[i] \div 10) * (w[i] \div 10)), 2 * (Unit \div 100)), Assets)
Gradient(p, w) == [i \in Assets |-> ReturnTerm(p) * p.returns[i] * (Unit \div 10)
                                     - Rounded(RiskOf(p, i) * w[i], 10)]

Climbing == {"mean_variance", "minimum_variance"}
Start(p) ==
  CASE p.method = "inverse_volatility" -> InverseVolatility(p)
    [] p.method = "signal_weighted"    -> SignalWeights(p)
    [] OTHER                           -> EqualWeights(p)

Better(p, w, candidate) == Worth(p, candidate) > Worth(p, w)

OptimizerInit ==
  /\ problem \in Problems /\ weights = [i \in Assets |-> 0]
  /\ trial = [point |-> weights, passes |-> 0, bound |-> FALSE]
  /\ climb = [iterations |-> 0, halvings |-> 0, first |-> 0] /\ stage = "asked"

Projecting == {"starting", "trying", "completing", "giving up"}
ProjectFrom(w) == trial' = [point |-> w, passes |-> 0, bound |-> FALSE]

\* optimize(), to the point it projects first.
Solve ==
  /\ stage = "asked" /\ Valid(problem)
  /\ stage' = IF problem.method \in Climbing THEN "starting" ELSE "completing"
  /\ ProjectFrom(Start(problem)) /\ UNCHANGED <<problem, weights, climb>>

Refuse ==
  /\ stage = "asked" /\ ~Valid(problem)
  /\ stage' = "error" /\ UNCHANGED <<problem, weights, trial, climb>>

ProjectOnce ==
  /\ stage \in Projecting /\ trial.passes < Passes
  /\ LET next == Pass(problem, trial.point)
     IN  /\ trial' = [point |-> next, bound |-> trial.bound \/ next # trial.point,
                      passes |-> IF next = trial.point THEN Passes ELSE trial.passes + 1]
         /\ UNCHANGED <<problem, weights, climb, stage>>

Projected == stage \in Projecting /\ trial.passes = Passes

\* ascend(): the first point, then one candidate after the other along the gradient.
BeginAscent ==
  /\ Projected /\ stage = "starting"
  /\ weights' = trial.point /\ climb' = [climb EXCEPT !.first = Worth(problem, trial.point)]
  /\ stage' = "climbing" /\ UNCHANGED <<problem, trial>>

StepBits == 4
Stuck == climb.halvings > 8
Try ==
  /\ stage = "climbing" /\ climb.iterations < MaxIterations /\ ~Stuck
  /\ LET g == Gradient(problem, weights)
     IN  ProjectFrom([i \in Assets |-> weights[i] + Rounded(g[i], 2^(climb.halvings + StepBits))])
  /\ stage' = "trying" /\ UNCHANGED <<problem, weights, climb>>

\* A candidate that helps is kept, and one that does not halves the step.
Judge ==
  /\ Projected /\ stage = "trying"
  /\ LET better == Better(problem, weights, trial.point)
     IN  /\ weights' = IF better THEN trial.point ELSE weights
         /\ climb' = [climb EXCEPT !.iterations = @ + 1, !.halvings = IF better THEN @ ELSE @ + 1]
  /\ stage' = "climbing" /\ UNCHANGED <<problem, trial>>

\* The step became too small, or the iterations ran out.
Conclude ==
  /\ stage = "climbing" /\ (Stuck \/ climb.iterations = MaxIterations)
  /\ stage' = IF Stuck THEN "completing" ELSE "giving up"
  /\ ProjectFrom(weights) /\ UNCHANGED <<problem, weights, climb>>

\* complete(): a limit that bound is told in the status.
Complete ==
  /\ Projected /\ stage \in {"completing", "giving up"}
  /\ weights' = trial.point
  /\ stage' = IF stage = "giving up" THEN "MaxIterations"
              ELSE IF trial.bound THEN "ConstrainedOptimal" ELSE "Optimal"
  /\ UNCHANGED <<problem, trial, climb>>

OptimizerNext == Solve \/ Refuse \/ ProjectOnce \/ BeginAscent \/ Try \/ Judge \/ Conclude \/ Complete

OptimizerSpec == OptimizerInit /\ [][OptimizerNext]_optimizerVars

-----------------------------------------------------------------------------
Solved == stage \in {"Optimal", "ConstrainedOptimal", "MaxIterations"}

\* ConstraintProjector::feasible(), written out again from the limits' meaning.
WithinLimits ==
  LET p == problem
      all == MapThenSumSet(LAMBDA i : Mag(weights[i]), Assets)
      net == MapThenSumSet(LAMBDA i : weights[i], Assets)
      Sector(i) == {j \in Assets : p.sectors[j] = p.sectors[i] /\ p.sectors[i] >= 0}
  IN  /\ \A i \in Assets : /\ weights[i] <= p.maxPosition + Slack /\ weights[i] >= p.minPosition - Slack
                           /\ p.direction = "LongOnly" => weights[i] >= 0 - Slack
                           /\ MapThenSumSet(LAMBDA j : Mag(weights[j]), Sector(i)) <= p.maxSector + Slack
      /\ all <= (p.gross * (Unit - p.reserve)) \div Unit + Slack
      /\ Mag(net) <= p.net + Slack

\* The limits do not pull against each other: no neutrality or net limit below what may
\* be held, no floor above nothing, and the book now held within them.
Agreeing(p) ==
  /\ p.direction # "DollarNeutral" /\ p.net >= (p.gross * (Unit - p.reserve)) \div Unit
  /\ p.minPosition <= 0
  /\ p.maxTurnover > 0 => /\ \A i \in Assets : p.current[i] \in p.minPosition..p.maxPosition
                          /\ MapThenSumSet(LAMBDA i : Mag(p.current[i]), Assets)
                               <= (p.gross * (Unit - p.reserve)) \div Unit
                          /\ \A i \in Assets : MapThenSumSet(LAMBDA j : Mag(p.current[j]),
                               {j \in Assets : p.sectors[j] = p.sectors[i]}) <= p.maxSector

\* Every optimizer's answer keeps limits that agree, and the turnover allowed from the
\* book now held; the ascent never ends below its start unless a turnover or
\* concentration limit, which another pass tightens, is set (constraints.cpp, optimizer.cpp).
AnswersKeepLimits ==
  Solved =>
    /\ Agreeing(problem) => WithinLimits
    /\ problem.maxTurnover > 0 =>
         MapThenSumSet(LAMBDA i : Mag(weights[i] - problem.current[i]), Assets)
           <= problem.maxTurnover + Slack
    /\ (problem.method \in Climbing /\ Agreeing(problem) /\ problem.maxTurnover = 0
        /\ problem.maxShare = Unit) => Worth(problem, weights) + Slack >= climb.first
=============================================================================
