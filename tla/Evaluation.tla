----------------------------- MODULE Evaluation -----------------------------
(***************************************************************************)
(* How a model's predictions are scored against what happened              *)
(* (src/research/evaluation.cpp).  A walk-forward run adds scored          *)
(* observations; every metric is a function of the series so far.          *)
(* Predictions are in twentieths.  Fractions stay [top, of], and a         *)
(* correlation the pair of its covariance and the product of the           *)
(* dispersions, whose square root is not taken: its sign, its zero and its *)
(* equality are those of the code's.                                       *)
(***************************************************************************)
EXTENDS Integers, Sequences, FiniteSets, FiniteSetsExt, SequencesExt

CONSTANTS ScoredCases,  \* observations: a prediction in twentieths, the outcome in whole
                        \* units, and the period_id of its cross-section
          Buckets,      \* of the ranking
          MaxScored     \* bound: observations of a series

ASSUME EvaluationAssumption == Buckets \in Nat \ {0, 1}

VARIABLE scored         \* observations in the order they came

evaluationVars == <<scored>>

Undefined == [top |-> 0, of |-> 0]

-----------------------------------------------------------------------------
(* Ranks and correlations of series v.                                     *)

\* Where observation i is after the sort, ties by position.
Place(v, i) == Cardinality({k \in DOMAIN v : v[k] < v[i] \/ (v[k] = v[i] /\ k < i)})

\* Slip: ties keep the place the sort gave them.
OrdinalRanks(v) == [i \in DOMAIN v |-> 2 * Place(v, i)]

\* Doubled: those that tie share the average of their places.
RanksOf(v) ==
  [i \in DOMAIN v |->
    LET tied == {Place(v, k) : k \in {k \in DOMAIN v : v[k] = v[i]}}
    IN  Min(tied) + Max(tied)]

SumAll(v) == MapThenSumSet(LAMBDA i : v[i], DOMAIN v)

\* Deviations from the mean, times the length.
Deviations(v) == [i \in DOMAIN v |-> Len(v) * v[i] - SumAll(v)]
Dot(v, w) == MapThenSumSet(LAMBDA i : v[i] * w[i], DOMAIN v)

\* A constant series, or a single value, correlates with nothing.
Pearson(v, w) ==
  LET dv == Deviations(v)
      dw == Deviations(w)
      spread == Dot(dv, dv) * Dot(dw, dw)
  IN  IF spread = 0 THEN Undefined ELSE [top |-> Dot(dv, dw), of |-> spread]

Spearman(v, w) == Pearson(RanksOf(v), RanksOf(w))

-----------------------------------------------------------------------------
(* The series of a score; outcomes in twentieths where errors are taken.   *)
Predicted(s) == [i \in DOMAIN s |-> s[i].prediction]
Happened(s) == [i \in DOMAIN s |-> s[i].outcome]
Signum(x) == IF x > 0 THEN 1 ELSE IF x < 0 THEN -1 ELSE 0

Regression(s) ==
  LET miss == [i \in DOMAIN s |-> s[i].prediction - 20 * s[i].outcome]
      sse == Dot(miss, miss)
      sst == Dot(Deviations(Happened(s)), Deviations(Happened(s)))
  IN  [squared |-> sse,
       \* 1 - sse / sst, negative when the mean is the better guess.
       rSquared |-> IF sst > 0 THEN [top |-> 400 * sst - Len(s) * Len(s) * sse, of |-> 400 * sst]
                    ELSE Undefined,
       ic |-> Pearson(Predicted(s), Happened(s)),
       rankIc |-> Spearman(Predicted(s), Happened(s)),
       \* A zero is right about nothing.
       hits |-> Cardinality({i \in DOMAIN s : Signum(s[i].prediction) * Signum(s[i].outcome) = 1})]

Actual(s) == {i \in DOMAIN s : s[i].outcome > 0}

\* The rank-sum identity over doubled zero-based ranks; one class alone gives a half.
AucOf(s) ==
  LET positives == Actual(s)
      np == Cardinality(positives)
      nn == Len(s) - np
      ranks == RanksOf(Predicted(s))
      rankSum == MapThenSumSet(LAMBDA i : ranks[i] + 2, positives)
  IN  IF np > 0 /\ nn > 0 THEN [top |-> rankSum - np * (np + 1), of |-> 2 * np * nn]
      ELSE [top |-> 1, of |-> 2]

Classification(s, threshold) ==
  LET said == {i \in DOMAIN s : s[i].prediction >= threshold}
      InBin(b) == {i \in DOMAIN s :
                    LET p == Max({0, Min({20, s[i].prediction})})
                    IN  b = Min({9, p \div 2})}
      Probability(S) == MapThenSumSet(LAMBDA i : Max({0, Min({20, s[i].prediction})}), S)
      Gap(b) == LET error == Probability(InBin(b)) - 20 * Cardinality(InBin(b) \cap Actual(s))
                IN  [top |-> Signum(error) * error, of |-> 20 * Cardinality(InBin(b))]
  IN  [truePositives |-> Cardinality(said \cap Actual(s)),
       falsePositives |-> Cardinality(said \ Actual(s)),
       falseNegatives |-> Cardinality(Actual(s) \ said),
       auc |-> AucOf(s),
       \* calibration_error is their mean.
       gaps |-> [b \in {b \in 0..9 : InBin(b) # {}} |-> Gap(b)]]

-----------------------------------------------------------------------------
(* The ranking; pairs that tie in either series count on neither side.     *)

Kendall(s) ==
  LET pairs == {p \in (DOMAIN s) \X (DOMAIN s) : p[1] < p[2]}
      Agreement(p) == Signum(s[p[1]].prediction - s[p[2]].prediction)
                        * Signum(s[p[1]].outcome - s[p[2]].outcome)
      concordant == Cardinality({p \in pairs : Agreement(p) = 1})
      discordant == Cardinality({p \in pairs : Agreement(p) = -1})
  IN  [top |-> concordant - discordant, of |-> concordant + discordant]

\* Slip: every bucket as wide as the first.
WholeWidth(s, b) == b * (Len(s) \div Buckets)

BucketStart(s, b) == (b * Len(s)) \div Buckets

Bucket(s, b) ==
  {i \in DOMAIN s : Place(Predicted(s), i) \in BucketStart(s, b)..(BucketStart(s, b + 1) - 1)}

\* decile_means, and the spread between the last and the first.
Ranking(s) ==
  [kendall |-> Kendall(s),
   means |-> [b \in 1..Buckets |->
               LET S == Bucket(s, b - 1)
               IN  [top |-> MapThenSumSet(LAMBDA i : s[i].outcome, S), of |-> Cardinality(S)]]]

Ranked(s) == Len(s) >= Buckets

-----------------------------------------------------------------------------
(* Period by period, those of one observation left out.                    *)
OfPeriod(s, period) == SelectSeq(s, LAMBDA o : o.period = period)

CrossSection(s) ==
  LET used == {period \in {o.period : o \in Range(s)} : Len(OfPeriod(s, period)) >= 2}
      ics == [period \in used |->
               Spearman(Predicted(OfPeriod(s, period)), Happened(OfPeriod(s, period)))]
  IN  [ics |-> ics, hits |-> Cardinality({period \in used : ics[period].top > 0})]

-----------------------------------------------------------------------------
EvaluationInit == scored = <<>>

Score(o) == Len(scored) < MaxScored /\ scored' = Append(scored, o)

EvaluationNext == \E o \in ScoredCases : Score(o)

-----------------------------------------------------------------------------
\* What is reported is a property of the predictions and not of how they are listed:
\* the area under the curve is the share of positives ranked above negatives with
\* ties as halves, a signal turned around scores the opposite, no metric depends on
\* the order of the observations, each observation is in one bucket and one bin, and
\* a period nobody can be ranked in has no say (evaluation.cpp:17-39, 164-184,
\* 248-266, 299-304).
ScoresAreHonest ==
  LET n == Len(scored)
      turned == [i \in DOMAIN scored |-> [scored[i] EXCEPT !.prediction = 0 - @]]
      backwards == Reverse(scored)
      Opposite(x) == [x EXCEPT !.top = 0 - @]
      positives == Actual(scored)
      pairs == positives \X (DOMAIN scored \ positives)
      Above == {p \in pairs : scored[p[1]].prediction > scored[p[2]].prediction}
      Tied == {p \in pairs : scored[p[1]].prediction = scored[p[2]].prediction}
      distinct == \A i, j \in DOMAIN scored :
                    scored[i].prediction = scored[j].prediction => i = j
      c == Classification(scored, 10)
  IN  scored # <<>> =>
      /\ pairs # {} => AucOf(scored) = [top |-> 2 * Cardinality(Above) + Cardinality(Tied),
                                        of |-> 2 * Cardinality(pairs)]
      /\ AucOf(turned).top = AucOf(turned).of - AucOf(scored).top
      /\ Regression(turned).rankIc = Opposite(Regression(scored).rankIc)
      /\ Kendall(turned) = Opposite(Kendall(scored))
      /\ Regression(backwards) = Regression(scored)
      /\ Classification(backwards, 10) = c
      /\ CrossSection(backwards) = CrossSection(scored)
      /\ c.truePositives + c.falseNegatives = Cardinality(positives)
      /\ SumAll([b \in 1..10 |-> IF b - 1 \in DOMAIN c.gaps THEN c.gaps[b - 1].of ELSE 0]) = 20 * n
      /\ Ranked(scored) =>
           /\ SumAll([b \in 1..Buckets |-> Ranking(scored).means[b].of]) = n
           /\ distinct => Ranking(backwards) = Ranking(scored)
           /\ distinct /\ n % Buckets = 0 => Ranking(turned).means = Reverse(Ranking(scored).means)
      /\ (\A i \in 1..n : scored[i].period = scored[1].period) =>
           \A period \in DOMAIN CrossSection(scored).ics :
             CrossSection(scored).ics[period] = Regression(scored).rankIc
=============================================================================
