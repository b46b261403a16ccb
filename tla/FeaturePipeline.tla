-------------------------- MODULE FeaturePipeline --------------------------
(***************************************************************************)
(* From one instrument's bars to a table of features: what a FeatureSet    *)
(* keeps between its inputs (src/features/feature_set.cpp), the barrier    *)
(* where the instruments of a bar are compared (cross_sectional.cpp), and  *)
(* the matrix of their rows with its cache file (matrix.cpp).  The caller  *)
(* (external: only tests and benchmarks call it) feeds each of them.       *)
(***************************************************************************)
EXTENDS Integers, Sequences, FiniteSets, SequencesExt, FiniteSetsExt

CONSTANTS Universe,         \* instruments, numbered
          MarketProxy,      \* the one the market's return is taken from, or 0
          SectorOf,         \* instrument -> sector
          CrossConfigs,     \* the rest of a CrossSectionalConfig
          LogPrices, BarVolumes,        \* of the bars
          MaxBarTime, MaxBars, MaxRows  \* bounds

ASSUME BarsAssumption ==
  /\ IsFiniteSet(Universe) /\ Universe \subseteq Int
  /\ LogPrices \subseteq Nat \ {0} /\ BarVolumes \subseteq Nat
  /\ {MaxBarTime, MaxBars, MaxRows} \subseteq Nat
  /\ CrossConfigs \subseteq [winsorize: BOOLEAN, lower: Nat, upper: Nat,   \* in hundredths
                             neutral: BOOLEAN, complete: BOOLEAN]

VARIABLES sets,          \* FeatureSet per instrument
          barsOf,        \* history: the bars each set took, without the current session's
          pending, barTime, stageConfig,  \* CrossSectionalStage
          ranked,        \* history: the rows compute() returned, and what they were made of,
                         \* until the next bar is begun
          matrix,        \* FeatureMatrix: its rows' keys
          fileKept,      \* its cache file: the rows it holds and how much of it was written
          reloaded         \* history: the last matrix load() returned, and those saved

setVars == <<sets, barsOf>>
stageVars == <<pending, barTime, stageConfig, ranked>>
matrixVars == <<matrix, fileKept, reloaded>>
featureVars == <<setVars, stageVars, matrixVars>>

NoBarTime == 0
EmptySet == [close |-> 0, logReturn |-> 0, hasReturn |-> FALSE, end |-> NoBarTime, volume |-> 0]
NoCrossSection == [of |-> <<>>, at |-> NoBarTime, rows |-> <<>>]

-----------------------------------------------------------------------------
(* FeatureSet.                                                             *)

ReturnOf(s, close) == close - s.close

\* on_bar(): the end time is the bar's, whether or not it gave a return and even
\* when a quote that was taken before it is later.
TakesBar(i, close, volume, at) ==
  LET s == sets[i]
  IN  /\ Len(barsOf[i]) < MaxBars
      /\ sets' = [sets EXCEPT ![i] =
           [s EXCEPT !.close = close, !.end = at,
                     !.logReturn = IF s.close > 0 THEN ReturnOf(s, close) ELSE @,
                     !.hasReturn = @ \/ s.close > 0,
                     !.volume = volume]]
      /\ barsOf' = [barsOf EXCEPT ![i] = Append(@, [close |-> close, volume |-> volume, at |-> at])]
      /\ UNCHANGED <<stageVars, matrixVars>>

\* on_quote(): the spread's time counts only when it is later.
TakesQuote(i, at) ==
  /\ sets' = [sets EXCEPT ![i].end = IF at > @ THEN at ELSE @]
  /\ UNCHANGED <<barsOf, stageVars, matrixVars>>

\* reset().
ResetSet(i) ==
  /\ sets' = [sets EXCEPT ![i] = EmptySet]
  /\ barsOf' = [barsOf EXCEPT ![i] = <<>>]
  /\ UNCHANGED <<stageVars, matrixVars>>

-----------------------------------------------------------------------------
(* CrossSectionalStage.                                                    *)

\* Slip: any time will do.
OfAnyBar(at) == TRUE

OfThisBar(at) == barTime = NoBarTime \/ at = barTime

\* contribute(): one per instrument of the universe, all of one bar.
Contribute(i) ==
  LET s == sets[i]
  IN  /\ s.end # NoBarTime /\ OfThisBar(s.end) /\ i \notin DOMAIN pending
      /\ barTime' = IF barTime = NoBarTime THEN s.end ELSE barTime
      /\ pending' = [j \in DOMAIN pending \union {i} |->
                       IF j = i THEN [logReturn |-> s.logReturn, volume |-> s.volume, at |-> s.end]
                       ELSE pending[j]]
      /\ ranked' = NoCrossSection
      /\ UNCHANGED <<stageConfig, setVars, matrixVars>>

\* The instruments by value, ties by number.
Before(a, b, value) == value[a] < value[b] \/ (value[a] = value[b] /\ a < b)

Ascending(s, value) ==
  /\ \A j \in DOMAIN value : \E k \in DOMAIN s : s[k] = j
  /\ \A k, l \in DOMAIN s : k < l => Before(s[k], s[l], value)

Sorted(value) == CHOOSE s \in [1..Cardinality(DOMAIN value) -> DOMAIN value] : Ascending(s, value)

\* percentile_ranks() times 2 * (n - 1): the first and last place of the values
\* equal to it, in the middle for a universe of one.
PercentileRank(i, value) ==
  LET n == Cardinality(DOMAIN value)
      places == {k \in 1..n : value[Sorted(value)[k]] = value[i]}
  IN  IF n = 1 THEN 0 ELSE (Min(places) - 1) + (Max(places) - 1)

\* Slip: the rank below, so that a wide tail is not cut.
RankBelow(q, n) == (q * (n - 1)) \div 100

\* llround(q * (n - 1)), for q in hundredths.
NearestRank(q, n) == (2 * q * (n - 1) + 100) \div 200

\* Fewer than three values, or quantiles the wrong way round, are left alone.
Winsorizes(config, n) ==
  /\ config.winsorize /\ n >= 3
  /\ config.lower < config.upper /\ config.upper <= 100

\* winsorize(): values beyond the quantiles are moved to them.
Winsorized(config, value) ==
  LET n == Cardinality(DOMAIN value)
      low == value[Sorted(value)[NearestRank(config.lower, n) + 1]]
      high == value[Sorted(value)[NearestRank(config.upper, n) + 1]]
  IN  IF ~Winsorizes(config, n) THEN value
      ELSE [i \in DOMAIN value |-> IF value[i] < low THEN low
                                  ELSE IF value[i] > high THEN high ELSE value[i]]

\* demean(), group_demean(): times the size of the group.
Demeaned(i, value, group) == value[i] * Cardinality(group) - SumFunctionOnSet(value, group)

SectorMates(i) == {j \in DOMAIN pending : SectorOf[j] = SectorOf[i]}

\* Relative to the proxy's own return, or to the mean without a proxy (times the
\* universe's size).
MarketRelative(i, work) ==
  LET D == DOMAIN pending
  IN  IF MarketProxy \in D THEN Cardinality(D) * (work[i] - pending[MarketProxy].logReturn)
      ELSE Demeaned(i, work, D)

\* compute(): a partial cross-section is refused and stays pending.
Compute ==
  LET work == Winsorized(stageConfig, [j \in DOMAIN pending |-> pending[j].logReturn])
      volumes == [j \in DOMAIN pending |-> pending[j].volume]
      InSector(i) == IF stageConfig.neutral THEN Demeaned(i, work, SectorMates(i))
                     ELSE MarketRelative(i, work)
  IN  /\ pending # <<>>
      /\ ~stageConfig.complete \/ DOMAIN pending = Universe
      /\ ranked' = [of |-> pending, at |-> barTime,
                    rows |-> [i \in DOMAIN pending |->
                      [rank |-> PercentileRank(i, work), volumeRank |-> PercentileRank(i, volumes),
                       relative |-> MarketRelative(i, work), inSector |-> InSector(i)]]]
      /\ pending' = <<>> /\ barTime' = NoBarTime
      /\ UNCHANGED <<stageConfig, setVars, matrixVars>>

\* clear(): without it a bar that never completes refuses all later ones.
ClearStage ==
  /\ pending # <<>> /\ pending' = <<>> /\ barTime' = NoBarTime
  /\ UNCHANGED <<stageConfig, setVars, ranked, matrixVars>>

-----------------------------------------------------------------------------
(* FeatureMatrix.                                                          *)

NotEarlier(at) == matrix # <<>> => at >= Last(matrix).at

\* append(), of a row of the same definition and dataset.
AppendRow(i) ==
  /\ sets[i].end # NoBarTime /\ NotEarlier(sets[i].end) /\ Len(matrix) < MaxRows
  /\ matrix' = Append(matrix, [instrument |-> i, at |-> sets[i].end])
  /\ UNCHANGED <<setVars, stageVars, fileKept, reloaded>>

\* save(): written in place; a crash leaves the part that reached the disk.
SaveMatrix ==
  /\ \E whole \in BOOLEAN : fileKept' = [rows |-> matrix, hashOf |-> matrix, whole |-> whole]
  /\ reloaded' = [reloaded EXCEPT !.saved = @ \union {matrix}]
  /\ UNCHANGED <<setVars, stageVars, matrix>>

\* A byte of the file changes (external).
FileDamaged ==
  /\ fileKept.rows # <<>> /\ fileKept.rows = fileKept.hashOf
  /\ fileKept' = [fileKept EXCEPT !.rows = Tail(@)]
  /\ UNCHANGED <<setVars, stageVars, matrix, reloaded>>

Acceptable == fileKept.whole /\ fileKept.rows = fileKept.hashOf

\* load(): a file that is torn or whose content does not match its hash is refused.
LoadMatrix ==
  /\ Acceptable
  /\ matrix' = fileKept.rows /\ reloaded' = [reloaded EXCEPT !.last = fileKept.rows]
  /\ UNCHANGED <<setVars, stageVars, fileKept>>

-----------------------------------------------------------------------------
FeatureInit ==
  /\ sets = [i \in Universe |-> EmptySet] /\ barsOf = [i \in Universe |-> <<>>]
  /\ pending = <<>> /\ barTime = NoBarTime
  /\ stageConfig \in CrossConfigs /\ ranked = NoCrossSection
  /\ matrix = <<>> /\ fileKept = [rows |-> <<>>, hashOf |-> <<>>, whole |-> FALSE]
  /\ reloaded = [last |-> <<>>, saved |-> {<<>>}]

SetStep ==
  \/ \E i \in Universe : \/ \E close \in LogPrices, volume \in BarVolumes, at \in 1..MaxBarTime :
                              TakesBar(i, close, volume, at)
                         \/ \E at \in 1..MaxBarTime : TakesQuote(i, at)
                         \/ ResetSet(i)

StageStep ==
  \/ \E i \in Universe : Contribute(i)
  \/ Compute \/ ClearStage

MatrixStep == (\E i \in Universe : AppendRow(i)) \/ SaveMatrix \/ FileDamaged \/ LoadMatrix

FeatureNext == SetStep \/ StageStep \/ MatrixStep

FeatureSpec == FeatureInit /\ [][FeatureNext]_featureVars

-----------------------------------------------------------------------------
(* A reference for the cross-section that counts instead of sorting.       *)

ReturnsBelow(of, i) == Cardinality({j \in DOMAIN of : of[j].logReturn < of[i].logReturn})
ReturnsUpTo(of, i) == Cardinality({j \in DOMAIN of : of[j].logReturn <= of[i].logReturn})

\* k is q of the way from the lowest place, 0, to the highest, n - 1, rounded.
IsNearest(k, q, n) == 200 * k <= 2 * q * (n - 1) + 100 /\ 2 * q * (n - 1) + 100 < 200 * (k + 1)

\* The return of whoever has that place.
QuantileReturn(of, q) ==
  LET n == Cardinality(DOMAIN of)
      j == CHOOSE j \in DOMAIN of :
             \E k \in 0..(n - 1) : IsNearest(k, q, n) /\ ReturnsBelow(of, j) <= k /\ k < ReturnsUpTo(of, j)
  IN  of[j].logReturn

CutReturn(config, of, i) ==
  LET v == of[i].logReturn
      low == QuantileReturn(of, config.lower)
      high == QuantileReturn(of, config.upper)
  IN  IF ~Winsorizes(config, Cardinality(DOMAIN of)) THEN v
      ELSE IF v < low THEN low ELSE IF v > high THEN high ELSE v

RankedOf(config, of, at, rows) ==
  LET n == Cardinality(DOMAIN of)
      Under(i) == Cardinality({j \in DOMAIN of : rows[j].relative < rows[i].relative})
      Beside(i) == Cardinality({j \in DOMAIN of : rows[j].relative = rows[i].relative})
      Mates(i) == {j \in DOMAIN of : SectorOf[j] = SectorOf[i]}
  IN  /\ \A i \in DOMAIN of :
           /\ of[i].at = at
           /\ \A j \in DOMAIN of :
                rows[i].relative - rows[j].relative
                  = n * (CutReturn(config, of, i) - CutReturn(config, of, j))
           /\ n > 1 => rows[i].rank = 2 * Under(i) + Beside(i) - 1
           /\ IF config.neutral
              THEN SumFunctionOnSet([j \in DOMAIN of |-> rows[j].inSector], Mates(i)) = 0
              ELSE rows[i].inSector = rows[i].relative
      /\ (config.complete /\ n > 0) => DOMAIN of = Universe

\* The rows of a cross-section are of one bar and, when it must be complete, of the
\* whole universe; relative returns differ as the returns do once the tails are
\* cut at the configured quantiles; an instrument's rank counts those below it and
\* half of those beside it; neutralised returns sum to zero in every sector.  A
\* set's return is that of its last two bars, and its time is not before the last;
\* the matrix is in time order, and load() only returns one that was saved
\* (cross_sectional.cpp, feature_set.cpp, matrix.cpp).
FeaturesAreOfTheirBar ==
  /\ RankedOf(stageConfig, ranked.of, ranked.at, ranked.rows)
  /\ \A i \in Universe :
       LET bars == barsOf[i]
           m == Len(bars)
       IN  /\ m > 1 => sets[i].logReturn = bars[m].close - bars[m - 1].close
           /\ m > 0 => sets[i].end >= bars[m].at
  /\ \A k \in 1..Len(matrix) - 1 : matrix[k].at <= matrix[k + 1].at
  /\ reloaded.last \in reloaded.saved
=============================================================================
