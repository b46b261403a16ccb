--------------------------- MODULE ResearchProofs ----------------------------
(***************************************************************************)
(* Proofs about what research rests on, for every panel and split, every   *)
(* set of experiments, manifests and metrics and every bound: evaluation   *)
(* out of sample, state that is read back, the ledger of trials, the       *)
(* ranking of experiments, and the registries.                             *)
(***************************************************************************)
EXTENDS WalkForward, StoredState, ResearchLedger, ResearchRegistries, SumLemmas, SequenceTheorems

-----------------------------------------------------------------------------
(***************************************************************************)
(* WalkForward.  Pooled observations are in the order of their decisions,  *)
(* and no label ends at its decision.  That is all it takes for the two    *)
(* intervals a fold purges against to cover every row it is validated or   *)
(* tested on, however the instruments' bars interleave.                    *)
(***************************************************************************)

\* A strict total order of a set.
Orders(order, set) ==
  /\ \A x \in set : <<x, x>> \notin order
  /\ \A x, y, z \in set : <<x, y>> \in order /\ <<y, z>> \in order => <<x, z>> \in order
  /\ \A x, y \in set : x # y => <<x, y>> \in order \/ <<y, x>> \in order

(***************************************************************************)
(* Ranked lists a finite set in the order it is given: the number of       *)
(* elements before it tells each element apart, so every place is taken.   *)
(***************************************************************************)
LEMMA RankedFacts ==
  ASSUME NEW set, IsFiniteSet(set), NEW order, Orders(order, set)
  PROVE  /\ Ranked(set, order) \in Seq(set) /\ Len(Ranked(set, order)) = Cardinality(set)
         /\ \A i, j \in 1..Cardinality(set) :
              i < j => <<Ranked(set, order)[i], Ranked(set, order)[j]>> \in order
<1> DEFINE n == Cardinality(set)
           Before(x) == {y \in set : <<y, x>> \in order}
           place == [x \in set |-> Cardinality(Before(x))]
           s == Ranked(set, order)
<1>1. n \in Nat
  BY FS_CardinalityType
<1>2. \A x \in set : IsFiniteSet(Before(x)) /\ Cardinality(Before(x)) \in Nat /\ Cardinality(Before(x)) < n
  <2> SUFFICES ASSUME NEW x \in set
               PROVE  IsFiniteSet(Before(x)) /\ Cardinality(Before(x)) \in Nat /\ Cardinality(Before(x)) < n
    OBVIOUS
  <2>1. Before(x) \in SUBSET set /\ x \notin Before(x)
    BY DEF Orders
  <2> HIDE DEF Before
  <2>2. IsFiniteSet(Before(x)) /\ Cardinality(Before(x)) <= n /\ Cardinality(Before(x)) # n
    BY <2>1, FS_Subset
  <2>3. Cardinality(Before(x)) \in Nat
    BY <2>2, FS_CardinalityType
  <2> QED
    BY <1>1, <2>2, <2>3
<1>3. ASSUME NEW x \in set, NEW y \in set, <<x, y>> \in order
      PROVE  Cardinality(Before(x)) < Cardinality(Before(y))
  <2>1. Before(x) \in SUBSET Before(y) /\ x \in Before(y) /\ x \notin Before(x)
    BY <1>3 DEF Orders
  <2>2. IsFiniteSet(Before(y)) /\ Cardinality(Before(x)) \in Nat /\ Cardinality(Before(y)) \in Nat
    BY <1>2
  <2> HIDE DEF Before
  <2>3. Cardinality(Before(x)) <= Cardinality(Before(y)) /\ Cardinality(Before(x)) # Cardinality(Before(y))
    BY <2>1, <2>2, FS_Subset
  <2> QED
    BY <2>2, <2>3
<1>4. place \in [set -> 0..(n - 1)]
  <2> HIDE DEF Before
  <2> QED
    BY <1>1, <1>2
<1>5. ASSUME NEW x \in set, NEW y \in set, x # y
      PROVE  place[x] # place[y]
  <2>1. <<x, y>> \in order \/ <<y, x>> \in order
    BY <1>5 DEF Orders
  <2> HIDE DEF Before
  <2> QED
    BY <1>2, <1>3, <2>1
<1>6. place \in Surjection(set, 0..(n - 1))
  <2>1. place \in Injection(set, 0..(n - 1))
    BY <1>4, <1>5 DEF Injection, IsInjective
  <2>2. IsFiniteSet(0..(n - 1)) /\ Cardinality(0..(n - 1)) = n
    BY <1>1, FS_Interval
  <2> HIDE DEF place
  <2> QED
    BY <2>1, <2>2, FS_Injection
<1>7. ASSUME NEW i \in 1..n
      PROVE  s[i] \in set /\ Cardinality(Before(s[i])) = i - 1
  <2>1. \E x \in set : place[x] = i - 1
    <3>1. i - 1 \in 0..(n - 1)
      BY <1>1
    <3> HIDE DEF place
    <3> QED
      BY <1>6, <3>1 DEF Surjection
  <2>2. \E x \in set : Cardinality(Before(x)) = i - 1
    BY <2>1
  <2>3. s[i] = CHOOSE x \in set : Cardinality(Before(x)) = i - 1
    BY DEF Ranked
  <2> HIDE DEF s, Before
  <2> QED
    BY <2>2, <2>3
<1>8. s \in [1..n -> set]
  <2> DEFINE Chosen(i) == CHOOSE x \in set : Cardinality(Before(x)) = i - 1
  <2>1. s = [i \in 1..n |-> Chosen(i)]
    BY DEF Ranked
  <2> HIDE DEF s, Chosen
  <2>2. \A i \in 1..n : s[i] \in set
    BY <1>7
  <2> QED
    BY <2>1, <2>2
<1>9. s \in Seq(set) /\ Len(s) = n
  <2> HIDE DEF s, n
  <2> QED
    BY <1>1, <1>8
<1>10. ASSUME NEW i \in 1..n, NEW j \in 1..n, i < j
       PROVE  <<s[i], s[j]>> \in order
  <2>1. s[i] \in set /\ s[j] \in set
    BY <1>7
  <2>2. Cardinality(Before(s[i])) = i - 1 /\ Cardinality(Before(s[j])) = j - 1
    BY <1>7
  <2> HIDE DEF s, Before
  <2>3. s[i] # s[j]
    BY <1>1, <1>10, <2>2
  <2>4. <<s[i], s[j]>> \in order \/ <<s[j], s[i]>> \in order
    BY <2>1, <2>3 DEF Orders
  <2>5. CASE <<s[j], s[i]>> \in order
    <3>1. Cardinality(Before(s[j])) < Cardinality(Before(s[i]))
      BY <1>3, <2>1, <2>5
    <3> QED
      BY <1>1, <1>10, <2>2, <3>1
  <2> QED
    BY <2>4, <2>5
<1> QED
  BY <1>9, <1>10

\* What a label is, and that it ends after its decision.
Label == [at: Nat, end: Nat, instrument: Nat, valid: BOOLEAN, reads: Nat]

Forward(l) == l \in Label /\ l.at < l.end

(***************************************************************************)
(* LabelBuilder::build: one label per bar, each looking ahead.             *)
(***************************************************************************)
LEMMA SeriesLabels ==
  ASSUME NEW bars \in SUBSET Nat, IsFiniteSet(bars), NEW h \in Nat \ {0},
         NEW winsorize \in BOOLEAN, NEW instrument \in Nat
  PROVE  LET labels == Labels(bars, h, winsorize, instrument)
         IN  /\ IsFiniteSet(labels)
             /\ \A l \in labels : Forward(l) /\ l.instrument = instrument
             /\ \A l, m \in labels : l.at = m.at => l = m
<1> DEFINE times == Ranked(bars, Earlier(bars))
           n == Len(times)
           LabelAt(i) == LabelOf(times, i, h, winsorize, instrument)
           labels == Labels(bars, h, winsorize, instrument)
           build == [i \in 1..n |-> LabelAt(i)]
<1>1. Orders(Earlier(bars), bars)
  BY DEF Orders, Earlier
<1>2. /\ times \in Seq(bars) /\ n = Cardinality(bars)
      /\ \A i, j \in 1..n : i < j => <<times[i], times[j]>> \in Earlier(bars)
  BY <1>1, RankedFacts
<1>3. n \in Nat /\ \A i \in 1..n : times[i] \in bars
  <2>1. times \in Seq(bars)
    BY <1>2
  <2> HIDE DEF times
  <2> QED
    BY <2>1
<1>4. \A i, j \in 1..n : i < j => times[i] < times[j]
  BY <1>2 DEF Earlier
<1>5. labels = {LabelAt(i) : i \in 1..n}
  BY DEF Labels
<1> HIDE DEF times, n
<1>6. ASSUME NEW i \in 1..n
      PROVE  Forward(LabelAt(i)) /\ LabelAt(i).instrument = instrument /\ LabelAt(i).at = times[i]
  <2>1. times[i] \in Nat
    BY <1>3
  <2>2. Last(times) = times[n] /\ times[n] \in Nat
    <3>1. n \in 1..n
      BY <1>3
    <3>2. Last(times) = times[n]
      BY DEF Last, n
    <3> QED
      BY <1>3, <3>1, <3>2
  <2>3. CASE i + h <= n
    <3>1. i + h \in 1..n /\ i < i + h
      BY <1>3, <2>3
    <3>2. times[i] < times[i + h] /\ times[i + h] \in Nat
      BY <1>3, <1>4, <3>1
    <3>3. LabelAt(i) = [at |-> times[i], end |-> times[i + h], instrument |-> instrument, valid |-> TRUE,
                        reads |-> IF winsorize THEN Last(times) ELSE times[i + h]]
      <4>1. ~(i + h > n)
        BY <1>3, <2>3
      <4> QED
        BY <2>3, <4>1 DEF LabelOf, n
    <3> QED
      BY <2>1, <2>2, <3>2, <3>3 DEF Label, Forward
  <2>4. CASE ~(i + h <= n)
    <3>1. i + h > n /\ (i + h <= n) = FALSE
      BY <1>3, <2>4
    <3>2. LabelAt(i) = [at |-> times[i], end |-> times[i] + 1, instrument |-> instrument,
                        valid |-> i + h <= n, reads |-> times[i]]
      BY <2>4, <3>1 DEF LabelOf, n
    <3> QED
      BY <2>1, <3>2 DEF Label, Forward
  <2> QED
    BY <2>3, <2>4
<1>7. ASSUME NEW i \in 1..n, NEW j \in 1..n, LabelAt(i).at = LabelAt(j).at
      PROVE  i = j
  <2>1. times[i] = times[j] /\ times[i] \in Nat
    BY <1>3, <1>6, <1>7
  <2> QED
    BY <1>3, <1>4, <2>1
<1> HIDE DEF LabelAt
<1>8. IsFiniteSet(labels)
  <2>1. build \in Surjection(1..n, labels)
    BY <1>5 DEF Surjection
  <2>2. IsFiniteSet(1..n)
    BY <1>3, FS_Interval
  <2> HIDE DEF build, labels
  <2> QED
    BY <2>1, <2>2, FS_Surjection
<1> HIDE DEF labels
<1>9. \A l \in labels : Forward(l) /\ l.instrument = instrument
  BY <1>5, <1>6
<1>10. \A l, m \in labels : l.at = m.at => l = m
  BY <1>5, <1>7
<1> QED
  BY <1>8, <1>9, <1>10 DEF labels

\* Observations in the order of their decisions, each before the end of its label.
ObservationsInOrder ==
  /\ observations \in Seq(Label)
  /\ \A i \in DOMAIN observations : observations[i].at < observations[i].end
  /\ \A i, j \in DOMAIN observations : i < j => observations[i].at <= observations[j].at

(***************************************************************************)
(* LabelBuilder::build_panel sorts the labels of all instruments together. *)
(***************************************************************************)
LEMMA PooledInOrder ==
  ASSUME NEW panel \in Panels, NEW h \in Horizons \ {0}, NEW winsorize \in BOOLEAN,
         observations = Pooled(panel, h, winsorize)
  PROVE  ObservationsInOrder
<1> DEFINE Of(k) == Labels(panel[k], h, winsorize, k)
           series == {Of(k) : k \in DOMAIN panel}
           labels == UNION series
<1>1. panel \in Seq(SUBSET Nat) /\ \A k \in DOMAIN panel : IsFiniteSet(panel[k])
  BY PanelsAreFinite
<1>2. /\ DOMAIN panel = 1..Len(panel) /\ Len(panel) \in Nat
      /\ \A k \in DOMAIN panel : k \in Nat /\ panel[k] \in SUBSET Nat
  BY <1>1
<1>3. h \in Nat \ {0}
  BY WalkForwardBounds
<1>4. ASSUME NEW k \in DOMAIN panel
      PROVE  /\ IsFiniteSet(Of(k))
             /\ \A l \in Of(k) : Forward(l) /\ l.instrument = k
             /\ \A l, m \in Of(k) : l.at = m.at => l = m
  BY <1>1, <1>2, <1>3, SeriesLabels
<1>5. observations = Ranked(labels, PanelOrder(labels))
  BY DEF Pooled
<1> HIDE DEF Of
<1>6. IsFiniteSet(labels)
  <2> DEFINE f == [k \in DOMAIN panel |-> Of(k)]
  <2>1. f \in Surjection(DOMAIN panel, series)
    <3>1. f \in [DOMAIN panel -> series]
      OBVIOUS
    <3>2. \A t \in series : \E k \in DOMAIN panel : f[k] = t
      OBVIOUS
    <3> HIDE DEF f, series
    <3> QED
      BY <3>1, <3>2 DEF Surjection
  <2>2. IsFiniteSet(DOMAIN panel)
    BY <1>2, FS_Interval
  <2>3. IsFiniteSet(series)
    <3> HIDE DEF f, series
    <3> QED
      BY <2>1, <2>2, FS_Surjection
  <2>4. \A one \in series : IsFiniteSet(one)
    BY <1>4
  <2> HIDE DEF series
  <2> QED
    BY <2>3, <2>4, FS_UNION
<1>7. \A l \in labels : Forward(l)
  BY <1>4
<1>8. \A l, m \in labels : l.at = m.at /\ l.instrument = m.instrument => l = m
  BY <1>4
<1> HIDE DEF labels
<1>9. Orders(PanelOrder(labels), labels)
  <2>1. \A l \in labels : l.at \in Nat /\ l.instrument \in Nat
    BY <1>7 DEF Forward, Label
  <2> DEFINE Sooner(l, m) == l.at < m.at \/ (l.at = m.at /\ l.instrument < m.instrument)
  <2>2. \A l, m \in labels : <<l, m>> \in PanelOrder(labels) <=> Sooner(l, m)
    BY DEF PanelOrder
  <2>3. \A l \in labels : ~Sooner(l, l)
    BY <2>1
  <2>4. \A l, m, k \in labels : Sooner(l, m) /\ Sooner(m, k) => Sooner(l, k)
    BY <2>1
  <2>5. \A l, m \in labels : l # m => Sooner(l, m) \/ Sooner(m, l)
    BY <1>8, <2>1
  <2> HIDE DEF Sooner
  <2> QED
    BY <2>2, <2>3, <2>4, <2>5 DEF Orders
<1> DEFINE n == Cardinality(labels)
<1>10. /\ observations \in Seq(labels) /\ Len(observations) = n
       /\ \A i, j \in 1..n : i < j => <<observations[i], observations[j]>> \in PanelOrder(labels)
  BY <1>5, <1>6, <1>9, RankedFacts
<1>11. DOMAIN observations = 1..n /\ \A i \in DOMAIN observations : observations[i] \in labels
  BY <1>10
<1>12. observations \in Seq(Label)
  <2>1. labels \subseteq Label
    BY <1>7 DEF Forward
  <2> QED
    BY <1>10, <2>1, SeqMonotonic
<1>13. \A i \in DOMAIN observations : observations[i].at < observations[i].end
  BY <1>7, <1>11 DEF Forward
<1>14. ASSUME NEW i \in DOMAIN observations, NEW j \in DOMAIN observations, i < j
       PROVE  observations[i].at <= observations[j].at
  <2>1. <<observations[i], observations[j]>> \in PanelOrder(labels)
    BY <1>10, <1>11, <1>14
  <2>2. observations[i].at \in Nat /\ observations[j].at \in Nat
    BY <1>7, <1>11 DEF Forward, Label
  <2> QED
    BY <2>1, <2>2 DEF PanelOrder
<1> QED
  BY <1>12, <1>13, <1>14 DEF ObservationsInOrder

Fold == [train: SUBSET Nat, purged: SUBSET Nat, validation: SUBSET Nat, test: SUBSET Nat,
         embargoed: SUBSET Nat]

\* What NoOutcomeLeaks asks of one fold.
Separate(f) ==
  /\ \A i \in f.train, j \in f.validation \cup f.test : i < j /\ ~Meet(i, j)
  /\ \A i \in f.validation, j \in f.test : i < j

\* Every row a fold uses is an observation, and what was evaluated under lock
\* passed the guard.
WalkInv ==
  /\ ObservationsInOrder
  /\ wfConfig \in SplitConfigs /\ boundary \in Nat /\ unlocked \in BOOLEAN
  /\ trainEnd \in Nat /\ (trainEnd > 0 => trainEnd >= wfConfig.warmup + wfConfig.train)
  /\ folds \in Seq(Fold)
  /\ \A k \in DOMAIN folds : /\ Evaluates(folds[k]) \subseteq DOMAIN observations
                             /\ wfConfig.purge => Separate(folds[k])
  /\ \A e \in evaluated : /\ e.rows \subseteq DOMAIN observations
                          /\ e.locked => \A row \in e.rows : ~InHoldout(row)

(***************************************************************************)
(* WalkForwardValidator::split: a training row that is kept ends before    *)
(* the windows begin, or is decided after their first labels end, which a  *)
(* row that comes earlier cannot be.                                       *)
(***************************************************************************)
LEMMA FoldFacts ==
  ASSUME WalkInv, trainEnd > 0, trainEnd + wfConfig.val + wfConfig.test <= Len(observations)
  PROVE  LET fold == FoldAt(trainEnd)
         IN  /\ fold \in Fold /\ Evaluates(fold) \subseteq DOMAIN observations
             /\ wfConfig.purge => Separate(fold)
<1> DEFINE c == wfConfig
           end == trainEnd
           begin == IF c.mode = "rolling" THEN end - c.train ELSE c.warmup
           window == Rows(begin, end - begin)
           testBegin == end + c.val
           testEnd == testBegin + c.test
           purged == IF c.purge
                     THEN {i \in window : \/ Leaks(i, end + 1, testBegin)
                                          \/ Leaks(i, testBegin + 1, testEnd)}
                     ELSE {}
           fold == FoldAt(end)
           N == Len(observations)
<1>1. /\ c \in [mode: {"rolling", "expanding"}, train: Nat, val: Nat, test: Nat, step: Nat, warmup: Nat,
                embargo: Nat, minTrain: Nat, purge: BOOLEAN]
      /\ end \in Nat /\ end >= c.warmup + c.train /\ end > 0
  BY WindowsAreNatural DEF WalkInv
<1>2. /\ c.train \in Nat /\ c.val \in Nat /\ c.test \in Nat /\ c.warmup \in Nat /\ c.embargo \in Nat
      /\ c.purge \in BOOLEAN
  BY <1>1
<1>3. begin \in Nat /\ begin <= end /\ testBegin \in Nat /\ testEnd \in Nat /\ end <= testBegin
      /\ testBegin <= testEnd
  BY <1>1, <1>2
<1>4. N \in Nat /\ DOMAIN observations = 1..N /\ testEnd <= N
  BY DEF WalkInv, ObservationsInOrder
<1>5. fold = [train |-> window \ purged, purged |-> purged, validation |-> Rows(end, c.val),
              test |-> Rows(testBegin, c.test),
              embargoed |-> Rows(testEnd, c.embargo) \cap DOMAIN observations]
  BY DEF FoldAt
<1> HIDE DEF begin, fold
<1>6. window = (begin + 1)..end
  BY <1>1, <1>3 DEF Rows
<1>7. Rows(end, c.val) = (end + 1)..testBegin /\ Rows(testBegin, c.test) = (testBegin + 1)..testEnd
  BY DEF Rows
<1>8. Rows(testEnd, c.embargo) \subseteq Nat
  BY <1>2, <1>3 DEF Rows
<1> HIDE DEF testBegin, testEnd, window, N
<1>9. window \subseteq 1..N /\ (end + 1)..testBegin \subseteq 1..N /\ (testBegin + 1)..testEnd \subseteq 1..N
  BY <1>1, <1>3, <1>4, <1>6
<1>10. purged \subseteq window
  OBVIOUS
<1>11. ASSUME c.purge, NEW i \in window \ purged
       PROVE  ~Leaks(i, end + 1, testBegin) /\ ~Leaks(i, testBegin + 1, testEnd)
  BY <1>11
<1> HIDE DEF purged
<1>12. fold \in Fold
  <2>1. window \subseteq Nat /\ (end + 1)..testBegin \subseteq Nat /\ (testBegin + 1)..testEnd \subseteq Nat
    BY <1>4, <1>9
  <2> QED
    BY <1>5, <1>7, <1>8, <1>10, <2>1 DEF Fold
<1>13. Evaluates(fold) \subseteq DOMAIN observations
  BY <1>4, <1>5, <1>7, <1>9, <1>10 DEF Evaluates
<1>14. \A i \in 1..N : observations[i].at \in Nat /\ observations[i].end \in Nat
                       /\ observations[i].at < observations[i].end
  <2>1. \A i \in 1..N : observations[i] \in Label
    BY <1>4 DEF WalkInv, ObservationsInOrder
  <2> QED
    BY <1>4, <2>1 DEF WalkInv, ObservationsInOrder, Label
<1>15. \A i, j \in 1..N : i < j => observations[i].at <= observations[j].at
  BY <1>4 DEF WalkInv, ObservationsInOrder
<1>16. ASSUME NEW i \in 1..N, NEW from \in 1..N, NEW to \in 1..N, NEW j \in from..to,
              i < from, i < to, ~Leaks(i, from, to)
       PROVE  ~Meet(i, j)
  <2>1. j \in 1..N /\ from <= j
    BY <1>4
  <2>2. observations[i].at <= observations[to].at /\ observations[from].at <= observations[j].at
    BY <1>14, <1>15, <1>16, <2>1
  <2>3. observations[i].at < observations[to].end
    BY <1>14, <2>2
  <2>4. ~(observations[from].at < observations[i].end)
    BY <1>16, <2>3 DEF Leaks, Overlaps
  <2>5. /\ observations[i].end \in Nat /\ observations[from].at \in Nat
        /\ observations[j].at \in Nat
    BY <1>14, <2>1
  <2>6. observations[i].end <= observations[j].at
    BY <2>2, <2>4, <2>5
  <2> QED
    BY <2>5, <2>6 DEF Meet
<1>17. ASSUME c.purge PROVE Separate(fold)
  <2>1. ASSUME NEW i \in window \ purged, NEW j \in (end + 1)..testBegin
        PROVE  i < j /\ ~Meet(i, j)
    <3>1. i \in 1..N /\ i <= end /\ end + 1 \in 1..N /\ testBegin \in 1..N /\ i < end + 1 /\ i < testBegin
          /\ i < j
      BY <1>1, <1>3, <1>4, <1>6, <1>9
    <3> QED
      BY <1>11, <1>16, <1>17, <3>1
  <2>2. ASSUME NEW i \in window \ purged, NEW j \in (testBegin + 1)..testEnd
        PROVE  i < j /\ ~Meet(i, j)
    <3>1. i \in 1..N /\ i <= end /\ testBegin + 1 \in 1..N /\ testEnd \in 1..N /\ i < testBegin + 1
          /\ i < testEnd /\ i < j
      BY <1>1, <1>3, <1>4, <1>6, <1>9
    <3> QED
      BY <1>11, <1>16, <1>17, <3>1
  <2>3. \A i \in (end + 1)..testBegin, j \in (testBegin + 1)..testEnd : i < j
    BY <1>1, <1>3
  <2> QED
    BY <1>5, <1>7, <2>1, <2>2, <2>3 DEF Separate
<1> QED
  BY <1>12, <1>13, <1>17 DEF fold

(***************************************************************************)
(* The invariant holds at the start and is kept by every step.             *)
(***************************************************************************)
LEMMA WalkInvHolds == WalkForwardSpec => []WalkInv
<1>1. WalkForwardInit => WalkInv
  <2> SUFFICES ASSUME WalkForwardInit PROVE WalkInv
    OBVIOUS
  <2>1. ObservationsInOrder
    BY PooledInOrder DEF WalkForwardInit
  <2>2. /\ wfConfig \in SplitConfigs /\ boundary \in Nat /\ unlocked \in BOOLEAN
        /\ trainEnd = 0 /\ evaluated = {}
    BY WalkForwardBounds DEF WalkForwardInit
  <2>3. folds \in Seq(Fold) /\ DOMAIN folds = {}
    BY DEF WalkForwardInit
  <2> QED
    BY <2>1, <2>2, <2>3 DEF WalkInv
<1>2. WalkInv /\ [WalkForwardNext]_walkForwardVars => WalkInv'
  <2> SUFFICES ASSUME WalkInv, [WalkForwardNext]_walkForwardVars PROVE WalkInv'
    OBVIOUS
  <2>1. /\ ObservationsInOrder
        /\ wfConfig \in SplitConfigs /\ boundary \in Nat /\ unlocked \in BOOLEAN
        /\ trainEnd \in Nat /\ folds \in Seq(Fold)
        /\ trainEnd > 0 => trainEnd >= wfConfig.warmup + wfConfig.train
    BY DEF WalkInv
  <2>2. wfConfig.warmup \in Nat /\ wfConfig.train \in Nat /\ wfConfig.step \in Nat
    BY <2>1, WindowsAreNatural
  <2>3. UNCHANGED <<observations, wfConfig, boundary>>
    BY DEF WalkForwardNext, StartSplit, NextFold, Unlock, Evaluate, walkForwardVars
  <2>4. ObservationsInOrder'
    BY <2>1, <2>3 DEF ObservationsInOrder
  <2>5. ASSUME UNCHANGED <<observations, wfConfig, boundary, folds, evaluated>>
        PROVE  /\ \A k \in DOMAIN folds' : /\ Evaluates(folds'[k]) \subseteq DOMAIN observations'
                                           /\ wfConfig'.purge => Separate(folds[k])'
               /\ \A e \in evaluated' : /\ e.rows \subseteq DOMAIN observations'
                                        /\ e.locked => \A row \in e.rows : InHoldout(row)' = InHoldout(row)
                                        /\ e.locked => \A row \in e.rows : ~InHoldout(row)
    BY <2>5 DEF WalkInv, Evaluates, Separate, Meet, InHoldout, IsHoldout
  <2>6. CASE StartSplit
    <3>1. /\ UNCHANGED <<unlocked, folds, evaluated>> /\ trainEnd' \in Nat
          /\ trainEnd' >= wfConfig.warmup + wfConfig.train
      BY <2>2, <2>6 DEF StartSplit
    <3> QED
      BY <2>1, <2>3, <2>4, <2>5, <3>1 DEF WalkInv, Evaluates
  <2>7. CASE NextFold
    <3> DEFINE fold == FoldAt(trainEnd)
    <3>1. /\ fold \in Fold /\ Evaluates(fold) \subseteq DOMAIN observations
          /\ wfConfig.purge => Separate(fold)
      BY <2>7, FoldFacts DEF NextFold
    <3>2. UNCHANGED <<unlocked, evaluated>> /\ trainEnd' = trainEnd + wfConfig.step
      BY <2>7 DEF NextFold
    <3>3. folds' = folds \/ folds' = Append(folds, fold)
      BY <2>7 DEF NextFold
    <3> HIDE DEF fold
    <3>4. folds' \in Seq(Fold) /\ \A k \in DOMAIN folds' : folds'[k] = fold \/ \E l \in DOMAIN folds : folds'[k] = folds[l]
      <4>1. CASE folds' = folds
        BY <2>1, <4>1
      <4>2. CASE folds' = Append(folds, fold)
        <5>1. \A k \in DOMAIN folds' : (k \in DOMAIN folds /\ folds'[k] = folds[k]) \/ folds'[k] = fold
          BY <2>1, <3>1, <4>2
        <5> QED
          BY <2>1, <3>1, <4>2, <5>1
      <4> QED
        BY <3>3, <4>1, <4>2
    <3>5. \A k \in DOMAIN folds' : /\ Evaluates(folds'[k]) \subseteq DOMAIN observations
                                   /\ wfConfig.purge => Separate(folds'[k])
      BY <3>1, <3>4 DEF WalkInv
    <3>6. \A f : Separate(f) => /\ \A i \in f.train, j \in f.validation \cup f.test : i < j /\ ~Meet(i, j)'
                                /\ \A i \in f.validation, j \in f.test : i < j
      BY <2>3 DEF Separate, Meet
    <3>7. \A k \in DOMAIN folds' : /\ (Evaluates(folds[k]) \subseteq DOMAIN observations)'
                                   /\ (wfConfig.purge => Separate(folds[k]))'
      BY <2>3, <3>5, <3>6 DEF Separate, Evaluates
    <3>8. \A e \in evaluated' : /\ e.rows \subseteq DOMAIN observations'
                                /\ e.locked => \A row \in e.rows : ~InHoldout(row)'
      BY <2>3, <3>2 DEF WalkInv, InHoldout, IsHoldout
    <3>9. trainEnd' \in Nat /\ (trainEnd' > 0 => trainEnd' >= wfConfig.warmup + wfConfig.train)
      BY <2>1, <2>2, <2>7, <3>2 DEF NextFold
    <3> QED
      BY <2>1, <2>3, <2>4, <3>2, <3>4, <3>7, <3>8, <3>9 DEF WalkInv
  <2>8. CASE Unlock
    <3>1. unlocked' \in BOOLEAN /\ UNCHANGED <<trainEnd, folds, evaluated>>
      BY <2>8 DEF Unlock
    <3> QED
      BY <2>1, <2>3, <2>4, <2>5, <3>1 DEF WalkInv, Evaluates
  <2>9. CASE Evaluate
    <3>1. UNCHANGED <<unlocked, trainEnd, folds>>
      BY <2>9 DEF Evaluate
    <3>2. PICK fold \in ToSet(folds) :
            /\ unlocked \/ \A row \in Evaluates(fold) : ~InHoldout(row)
            /\ evaluated' = evaluated \cup {[rows |-> Evaluates(fold), locked |-> ~unlocked]}
      BY <2>9 DEF Evaluate
    <3>3. Evaluates(fold) \subseteq DOMAIN observations
      BY DEF WalkInv, ToSet
    <3> DEFINE now == [rows |-> Evaluates(fold), locked |-> ~unlocked]
    <3>4. \A e \in evaluated' : /\ e.rows \subseteq DOMAIN observations
                                /\ e.locked => \A row \in e.rows : ~InHoldout(row)
      <4>1. now.rows = Evaluates(fold) /\ (now.locked <=> ~unlocked)
        OBVIOUS
      <4> HIDE DEF now
      <4>2. \A e \in evaluated' : e \in evaluated \/ e = now
        BY <3>2 DEF now
      <4>3. now.rows \subseteq DOMAIN observations /\ (now.locked => \A row \in now.rows : ~InHoldout(row))
        BY <3>2, <3>3, <4>1
      <4> QED
        BY <4>2, <4>3 DEF WalkInv
    <3>5. \A row : InHoldout(row)' = InHoldout(row)
      BY <2>3 DEF InHoldout, IsHoldout
    <3>6. \A k \in DOMAIN folds' : /\ (Evaluates(folds[k]) \subseteq DOMAIN observations)'
                                   /\ (wfConfig.purge => Separate(folds[k]))'
      BY <2>3, <3>1 DEF WalkInv, Evaluates, Separate, Meet
    <3> QED
      BY <2>1, <2>3, <2>4, <3>1, <3>4, <3>5, <3>6 DEF WalkInv
  <2>10. CASE UNCHANGED walkForwardVars
    BY <2>1, <2>3, <2>4, <2>5, <2>10 DEF WalkInv, Evaluates, walkForwardVars
  <2> QED
    BY <2>6, <2>7, <2>8, <2>9, <2>10 DEF WalkForwardNext
<1> QED
  BY <1>1, <1>2, PTL DEF WalkForwardSpec

(***************************************************************************)
(* No training row sees an outcome of the rows its fold is validated or    *)
(* tested on, and nothing of a locked holdout enters an evaluation.        *)
(***************************************************************************)
THEOREM NoLookAhead == WalkForwardSpec => []NoFutureIsSeen
<1>1. WalkInv => NoOutcomeLeaks
  BY DEF WalkInv, NoOutcomeLeaks, Separate
<1>2. WalkInv => HoldoutUntouched
  <2> SUFFICES ASSUME WalkInv, NEW e \in evaluated, e.locked, NEW row \in e.rows,
                      observations[row].reads <= observations[row].end
               PROVE  ~IsHoldout(observations[row].reads)
    BY DEF HoldoutUntouched
  <2>1. row \in DOMAIN observations /\ ~InHoldout(row) /\ boundary \in Nat
    BY DEF WalkInv
  <2>2. observations[row] \in Label
    BY <2>1 DEF WalkInv, ObservationsInOrder
  <2>3. observations[row].reads \in Nat /\ observations[row].end \in Nat
    BY <2>2 DEF Label
  <2> QED
    BY <2>1, <2>3 DEF InHoldout, IsHoldout
<1> QED
  BY <1>1, <1>2, WalkInvHolds, PTL DEF NoFutureIsSeen

-----------------------------------------------------------------------------
(***************************************************************************)
(* StoredState, the file of a session.  What decides is the checksum: it   *)
(* is that of the saved state or gone, so a file that is accepted agrees   *)
(* with the saved state in every field the checksum covers; and of an      *)
(* undamaged file the other fields are read as they were written.          *)
(***************************************************************************)

States == {s \in [Fields -> Nat \cup {Quoted, NotFinite}] : \A f \in Counts \cup Times : s[f] \in Nat}

FileInv ==
  /\ saved \in States \cup {NothingRead}
  /\ saved = NothingRead => loaded = NothingRead
  /\ saved # NothingRead =>
       /\ stateFile.sum \subseteq {ChecksumOf(saved)}
       /\ damaged = {} => stateFile.fields = [f \in Fields |-> Written(saved[f])]
  /\ StateReadsBack

(***************************************************************************)
(* A value the state can have is written as itself or as something that    *)
(* cannot be read.                                                         *)
(***************************************************************************)
LEMMA WrittenFacts ==
  ASSUME NEW v \in Nat \cup {Quoted, NotFinite}
  PROVE  /\ v \in Nat => Written(v) = v /\ Readable(Written(v))
         /\ v \notin Nat => ~Readable(Written(v))
         /\ v = Quoted <=> Written(v) = Quoted
BY DEF Written, Readable, Quoted, NotFinite, Garbled

(***************************************************************************)
(* from_json() of an undamaged file.                                       *)
(***************************************************************************)
LEMMA ReadBack ==
  ASSUME NEW state \in States, NEW fields, fields = [f \in Fields |-> Written(state[f])],
         NEW read, read = [f \in Fields |-> ReadField(fields, f)]
  PROVE  /\ (\A f \in Fields : state[f] \in Nat) => read = state
         /\ ChecksumOf(read) = ChecksumOf(state) /\ (\A f \in Required \ {"session_id"} : Readable(read[f]))
              => read = state
<1>1. \A f \in Fields : /\ state[f] \in Nat \cup {Quoted, NotFinite}
                        /\ fields[f] = Written(state[f])
                        /\ read[f] = ReadField(fields, f)
  BY DEF States
<1>2. \A f \in Fields : /\ state[f] \in Nat => fields[f] = state[f] /\ Readable(fields[f])
                        /\ state[f] \notin Nat => ~Readable(fields[f])
                        /\ state[f] = Quoted <=> fields[f] = Quoted
  BY <1>1, WrittenFacts
<1>3. \A f \in Counts \cup Times : state[f] \in Nat
  BY DEF States
<1>4. state = [f \in Fields |-> state[f]]
  BY DEF States
<1>5. ASSUME \A f \in Fields : state[f] \in Nat
      PROVE  read = state
  <2>1. ASSUME NEW f \in Fields PROVE ReadField(fields, f) = state[f]
    <3>1. PositionFields \subseteq Fields /\ OrderFields \subseteq Fields
      BY DEF Fields
    <3>2. \A g \in Fields : fields[g] = state[g] /\ Readable(fields[g]) /\ fields[g] # Quoted
      BY <1>2, <1>5 DEF Quoted
    <3>3. ReadEntry(fields, PositionFields, f) = state[f] /\ ReadEntry(fields, OrderFields, f) = state[f]
      BY <3>1, <3>2 DEF ReadEntry
    <3> QED
      BY <3>2, <3>3 DEF ReadField, ReadName
  <2> QED
    BY <1>1, <1>4, <2>1
<1>6. ASSUME ChecksumOf(read) = ChecksumOf(state), \A f \in Required \ {"session_id"} : Readable(read[f])
      PROVE  read = state
  <2>1. \A f \in ChecksumFields : f \in Fields /\ read[f] = state[f]
    <3>1. \A f \in ChecksumFields : ChecksumOf(read)[f] = read[f] /\ ChecksumOf(state)[f] = state[f]
      BY DEF ChecksumOf
    <3>2. ChecksumFields \subseteq Fields
      BY DEF ChecksumFields, Fields
    <3> QED
      BY <1>6, <3>1, <3>2
  <2>2. state["session_id"] \in Nat
    <3>1. "session_id" \in Fields /\ "session_id" \in ChecksumFields
      BY DEF Fields, ChecksumFields, Required
    <3>2. ReadField(fields, "session_id") = ReadName(fields["session_id"])
      BY DEF ReadField, PositionFields, OrderFields, Required
    <3>3. read["session_id"] = state["session_id"] /\ read["session_id"] = ReadName(fields["session_id"])
      BY <1>1, <2>1, <3>1, <3>2
    <3>4. /\ state["session_id"] \in Nat \cup {Quoted, NotFinite}
          /\ fields["session_id"] = Written(state["session_id"])
      BY <1>1, <3>1
    <3> QED
      BY <3>3, <3>4 DEF ReadName, Written, Quoted, NotFinite, Garbled
  <2>3. \A f \in Required : state[f] \in Nat
    <3>1. \A f \in Required \ {"session_id"} : f \in Fields /\ read[f] = state[f] /\ Readable(state[f])
      BY <1>6, <2>1 DEF Required, ChecksumFields, Fields
    <3>2. \A f \in Required \ {"session_id"} : state[f] \in Nat
      BY <1>1, <3>1 DEF Readable, Quoted, NotFinite
    <3> QED
      BY <2>2, <3>2
  <2>4. \A f \in Amounts : state[f] \in Nat
    <3> SUFFICES ASSUME NEW f \in Amounts PROVE state[f] \in Nat
      OBVIOUS
    <3>1. f \in Fields /\ f \in ChecksumFields
      BY DEF Fields, ChecksumFields
    <3>2. ReadField(fields, f) = IF Readable(fields[f]) THEN fields[f] ELSE AsZero
      BY DEF ReadField, Amounts, PositionFields, OrderFields, Required
    <3>3. read[f] = state[f] /\ state[f] \in Nat \cup {Quoted, NotFinite} /\ read[f] = ReadField(fields, f)
      BY <1>1, <2>1, <3>1
    <3>4. state[f] \notin Nat => read[f] = 0
      BY <1>2, <3>1, <3>2, <3>3 DEF AsZero
    <3> QED
      BY <3>3, <3>4 DEF Quoted, NotFinite
  <2>5. \A f \in PositionFields : state[f] \in Nat
    <3>1. PositionFields \subseteq Fields /\ "instrument" \in ChecksumFields /\ "instrument" \in PositionFields
      BY DEF Fields, ChecksumFields, PositionFields
    <3>2. ReadField(fields, "instrument") = ReadEntry(fields, PositionFields, "instrument")
      BY DEF ReadField, PositionFields, OrderFields, Required
    <3>3. read["instrument"] = state["instrument"] /\ state["instrument"] \in Nat \cup {Quoted, NotFinite}
          /\ read["instrument"] = ReadEntry(fields, PositionFields, "instrument")
      BY <1>1, <2>1, <3>1, <3>2
    <3>4. \A g \in PositionFields : Readable(fields[g])
      BY <3>3 DEF ReadEntry, Gone, Quoted, NotFinite
    <3> QED
      BY <1>2, <3>1, <3>4
  <2>6. \A f \in OrderFields : state[f] \in Nat
    <3>1. OrderFields \subseteq Fields /\ "order_id" \in ChecksumFields /\ "order_id" \in OrderFields
      BY DEF Fields, ChecksumFields, OrderFields
    <3>2. ReadField(fields, "order_id") = ReadEntry(fields, OrderFields, "order_id")
      BY DEF ReadField, PositionFields, OrderFields, Required
    <3>3. read["order_id"] = state["order_id"] /\ state["order_id"] \in Nat \cup {Quoted, NotFinite}
          /\ read["order_id"] = ReadEntry(fields, OrderFields, "order_id")
      BY <1>1, <2>1, <3>1, <3>2
    <3>4. \A g \in OrderFields : Readable(fields[g])
      BY <3>3 DEF ReadEntry, Gone, Quoted, NotFinite
    <3> QED
      BY <1>2, <3>1, <3>4
  <2>7. \A f \in Fields : state[f] \in Nat
    BY <1>3, <2>3, <2>4, <2>5, <2>6 DEF Fields
  <2> QED
    BY <1>5, <2>7
<1> QED
  BY <1>5, <1>6

(***************************************************************************)
(* from_json() of any file: what the checksum covers is as it was saved.   *)
(***************************************************************************)
LEMMA LoadKeepsWord == FileInv /\ Load => StateReadsBack'
<1> SUFFICES ASSUME FileInv, Load PROVE StateReadsBack'
  OBVIOUS
<1> DEFINE fields == [f \in Fields |-> ReadField(stateFile.fields, f)]
           unreadable == \/ stateFile.fields["session_id"] = Gone
                         \/ \E f \in Required \ {"session_id"} : ~Readable(fields[f])
<1>1. /\ saved # NothingRead /\ UNCHANGED <<saved, stateFile, damaged>>
      /\ loaded' = IF unreadable \/ ChecksumOf(fields) \notin stateFile.sum
                   THEN Refused ELSE [refused |-> FALSE, fields |-> fields]
  BY DEF Load
<1>2. saved \in States /\ stateFile.sum \subseteq {ChecksumOf(saved)}
  BY <1>1 DEF FileInv
<1> DEFINE whole == damaged = {} /\ stateFile.sum # {}
           odd == \E f \in Fields : saved[f] \in {Quoted, NotFinite}
<1>3. whole => stateFile.fields = [f \in Fields |-> Written(saved[f])]
  BY <1>1 DEF FileInv
<1>4. whole => /\ ~odd => fields = saved
               /\ ~unreadable /\ ChecksumOf(fields) \in stateFile.sum => fields = saved
  <2> SUFFICES ASSUME whole
               PROVE  /\ ~odd => fields = saved
                      /\ ~unreadable /\ ChecksumOf(fields) \in stateFile.sum => fields = saved
    OBVIOUS
  <2>1. stateFile.fields = [f \in Fields |-> Written(saved[f])]
    BY <1>3
  <2>2. fields = [f \in Fields |-> ReadField(stateFile.fields, f)]
    OBVIOUS
  <2> HIDE DEF fields
  <2>3. /\ (\A f \in Fields : saved[f] \in Nat) => fields = saved
        /\ ChecksumOf(fields) = ChecksumOf(saved) /\ (\A f \in Required \ {"session_id"} : Readable(fields[f]))
              => fields = saved
    BY <1>2, <2>1, <2>2, ReadBack
  <2>4. ~odd => \A f \in Fields : saved[f] \in Nat
    BY <1>2 DEF States
  <2> QED
    BY <1>2, <2>3, <2>4
<1>5. ~odd /\ whole => ~unreadable /\ ChecksumOf(fields) \in stateFile.sum
  <2> SUFFICES ASSUME ~odd, whole PROVE ~unreadable /\ ChecksumOf(fields) \in stateFile.sum
    OBVIOUS
  <2>1. fields = saved
    BY <1>4
  <2>2. stateFile.sum = {ChecksumOf(saved)}
    BY <1>2
  <2>3. \A f \in Fields : saved[f] \in Nat
    BY <1>2 DEF States
  <2>4. Required \subseteq Fields /\ "session_id" \in Fields
    BY DEF Fields, Required
  <2>5. stateFile.fields["session_id"] = Written(saved["session_id"])
    BY <1>3, <2>4
  <2>6. stateFile.fields["session_id"] # Gone
    BY <2>3, <2>4, <2>5 DEF Written, Quoted, NotFinite, Garbled, Gone
  <2>7. \A f \in Required : Readable(saved[f])
    BY <2>3, <2>4 DEF Readable
  <2> HIDE DEF fields
  <2> QED
    BY <2>1, <2>2, <2>6, <2>7
<1>6. CASE unreadable \/ ChecksumOf(fields) \notin stateFile.sum
  <2>1. loaded' = Refused
    BY <1>1, <1>6
  <2>2. "fields" \notin DOMAIN loaded'
    BY <2>1 DEF Refused
  <2>3. ~(~odd /\ whole)
    BY <1>5, <1>6
  <2> HIDE DEF fields, unreadable
  <2> QED
    BY <1>1, <2>2, <2>3 DEF StateReadsBack
<1>7. CASE ~unreadable /\ ChecksumOf(fields) \in stateFile.sum
  <2>1. loaded' = [refused |-> FALSE, fields |-> fields]
    BY <1>1, <1>7
  <2>2. whole => fields = saved
    BY <1>4, <1>7
  <2>3. ChecksumOf(fields) = ChecksumOf(saved)
    BY <1>2, <1>7
  <2> HIDE DEF fields, unreadable
  <2>4. \A f \in ChecksumFields : fields[f] = saved[f]
    <3>1. \A f \in ChecksumFields : ChecksumOf(fields)[f] = fields[f] /\ ChecksumOf(saved)[f] = saved[f]
      BY DEF ChecksumOf
    <3> QED
      BY <2>3, <3>1
  <2>5. \A f \in {"session_id", "sequence", "config_fingerprint", "events_processed",
                  "cash", "equity", "instrument", "quantity", "average_cost",
                  "order_id", "order_quantity", "filled"} : fields[f] = saved[f]
    BY <2>4 DEF ChecksumFields, Required, Amounts, PositionFields, OrderFields
  <2>6. loaded' # Refused /\ loaded'.fields = fields
    <3>1. loaded'.refused = FALSE
      BY <2>1
    <3>2. Refused.refused = TRUE
      BY DEF Refused
    <3> QED
      BY <2>1, <3>1, <3>2
  <2> QED
    BY <1>1, <2>2, <2>5, <2>6 DEF StateReadsBack
<1> QED
  BY <1>6, <1>7

(***************************************************************************)
(* The invariant of the file.                                              *)
(***************************************************************************)
LEMMA FileInvHolds == StateFileSpec => []FileInv
<1>0. NothingRead # Refused /\ "fields" \notin DOMAIN NothingRead /\ NothingRead \notin States
  <2>1. NothingRead.refused = FALSE /\ Refused.refused = TRUE
    BY DEF NothingRead, Refused
  <2>2. DOMAIN NothingRead = {"refused"}
    BY DEF NothingRead
  <2>3. \A s \in States : DOMAIN s = Fields
    BY DEF States
  <2>4. "refused" \notin Fields
    BY DEF Fields, Required, Counts, Times, Amounts, PositionFields, OrderFields
  <2> QED
    BY <2>1, <2>2, <2>3, <2>4
<1>1. StateFileInit => FileInv
  BY <1>0 DEF StateFileInit, FileInv, StateReadsBack
<1>2. FileInv /\ [StateFileNext]_stateVars => FileInv'
  <2> SUFFICES ASSUME FileInv, [StateFileNext]_stateVars PROVE FileInv'
    OBVIOUS
  <2>1. ASSUME NEW state \in SavedStates, Save(state) PROVE FileInv'
    <3>1. state \in States
      BY StatesHaveFields DEF States
    <3>2. /\ saved' = state /\ loaded' = NothingRead /\ damaged' = {}
          /\ stateFile' = [fields |-> [f \in Fields |-> Written(state[f])], sum |-> {ChecksumOf(state)}]
      BY <2>1 DEF Save
    <3>3. stateFile'.sum = {ChecksumOf(state)} /\ stateFile'.fields = [f \in Fields |-> Written(state[f])]
      BY <3>2
    <3>4. StateReadsBack'
      BY <1>0, <3>2 DEF StateReadsBack
    <3> QED
      BY <1>0, <3>1, <3>2, <3>3, <3>4 DEF FileInv
  <2>2. CASE Load
    <3>1. saved # NothingRead /\ UNCHANGED <<saved, stateFile, damaged>>
      BY <2>2 DEF Load
    <3> QED
      BY <2>2, <3>1, LoadKeepsWord DEF FileInv
  <2>3. ASSUME NEW f \in Fields, DamageField(f) PROVE FileInv'
    <3>1. /\ saved # NothingRead /\ loaded = NothingRead /\ UNCHANGED <<saved, loaded>>
          /\ damaged' = damaged \cup {f}
          /\ \E value \in {7, Garbled} : stateFile' = [stateFile EXCEPT !.fields[f] = value]
      BY <2>3 DEF DamageField
    <3>2. stateFile'.sum = stateFile.sum \/ stateFile'.sum \subseteq stateFile.sum
      BY <3>1
    <3>3. StateReadsBack'
      BY <1>0, <3>1 DEF StateReadsBack
    <3>4. damaged' # {}
      BY <3>1
    <3> QED
      BY <3>1, <3>2, <3>3, <3>4 DEF FileInv
  <2>4. CASE Truncate
    <3>1. /\ saved # NothingRead /\ loaded = NothingRead /\ UNCHANGED <<saved, loaded, damaged>>
          /\ stateFile' = [stateFile EXCEPT !.sum = {}]
      BY <2>4 DEF Truncate
    <3>2. stateFile'.sum \subseteq {} /\ stateFile'.fields = stateFile.fields
      BY <3>1
    <3>3. StateReadsBack'
      BY <1>0, <3>1 DEF StateReadsBack
    <3> QED
      BY <3>1, <3>2, <3>3 DEF FileInv
  <2>5. CASE UNCHANGED stateVars
    BY <2>5 DEF FileInv, StateReadsBack, stateVars
  <2> QED
    BY <2>1, <2>2, <2>3, <2>4, <2>5 DEF StateFileNext
<1> QED
  BY <1>1, <1>2, PTL DEF StateFileSpec

-----------------------------------------------------------------------------
(***************************************************************************)
(* StoredState, the snapshots of an experiment.  Between the moment the    *)
(* temporary file is complete and its rename, the run does not move, so    *)
(* what is renamed is a snapshot of it, unless the write was lost when the *)
(* stream was closed.                                                      *)
(***************************************************************************)

Snapshots == [kind: {"snapshot"}, id: ExperimentIds, fingerprint: Fingerprints, events: Nat]

Paths == ExperimentIds \X {"snapshot.json", "snapshot.json.tmp"}

Process == [on: {TRUE}, fingerprint: Fingerprints, events: Nat, from: Snapshots \cup {Absent}]

ResumeInv ==
  /\ files \in [Paths -> Snapshots \cup {Absent, Torn}]
  /\ process \in [ExperimentIds -> Process \cup {NoProcess}]
  /\ saving \in [ExperimentIds -> {"idle", "open", "closed"}]
  /\ DOMAIN renamed = ExperimentIds
  /\ \A id \in ExperimentIds :
       /\ saving[id] # "idle" => Running(id)
       /\ saving[id] = "closed" /\ id \notin lostFlush => files[Temp(id)] = SnapshotOf(id)
  /\ ResumesWhatWasSaved

(***************************************************************************)
(* The paths of the store and what a run is.                               *)
(***************************************************************************)
LEMMA PathFacts ==
  ASSUME NEW id \in ExperimentIds
  PROVE  /\ Final(id) \in Paths /\ Temp(id) \in Paths
         /\ \A other \in ExperimentIds : /\ Final(id) # Temp(other)
                                         /\ Final(id) = Final(other) => id = other
                                         /\ Temp(id) = Temp(other) => id = other
BY DEF Final, Temp, Paths

(***************************************************************************)
(* What a run's record holds, taken apart once for the steps below.        *)
(***************************************************************************)
LEMMA RunFacts ==
  ASSUME ResumeInv, NEW id \in ExperimentIds
  PROVE  /\ process[id].on \in BOOLEAN
         /\ Running(id) => process[id] \in Process /\ SnapshotOf(id) \in Snapshots
<1>1. process[id] \in Process \cup {NoProcess}
  BY DEF ResumeInv
<1>2. NoProcess.on = FALSE
  BY DEF NoProcess
<1>3. process[id] \in Process => /\ process[id].on = TRUE
                                 /\ process[id].fingerprint \in Fingerprints /\ process[id].events \in Nat
  BY DEF Process
<1> QED
  BY <1>1, <1>2, <1>3 DEF Running, SnapshotOf, Snapshots

(***************************************************************************)
(* What a started run continues is a snapshot of its own.                  *)
(***************************************************************************)
LEMMA StartedKeeps ==
  ASSUME ResumeInv, NEW id \in ExperimentIds, NEW fingerprint \in Fingerprints, NEW events \in Nat,
         NEW from \in Snapshots \cup {Absent}, Started(id, fingerprint, events, from), ~Running(id),
         from # Absent => from.id = id /\ from.fingerprint = fingerprint /\ events >= from.events
  PROVE  ResumeInv'
<1> DEFINE run == [on |-> TRUE, fingerprint |-> fingerprint, events |-> events, from |-> from]
<1>1. process' = [process EXCEPT ![id] = run] /\ UNCHANGED <<files, saving, renamed, lostFlush>>
  BY DEF Started
<1>2. run \in Process /\ run.on /\ run.fingerprint = fingerprint /\ run.events = events /\ run.from = from
  BY DEF Process
<1> HIDE DEF run
<1>3. /\ process' \in [ExperimentIds -> Process \cup {NoProcess}]
      /\ process'[id] = run /\ \A o \in ExperimentIds \ {id} : process'[o] = process[o]
  BY <1>1, <1>2 DEF ResumeInv
<1>4. saving[id] = "idle"
  BY DEF ResumeInv
<1>5. \A o \in ExperimentIds : /\ saving'[o] # "idle" => process'[o].on
                               /\ saving'[o] = "closed" /\ o \notin lostFlush' => files'[Temp(o)] = SnapshotOf(o)'
  BY <1>1, <1>3, <1>4 DEF ResumeInv, Running, SnapshotOf
<1>6. ResumesWhatWasSaved'
  BY <1>1, <1>2, <1>3 DEF ResumeInv, ResumesWhatWasSaved, Running
<1> QED
  BY <1>1, <1>3, <1>5, <1>6 DEF ResumeInv, Running

(***************************************************************************)
(* load_snapshot and can_resume.                                           *)
(***************************************************************************)
LEMMA StepStartRun ==
  ASSUME ResumeInv, NEW id \in ExperimentIds, NEW fingerprint \in Fingerprints,
         StartRun(id, fingerprint) \/ StartAfresh(id, fingerprint)
  PROVE  ResumeInv'
<1>1. ~Running(id)
  BY DEF StartRun, StartAfresh
<1>2. CASE Started(id, fingerprint, 0, Absent)
  BY <1>1, <1>2, StartedKeeps
<1>3. CASE /\ Intact(files[Final(id)]) /\ CanResume(id, fingerprint, files[Final(id)])
           /\ Started(id, fingerprint, files[Final(id)].events, files[Final(id)])
  <2> DEFINE file == files[Final(id)]
  <2>1. file \in Snapshots \cup {Absent, Torn} /\ file.kind = "snapshot"
    BY <1>3, PathFacts DEF ResumeInv, Intact
  <2>2. file \in Snapshots
    BY <2>1 DEF Absent, Torn
  <2>3. file.events \in Nat /\ file.id = id /\ file.fingerprint = fingerprint
    BY <1>3, <2>2 DEF Snapshots, CanResume
  <2>4. Started(id, fingerprint, file.events, file)
    BY <1>3
  <2> HIDE DEF file
  <2> QED
    BY <1>1, <2>2, <2>3, <2>4, StartedKeeps
<1> QED
  BY <1>2, <1>3 DEF StartRun, StartAfresh

(***************************************************************************)
(* The run goes on while nothing is being saved.                           *)
(***************************************************************************)
LEMMA StepProgress == ASSUME ResumeInv, NEW id \in ExperimentIds, Progress(id) PROVE ResumeInv'
<1> DEFINE run == [process[id] EXCEPT !.events = @ + 1]
<1>1. /\ Running(id) /\ saving[id] = "idle" /\ UNCHANGED <<files, saving, renamed, lostFlush>>
      /\ process' = [process EXCEPT ![id] = run]
  BY DEF Progress
<1>2. process[id] \in Process
  BY <1>1, RunFacts
<1>3. /\ run \in Process /\ run.on /\ run.fingerprint = process[id].fingerprint
      /\ run.from = process[id].from /\ run.events = process[id].events + 1
  <2> DEFINE before == process[id]
  <2>1. /\ before.on = TRUE /\ before.fingerprint \in Fingerprints /\ before.events \in Nat
        /\ before.from \in Snapshots \cup {Absent}
    BY <1>2 DEF Process
  <2> DEFINE n == before.events + 1
  <2>2. n \in Nat /\ before \in Process /\ run = [before EXCEPT !.events = n]
    BY <1>2, <2>1
  <2> HIDE DEF n, run, before
  <2>3. run \in Process /\ run.on /\ run.fingerprint = before.fingerprint
        /\ run.from = before.from /\ run.events = n
    BY <2>1, <2>2 DEF Process
  <2> QED
    BY <2>3 DEF before, n
<1>4. process[id].events \in Nat /\ process[id].from \in Snapshots \cup {Absent}
  BY <1>2 DEF Process
<1> HIDE DEF run
<1>5. /\ process' \in [ExperimentIds -> Process \cup {NoProcess}]
      /\ process'[id] = run /\ \A o \in ExperimentIds \ {id} : process'[o] = process[o]
  BY <1>1, <1>3 DEF ResumeInv
<1>6. \A o \in ExperimentIds : /\ saving'[o] # "idle" => process'[o].on
                               /\ saving'[o] = "closed" /\ o \notin lostFlush' => files'[Temp(o)] = SnapshotOf(o)'
  BY <1>1, <1>5 DEF ResumeInv, Running, SnapshotOf
<1>7. ResumesWhatWasSaved'
  <2>1. run.from # Absent => run.from.id = id /\ run.from.fingerprint = run.fingerprint
                             /\ run.events >= run.from.events
    <3>1. process[id].from # Absent => process[id].from \in Snapshots /\ process[id].from.events \in Nat
      BY <1>4 DEF Snapshots
    <3> QED
      BY <1>1, <1>3, <1>4, <3>1 DEF ResumeInv, ResumesWhatWasSaved
  <2> QED
    BY <1>1, <1>5, <2>1 DEF ResumeInv, ResumesWhatWasSaved, Running
<1> QED
  BY <1>1, <1>5, <1>6, <1>7 DEF ResumeInv, Running

(***************************************************************************)
(* put() opens the temporary file, which is empty, and writes it.          *)
(***************************************************************************)
LEMMA StepWrite ==
  ASSUME ResumeInv, NEW id \in ExperimentIds, OpenTemp(id) \/ WriteAndClose(id)
  PROVE  ResumeInv'
<1>1. Running(id) /\ UNCHANGED <<process, runs, renamed>>
  BY DEF OpenTemp, WriteAndClose, ResumeInv
<1>2. SnapshotOf(id) \in Snapshots
  BY <1>1, RunFacts
<1>3. /\ \/ files' = files
         \/ files' = [files EXCEPT ![Temp(id)] = Torn]
         \/ files' = [files EXCEPT ![Temp(id)] = SnapshotOf(id)]
      /\ \E stage \in {"idle", "open", "closed"} :
           /\ saving' = [saving EXCEPT ![id] = stage]
           /\ stage = "closed" => \/ files' = [files EXCEPT ![Temp(id)] = SnapshotOf(id)]
                                  \/ lostFlush' = lostFlush \cup {id}
      /\ lostFlush \subseteq lostFlush'
  <2>1. CASE OpenTemp(id)
    BY <2>1 DEF OpenTemp
  <2>2. CASE WriteAndClose(id)
    BY <2>2 DEF WriteAndClose
  <2> QED
    BY <2>1, <2>2
<1>4. files' \in [Paths -> Snapshots \cup {Absent, Torn}]
  BY <1>2, <1>3, PathFacts DEF ResumeInv
<1>5. \A o \in ExperimentIds : files'[Final(o)] = files[Final(o)]
  BY <1>3, PathFacts DEF ResumeInv
<1>6. \A o \in ExperimentIds \ {id} : files'[Temp(o)] = files[Temp(o)]
  BY <1>3, PathFacts DEF ResumeInv
<1>7. /\ saving' \in [ExperimentIds -> {"idle", "open", "closed"}]
      /\ \A o \in ExperimentIds \ {id} : saving'[o] = saving[o]
      /\ saving'[id] = "closed" => \/ files' = [files EXCEPT ![Temp(id)] = SnapshotOf(id)]
                                   \/ id \in lostFlush'
  BY <1>3 DEF ResumeInv
<1>8. saving'[id] = "closed" /\ id \notin lostFlush' => files'[Temp(id)] = SnapshotOf(id)
  BY <1>7, PathFacts DEF ResumeInv
<1>9. \A o \in ExperimentIds : SnapshotOf(o)' = SnapshotOf(o) /\ Running(o)' = Running(o)
  BY <1>1 DEF SnapshotOf, Running
<1>10. \A o \in ExperimentIds : /\ saving'[o] # "idle" => Running(o)
                                /\ saving'[o] = "closed" /\ o \notin lostFlush' => files'[Temp(o)] = SnapshotOf(o)
  BY <1>1, <1>3, <1>6, <1>7, <1>8 DEF ResumeInv
<1>11. ResumesWhatWasSaved'
  BY <1>1, <1>3, <1>5, <1>9 DEF ResumeInv, ResumesWhatWasSaved
<1> QED
  BY <1>1, <1>4, <1>7, <1>9, <1>10, <1>11 DEF ResumeInv

(***************************************************************************)
(* The rename, and a crash before or just after it.                        *)
(***************************************************************************)
LEMMA StepRename ==
  ASSUME ResumeInv, NEW id \in ExperimentIds, MoveIntoPlace(id) \/ Crash(id)
  PROVE  ResumeInv'
<1>1. /\ saving' = [saving EXCEPT ![id] = "idle"] /\ UNCHANGED lostFlush
      /\ process' = process \/ process' = [process EXCEPT ![id] = NoProcess]
      /\ \/ UNCHANGED <<files, renamed>>
         \/ /\ saving[id] = "closed"
            /\ files' = [files EXCEPT ![Final(id)] = files[Temp(id)], ![Temp(id)] = Absent]
            /\ renamed' = [renamed EXCEPT ![id] = SnapshotOf(id)]
  BY DEF MoveIntoPlace, Crash
<1>2. /\ saving' \in [ExperimentIds -> {"idle", "open", "closed"}] /\ saving'[id] = "idle"
      /\ \A o \in ExperimentIds \ {id} : saving'[o] = saving[o]
  BY <1>1 DEF ResumeInv
<1>3. /\ process' \in [ExperimentIds -> Process \cup {NoProcess}]
      /\ \A o \in ExperimentIds \ {id} : process'[o] = process[o]
      /\ process'[id] = process[id] \/ process'[id] = NoProcess
  BY <1>1 DEF ResumeInv
<1>4. DOMAIN renamed' = ExperimentIds
  BY <1>1 DEF ResumeInv
<1>5. files' \in [Paths -> Snapshots \cup {Absent, Torn}]
  BY <1>1, PathFacts DEF ResumeInv
<1>6. \A o \in ExperimentIds \ {id} : files'[Temp(o)] = files[Temp(o)] /\ files'[Final(o)] = files[Final(o)]
                                      /\ renamed'[o] = renamed[o]
  BY <1>1, PathFacts DEF ResumeInv
<1>7. id \notin lostFlush => files'[Final(id)] = renamed'[id]
  <2>1. CASE UNCHANGED <<files, renamed>>
    BY <2>1 DEF ResumeInv, ResumesWhatWasSaved
  <2>2. CASE /\ saving[id] = "closed"
             /\ files' = [files EXCEPT ![Final(id)] = files[Temp(id)], ![Temp(id)] = Absent]
             /\ renamed' = [renamed EXCEPT ![id] = SnapshotOf(id)]
    <3>1. renamed'[id] = SnapshotOf(id)
      BY <2>2 DEF ResumeInv
    <3>2. files'[Final(id)] = files[Temp(id)]
      BY <2>2, PathFacts DEF ResumeInv
    <3> QED
      BY <2>2, <3>1, <3>2 DEF ResumeInv
  <2> QED
    BY <1>1, <2>1, <2>2
<1>8. ~NoProcess.on
  BY DEF NoProcess
<1>9. \A o \in ExperimentIds : /\ saving'[o] # "idle" => process'[o].on
                               /\ saving'[o] = "closed" /\ o \notin lostFlush' => files'[Temp(o)] = SnapshotOf(o)'
  BY <1>1, <1>2, <1>3, <1>6 DEF ResumeInv, Running, SnapshotOf
<1>10. ResumesWhatWasSaved'
  <2>1. \A o \in ExperimentIds : o \notin lostFlush' => files'[Final(o)] = renamed'[o]
    BY <1>1, <1>6, <1>7 DEF ResumeInv, ResumesWhatWasSaved
  <2>2. \A o \in ExperimentIds : process'[o].on => process'[o] = process[o] /\ process[o].on
    BY <1>3, <1>8
  <2> QED
    BY <2>1, <2>2 DEF ResumeInv, ResumesWhatWasSaved, Running
<1> QED
  BY <1>2, <1>3, <1>4, <1>5, <1>9, <1>10 DEF ResumeInv, Running

(***************************************************************************)
(* The invariant of the snapshots.                                         *)
(***************************************************************************)
LEMMA ResumeInvHolds == ResumeSpec => []ResumeInv
<1>1. ResumeInit => ResumeInv
  <2> SUFFICES ASSUME ResumeInit PROVE ResumeInv
    OBVIOUS
  <2>1. /\ files = [p \in Paths |-> Absent] /\ process = [id \in ExperimentIds |-> NoProcess]
        /\ saving = [id \in ExperimentIds |-> "idle"] /\ renamed = [id \in ExperimentIds |-> Absent]
    BY DEF ResumeInit, Paths
  <2>2. ~NoProcess.on
    BY DEF NoProcess
  <2>3. \A id \in ExperimentIds : files[Final(id)] = Absent /\ ~Running(id) /\ renamed[id] = Absent
    BY <2>1, <2>2, PathFacts DEF Running
  <2> QED
    BY <2>1, <2>3 DEF ResumeInv, ResumesWhatWasSaved
<1>2. ResumeInv /\ [ResumeNext]_resumeVars => ResumeInv'
  <2> SUFFICES ASSUME ResumeInv, [ResumeNext]_resumeVars PROVE ResumeInv'
    OBVIOUS
  <2>1. CASE UNCHANGED resumeVars
    BY <2>1 DEF ResumeInv, ResumesWhatWasSaved, Running, SnapshotOf, resumeVars
  <2>2. CASE ResumeNext
    BY <2>2, StepStartRun, StepProgress, StepWrite, StepRename DEF ResumeNext
  <2> QED
    BY <2>1, <2>2
<1> QED
  BY <1>1, <1>2, PTL DEF ResumeSpec

(***************************************************************************)
(* What is read back, of a session's file or of an experiment's snapshot,  *)
(* is what was saved, or nothing is.                                       *)
(***************************************************************************)
THEOREM StoredStateIsTrue == StateFileSpec /\ ResumeSpec => []StoredStateIsGenuine
<1>1. FileInv /\ ResumeInv => StoredStateIsGenuine
  BY DEF FileInv, ResumeInv, StoredStateIsGenuine
<1> QED
  BY <1>1, FileInvHolds, ResumeInvHolds, PTL

-----------------------------------------------------------------------------
(***************************************************************************)
(* ResearchLedger, the trials.  What makes a duplicate stay uncounted is   *)
(* that a trial once known stays known, whichever calls follow; what makes *)
(* a report right about the budget later is that a declared one is final.  *)
(***************************************************************************)

LedgerInv ==
  /\ runRows \in [RunKeys -> RunStatuses \cup {NoRow}]
  /\ DOMAIN trialRows = Manifests /\ DOMAIN told = Manifests /\ DOMAIN declared = Questions
  /\ budgetRows = declared
  /\ \A m \in Manifests : told[m] # Unset => KnownTrial(m) /\ trialRows[m] = told[m]
  /\ report.about # NoRow =>
       /\ report.about \in Manifests
       /\ report.budget # Unset => declared[QuestionOf[report.about]] = report.budget
       /\ "search_budget_exceeded" \in report.issues
            <=> report.budget # Unset /\ report.trialsRun > report.budget

(***************************************************************************)
(* A run that has a row keeps one, whatever is written over it.            *)
(***************************************************************************)
LEMMA RowsStay ==
  ASSUME LedgerInv, NEW run \in RunKeys, NEW status \in RunStatuses,
         \/ runRows' = [runRows EXCEPT ![run] = status]
         \/ runRows' = [runRows EXCEPT ![run] = IF @ = NoRow THEN @ ELSE status],
         UNCHANGED <<trialRows, budgetRows, report, told, declared>>
  PROVE  LedgerInv'
<1>1. runRows' \in [RunKeys -> RunStatuses \cup {NoRow}]
  BY DEF LedgerInv
<1>2. \A m \in Manifests : KnownTrial(m) => KnownTrial(m)'
  BY DEF LedgerInv, KnownTrial, RunKeys, RunStatuses, NoRow
<1> QED
  BY <1>1, <1>2 DEF LedgerInv

(***************************************************************************)
(* validate() writes the report, and tells of a duplicate only of a trial  *)
(* it found.                                                               *)
(***************************************************************************)
LEMMA ValidateReports ==
  ASSUME LedgerInv, NEW m \in Manifests, Validate(m)
  PROVE  LedgerInv'
<1> DEFINE question == QuestionOf[m]
           Warned(code, condition) == IF condition THEN {code} ELSE {}
           issues == Warned("undeclared_budget", budgetRows[question] = Unset)
                       \cup Warned("search_budget_exceeded", BudgetExceeded(question))
                       \cup Warned("duplicate_trial", KnownTrial(m))
<1>1. /\ report' = [about |-> m, trialsRun |-> TrialCount(question),
                    budget |-> budgetRows[question], issues |-> issues]
      /\ told' = [told EXCEPT ![m] = IF KnownTrial(m) THEN trialRows[m] ELSE @]
      /\ UNCHANGED <<runRows, trialRows, budgetRows, unlocks, declared>>
  BY DEF Validate
<1>2. "search_budget_exceeded" \in issues <=> BudgetExceeded(question)
  OBVIOUS
<1>3. \A k \in Manifests : told'[k] # Unset => KnownTrial(k)' /\ trialRows'[k] = told'[k]
  BY <1>1 DEF LedgerInv, KnownTrial
<1> HIDE DEF issues
<1>4. /\ report'.about = m /\ report'.budget = budgetRows[question]
      /\ report'.issues = issues /\ report'.trialsRun = TrialCount(question)
  BY <1>1
<1>5. report'.about # NoRow =>
       /\ report'.about \in Manifests
       /\ report'.budget # Unset => declared'[QuestionOf[report'.about]] = report'.budget
       /\ "search_budget_exceeded" \in report'.issues
            <=> report'.budget # Unset /\ report'.trialsRun > report'.budget
  BY <1>1, <1>2, <1>4 DEF LedgerInv, BudgetExceeded
<1>6. /\ runRows' \in [RunKeys -> RunStatuses \cup {NoRow}]
      /\ DOMAIN trialRows' = Manifests /\ DOMAIN told' = Manifests /\ DOMAIN declared' = Questions
      /\ budgetRows' = declared'
  BY <1>1 DEF LedgerInv
<1> QED
  BY <1>3, <1>5, <1>6 DEF LedgerInv

(***************************************************************************)
(* Every call on the ledger keeps what the reports have said true.         *)
(***************************************************************************)
LEMMA LedgerInvHolds == LedgerSpec => []LedgerInv
<1>1. LedgerInit => LedgerInv
  BY DEF LedgerInit, LedgerInv, KnownTrial
<1>2. LedgerInv /\ [LedgerNext]_ledgerVars => LedgerInv'
  <2> SUFFICES ASSUME LedgerInv, [LedgerNext]_ledgerVars
               PROVE  LedgerInv'
    OBVIOUS
  <2>1. ASSUME NEW run \in RunKeys, InsertRun(run)
        PROVE  LedgerInv'
    BY <2>1, RowsStay DEF InsertRun, RunStatuses
  <2>2. ASSUME NEW run \in RunKeys, NEW status \in RunStatuses \ {"started"}, FinishRun(run, status)
        PROVE  LedgerInv'
    BY <2>2, RowsStay DEF FinishRun
  <2>3. ASSUME NEW run \in RunKeys, NEW justified \in BOOLEAN, RecordHoldoutUnlock(run, justified)
        PROVE  LedgerInv'
    BY <2>3 DEF LedgerInv, RecordHoldoutUnlock, KnownTrial
  <2>4. ASSUME NEW run \in RunKeys, NEW m \in Manifests, RegisterTrial(m, run)
        PROVE  LedgerInv'
    BY <2>4 DEF LedgerInv, RegisterTrial, Counted, KnownTrial
  <2>5. ASSUME NEW q \in Questions, NEW budget \in Budgets, DeclareBudget(q, budget)
        PROVE  LedgerInv'
    <3>1. \A about \in Manifests : QuestionOf[about] \in Questions
      BY DEF Questions
    <3>2. \A about \in Manifests : declared[QuestionOf[about]] # Unset
             => declared'[QuestionOf[about]] = declared[QuestionOf[about]]
      BY <2>5, <3>1 DEF DeclareBudget, LedgerInv
    <3> QED
      BY <2>5, <3>2 DEF LedgerInv, DeclareBudget, BudgetAfter, KnownTrial
  <2>6. ASSUME NEW m \in Manifests, Validate(m)
        PROVE  LedgerInv'
    BY <2>6, ValidateReports
  <2>7. CASE UNCHANGED ledgerVars
    BY <2>7 DEF LedgerInv, ledgerVars, KnownTrial
  <2> QED
    BY <2>1, <2>2, <2>3, <2>4, <2>5, <2>6, <2>7 DEF LedgerNext
<1> QED
  BY <1>1, <1>2, PTL DEF LedgerSpec

(***************************************************************************)
(* The ledger's half of the theorem below.                                 *)
(***************************************************************************)
LEMMA LedgerIsHonest == LedgerSpec => []LedgerHonest
<1>1. LedgerInv => LedgerHonest
  BY DEF LedgerInv, LedgerHonest
<1> QED
  BY <1>1, LedgerInvHolds, PTL

-----------------------------------------------------------------------------
(***************************************************************************)
(* ResearchLedger, the rankings.  A rank counts those that come before, so *)
(* that every comparison of ranks is a comparison of sets; the composite   *)
(* is a sum over metrics, compared as a fraction.                          *)
(***************************************************************************)

(***************************************************************************)
(* Whoever is preceded by all that precede another, and by that other too, *)
(* has the larger rank.                                                    *)
(***************************************************************************)
LEMMA FewerBefore ==
  ASSUME NEW B, IsFiniteSet(B), NEW A \in SUBSET B, NEW x \in B, x \notin A
  PROVE  Cardinality(A) \in Nat /\ Cardinality(B) \in Nat /\ Cardinality(A) < Cardinality(B)
<1>1. IsFiniteSet(A) /\ Cardinality(A) <= Cardinality(B) /\ Cardinality(A) # Cardinality(B)
  BY FS_Subset
<1>2. Cardinality(A) \in Nat /\ Cardinality(B) \in Nat
  BY <1>1, FS_CardinalityType
<1> QED
  BY <1>1, <1>2

(***************************************************************************)
(* What is larger at every element of a set sums to more over it.          *)
(***************************************************************************)
LEMMA SumLess ==
  ASSUME NEW f, NEW g, NEW S, IsFiniteSet(S), S # {},
         \A x \in S : f[x] \in Int /\ g[x] \in Int /\ f[x] < g[x]
  PROVE  SumFunctionOnSet(f, S) < SumFunctionOnSet(g, S)
<1> DEFINE F(s) == SumFunctionOnSet(f, s)
           G(s) == SumFunctionOnSet(g, s)
           P == {s \in SUBSET S : s # {} => F(s) < G(s)}
<1>1. {} \in P
  OBVIOUS
<1>2. ASSUME NEW s \in SUBSET S, NEW x \in S \ s, s \in P
      PROVE  s \cup {x} \in P
  <2>1. IsFiniteSet(s) /\ IsFiniteSet(s \cup {x}) /\ (s \cup {x}) \ {x} = s
    BY FS_Subset
  <2>2. F(s) \in Int /\ G(s) \in Int
    BY <2>1, SumType
  <2>3. F(s \cup {x}) = f[x] + F(s) /\ G(s \cup {x}) = g[x] + G(s)
    BY <2>1, SumTakingAny
  <2>4. s = {} => F(s) = 0 /\ G(s) = 0
    BY SumEmpty
  <2>5. s # {} => F(s) < G(s)
    BY <1>2
  <2> HIDE DEF F, G
  <2>6. f[x] \in Int /\ g[x] \in Int /\ f[x] < g[x]
    OBVIOUS
  <2>7. F(s \cup {x}) < G(s \cup {x})
    BY <2>2, <2>3, <2>4, <2>5, <2>6
  <2> QED
    BY <2>7
<1>3. S \in P
  <2> HIDE DEF P
  <2> QED
    BY <1>1, <1>2, FiniteInduction
<1> QED
  BY <1>3

(***************************************************************************)
(* A fraction that exceeds one that is no less than a third exceeds it.    *)
(***************************************************************************)
LEMMA FractionsOrder ==
  ASSUME NEW a \in Int, NEW b \in Nat \ {0}, NEW c \in Int, NEW d \in Nat \ {0},
         NEW e \in Int, NEW f \in Nat \ {0}
  PROVE  /\ a * d > c * b /\ c * f >= e * d => a * f > e * b
         /\ a * d >= c * b /\ c * f > e * d => a * f > e * b
         /\ a * d = c * b /\ c * f = e * d => a * f = e * b
<1>1. ASSUME NEW x \in Int, NEW y \in Int, NEW k \in Nat \ {0}
      PROVE  (x > y <=> k * x > k * y) /\ (x = y <=> k * x = k * y) /\ (x >= y <=> k * x >= k * y)
  BY SMTT(20)
<1>2. /\ a * d \in Int /\ c * b \in Int /\ c * f \in Int /\ e * d \in Int
      /\ a * f \in Int /\ e * b \in Int
  OBVIOUS
<1>3. /\ (a * d > c * b <=> f * (a * d) > f * (c * b))
      /\ (a * d = c * b <=> f * (a * d) = f * (c * b))
      /\ (a * d >= c * b <=> f * (a * d) >= f * (c * b))
  BY <1>1, <1>2
<1>4. /\ (c * f > e * d <=> b * (c * f) > b * (e * d))
      /\ (c * f = e * d <=> b * (c * f) = b * (e * d))
      /\ (c * f >= e * d <=> b * (c * f) >= b * (e * d))
  BY <1>1, <1>2
<1>5. /\ (a * f > e * b <=> d * (a * f) > d * (e * b))
      /\ (a * f = e * b <=> d * (a * f) = d * (e * b))
  BY <1>1, <1>2
<1>6. f * (a * d) = d * (a * f) /\ f * (c * b) = b * (c * f) /\ b * (e * d) = d * (e * b)
  BY SMTT(20)
<1>7. /\ f * (a * d) \in Int /\ f * (c * b) \in Int /\ b * (e * d) \in Int
  OBVIOUS
<1> QED
  BY <1>2, <1>3, <1>4, <1>5, <1>6, <1>7

-----------------------------------------------------------------------------
\* An experiment's results, and what they must be for a rank to mean anything.
ResultsTyped ==
  outcomesOf \in [RankedIds -> [status: {"completed", "failed"},
                                custom: [MetricNames -> Int], measured: [MetricNames -> Int]]]

\* What Compare reports, and what Build lists.
ComparisonIsMade ==
  comparison.ids # {} =>
    comparison.overall = [id \in comparison.ids |->
      1 + Cardinality({other \in comparison.ids : AheadOf(comparison.ids, other, id)})]

ListedBy(name, direction, limit) ==
  IF limit = 0 THEN Eligible(name) ELSE Best(name, direction, limit)

BoardIsMade ==
  board.metric # {} =>
    \E name \in MetricNames, direction \in {"higher", "lower"}, limit \in Limits :
      /\ board.metric = {name} /\ board.direction = direction
      /\ board.rank = [id \in ListedBy(name, direction, limit) |->
           1 + Cardinality({other \in ListedBy(name, direction, limit) :
                              Precedes(other, id, name, direction)})]

RankInv ==
  /\ ResultsTyped
  /\ comparison.ids \in SUBSET RankedIds
  /\ ComparisonIsMade /\ BoardIsMade

(***************************************************************************)
(* Whichever of its two sources answers, a metric is a number.             *)
(***************************************************************************)
LEMMA MetricIsInt ==
  ResultsTyped => \A id \in RankedIds, name \in MetricNames : MetricOf(id, name) \in Int
<1> SUFFICES ASSUME ResultsTyped, NEW id \in RankedIds, NEW name \in MetricNames
             PROVE  MetricOf(id, name) \in Int
  OBVIOUS
<1>1. outcomesOf[id].custom \in [MetricNames -> Int] /\ outcomesOf[id].measured \in [MetricNames -> Int]
  BY DEF ResultsTyped
<1> QED
  BY <1>1 DEF MetricOf

(***************************************************************************)
(* Preceding is a strict order, and being better takes one ahead.          *)
(***************************************************************************)
LEMMA PrecedesFacts ==
  ASSUME ResultsTyped, NEW name \in MetricNames, NEW direction,
         NEW one \in RankedIds, NEW two \in RankedIds
  PROVE  /\ ~Precedes(one, one, name, direction)
         /\ \A other \in RankedIds : Precedes(other, one, name, direction)
              /\ Precedes(one, two, name, direction) => Precedes(other, two, name, direction)
<1>1. \A id \in RankedIds : MetricOf(id, name) \in Int /\ id \in Nat
  BY MetricIsInt, RankingBounds
<1> QED
  BY <1>1 DEF Precedes, Better

(***************************************************************************)
(* In one metric: the better of two participants has the smaller rank.     *)
(***************************************************************************)
LEMMA RankFollows ==
  ASSUME ResultsTyped, NEW ids \in SUBSET RankedIds, NEW name \in MetricNames,
         NEW one \in Participants(ids, name), NEW two \in Participants(ids, name),
         Precedes(one, two, name, Directions[name])
  PROVE  RankIn(ids, name, one) < RankIn(ids, name, two)
<1> DEFINE Before(id) == {other \in Participants(ids, name) : Precedes(other, id, name, Directions[name])}
<1>1. Participants(ids, name) \in SUBSET RankedIds
  BY DEF Participants
<1>2. IsFiniteSet(Before(two))
  BY <1>1, RankingBounds, FS_Subset
<1>3. Before(one) \in SUBSET Before(two) /\ one \in Before(two) /\ one \notin Before(one)
  BY <1>1, PrecedesFacts
<1>4. RankIn(ids, name, one) = 1 + Cardinality(Before(one))
      /\ RankIn(ids, name, two) = 1 + Cardinality(Before(two))
  BY DEF RankIn
<1> HIDE DEF Before
<1>5. /\ Cardinality(Before(one)) \in Nat /\ Cardinality(Before(two)) \in Nat
      /\ Cardinality(Before(one)) < Cardinality(Before(two))
  BY <1>2, <1>3, FewerBefore
<1> QED
  BY <1>4, <1>5

(***************************************************************************)
(* A rank is one more than a count.                                        *)
(***************************************************************************)
LEMMA RankIsNat ==
  ASSUME NEW ids \in SUBSET RankedIds, NEW name, NEW id
  PROVE  RankIn(ids, name, id) \in Nat
<1>1. IsFiniteSet({other \in Participants(ids, name) : Precedes(other, id, name, Directions[name])})
  BY RankingBounds, FS_Subset DEF Participants
<1> QED
  BY <1>1, FS_CardinalityType DEF RankIn

\* What an experiment adds to its composite for a metric.
Shares(ids, id) ==
  [name \in MetricNames |-> MetricWeights[name] * (Cardinality(ids) - RankIn(ids, name, id) + 1)]

(***************************************************************************)
(* The composite: a fraction of integers with a denominator that is no     *)
(* less than zero, and above it for an experiment that answers.            *)
(***************************************************************************)
LEMMA CompositeFacts ==
  ASSUME NEW ids \in SUBSET RankedIds, NEW id \in ids
  PROVE  /\ IsFiniteSet(CountsFor(id)) /\ CountsFor(id) \in SUBSET MetricNames
         /\ \A name \in MetricNames : Shares(ids, id)[name] \in Int
         /\ Composite(ids, id) =
              [top |-> SumFunctionOnSet(Shares(ids, id), CountsFor(id)),
               bottom |-> Cardinality(ids) * SumFunctionOnSet(MetricWeights, CountsFor(id))]
         /\ Composite(ids, id).top \in Int /\ Composite(ids, id).bottom \in Nat
         /\ CountsFor(id) # {} => Composite(ids, id).bottom # 0
         /\ Score(Composite(ids, id)).top \in Int /\ Score(Composite(ids, id)).bottom \in Nat \ {0}
<1>1. IsFiniteSet(ids) /\ Cardinality(ids) \in Nat \ {0}
  BY RankingBounds, FS_Subset, FS_CardinalityType, FS_EmptySet
<1>2. IsFiniteSet(CountsFor(id)) /\ CountsFor(id) \in SUBSET MetricNames
  BY RankingBounds, FS_Subset DEF CountsFor
<1>3. \A name \in MetricNames : Shares(ids, id)[name] \in Int
  <2> SUFFICES ASSUME NEW name \in MetricNames PROVE Shares(ids, id)[name] \in Int
    OBVIOUS
  <2>1. MetricWeights[name] \in Nat /\ RankIn(ids, name, id) \in Nat
    BY RankingBounds, RankIsNat
  <2> QED
    BY <1>1, <2>1 DEF Shares
<1>4. Composite(ids, id) =
              [top |-> SumFunctionOnSet(Shares(ids, id), CountsFor(id)),
               bottom |-> Cardinality(ids) * SumFunctionOnSet(MetricWeights, CountsFor(id))]
  BY DEF Composite, Shares
<1>5. SumFunctionOnSet(Shares(ids, id), CountsFor(id)) \in Int
  BY <1>2, <1>3, SumType
<1>6. SumFunctionOnSet(MetricWeights, CountsFor(id)) \in Nat
  <2>1. \A name \in CountsFor(id) : MetricWeights[name] \in Nat
    BY <1>2, RankingBounds
  <2> QED
    BY <1>2, <2>1, SumNotNegative
<1>7. CountsFor(id) # {} => SumFunctionOnSet(MetricWeights, CountsFor(id)) # 0
  <2> SUFFICES ASSUME NEW name \in CountsFor(id)
               PROVE  SumFunctionOnSet(MetricWeights, CountsFor(id)) # 0
    OBVIOUS
  <2>1. \A n \in CountsFor(id) : MetricWeights[n] \in Nat
    BY <1>2, RankingBounds
  <2>2. MetricWeights[name] > 0
    BY DEF CountsFor
  <2>3. SumFunctionOnSet(MetricWeights, CountsFor(id)) =
          MetricWeights[name] + SumFunctionOnSet(MetricWeights, CountsFor(id) \ {name})
    BY <1>2, <2>1, SumTakingAny
  <2>4. SumFunctionOnSet(MetricWeights, CountsFor(id) \ {name}) \in Nat
    BY <1>2, <2>1, FS_Subset, SumNotNegative
  <2> QED
    BY <2>1, <2>2, <2>3, <2>4
<1>8. Composite(ids, id).top \in Int /\ Composite(ids, id).bottom \in Nat
      /\ (CountsFor(id) # {} => Composite(ids, id).bottom # 0)
  BY <1>1, <1>4, <1>5, <1>6, <1>7
<1>9. Score(Composite(ids, id)).top \in Int /\ Score(Composite(ids, id)).bottom \in Nat \ {0}
  BY <1>8 DEF Score
<1> QED
  BY <1>2, <1>3, <1>4, <1>8, <1>9

(***************************************************************************)
(* Standing ahead is a strict order.                                       *)
(***************************************************************************)
LEMMA AheadFacts ==
  ASSUME NEW ids \in SUBSET RankedIds, NEW one \in ids, NEW two \in ids
  PROVE  /\ ~AheadOf(ids, one, one)
         /\ \A other \in ids : AheadOf(ids, other, one) /\ AheadOf(ids, one, two)
                                 => AheadOf(ids, other, two)
<1> DEFINE S(id) == Score(Composite(ids, id))
<1>1. \A id \in ids : S(id).top \in Int /\ S(id).bottom \in Nat \ {0} /\ id \in Nat
  BY CompositeFacts, RankingBounds
<1>2. \A a \in ids, b \in ids :
        AheadOf(ids, a, b) <=> \/ S(a).top * S(b).bottom > S(b).top * S(a).bottom
                               \/ S(a).top * S(b).bottom = S(b).top * S(a).bottom /\ a < b
  BY DEF AheadOf
<1> HIDE DEF S
<1>3. ~AheadOf(ids, one, one)
  BY <1>1, <1>2
<1>4. ASSUME NEW other \in ids, AheadOf(ids, other, one), AheadOf(ids, one, two)
      PROVE  AheadOf(ids, other, two)
  <2> DEFINE a == S(other).top   b == S(other).bottom
             c == S(one).top     d == S(one).bottom
             e == S(two).top     f == S(two).bottom
  <2>1. /\ a \in Int /\ b \in Nat \ {0} /\ c \in Int /\ d \in Nat \ {0}
        /\ e \in Int /\ f \in Nat \ {0}
    BY <1>1
  <2>2. \/ a * d > c * b
        \/ a * d = c * b /\ other < one
    BY <1>2, <1>4
  <2>3. \/ c * f > e * d
        \/ c * f = e * d /\ one < two
    BY <1>2, <1>4
  <2>4. AheadOf(ids, other, two) <=> \/ a * f > e * b
                                     \/ a * f = e * b /\ other < two
    BY <1>2
  <2>5. other \in Nat /\ one \in Nat /\ two \in Nat
    BY <1>1
  <2> HIDE DEF a, b, c, d, e, f
  <2>6. /\ a * d > c * b /\ c * f >= e * d => a * f > e * b
        /\ a * d >= c * b /\ c * f > e * d => a * f > e * b
        /\ a * d = c * b /\ c * f = e * d => a * f = e * b
    BY <2>1, FractionsOrder
  <2>7. a * d \in Int /\ c * b \in Int /\ c * f \in Int /\ e * d \in Int
    BY <2>1
  <2> QED
    BY <2>2, <2>3, <2>4, <2>5, <2>6, <2>7
<1> QED
  BY <1>3, <1>4

-----------------------------------------------------------------------------
(***************************************************************************)
(* Who stands ahead of whom is a matter of the results alone.              *)
(***************************************************************************)
LEMMA AheadStands ==
  ASSUME outcomesOf' = outcomesOf
  PROVE  \A ids, other, id : AheadOf(ids, other, id) <=> AheadOf(ids, other, id)'
<1>1. \A id, name : MetricOf(id, name)' = MetricOf(id, name)
  BY DEF MetricOf
<1>2. \A ids, name : Participants(ids, name)' = Participants(ids, name)
  BY <1>1 DEF Participants
<1>3. \A id, other, name, direction : Precedes(id, other, name, direction)'
                                        <=> Precedes(id, other, name, direction)
  BY <1>1 DEF Precedes
<1>4. \A ids, name, id : RankIn(ids, name, id)' = RankIn(ids, name, id)
  BY <1>2, <1>3 DEF RankIn
<1>5. \A id : CountsFor(id)' = CountsFor(id)
  BY <1>1 DEF CountsFor
<1>6. \A ids, id : Composite(ids, id)' = Composite(ids, id)
  BY <1>4, <1>5 DEF Composite
<1> QED
  BY <1>6 DEF AheadOf, Score

(***************************************************************************)
(* compare() and build() write what is defined above, from results that    *)
(* nobody changes.                                                         *)
(***************************************************************************)
LEMMA RankInvHolds == RankingSpec => []RankInv
<1>1. RankingInit => RankInv
  BY RankingBounds DEF RankingInit, RankInv, ResultsTyped, ComparisonIsMade, BoardIsMade
<1>2. RankInv /\ [RankingNext]_rankingVars => RankInv'
  <2> SUFFICES ASSUME RankInv, [RankingNext]_rankingVars
               PROVE  RankInv'
    OBVIOUS
  <2>1. ASSUME NEW ids \in SUBSET RankedIds, Compare(ids)
        PROVE  RankInv'
    <3>1. outcomesOf' = outcomesOf /\ board' = board
      BY <2>1 DEF Compare
    <3>2. \A id \in RankedIds, other \in RankedIds : AheadOf(ids, other, id) <=> AheadOf(ids, other, id)'
      BY <3>1, AheadStands
    <3>3. comparison'.ids = ids /\ comparison'.overall =
            [id \in ids |-> 1 + Cardinality({other \in ids : AheadOf(ids, other, id)})]
      BY <2>1 DEF Compare
    <3>4. ComparisonIsMade'
      BY <3>2, <3>3 DEF ComparisonIsMade
    <3>5. BoardIsMade' /\ ResultsTyped'
      BY <2>1, <3>1 DEF RankInv, BoardIsMade, ResultsTyped, Compare
    <3> QED
      BY <3>3, <3>4, <3>5 DEF RankInv
  <2>2. ASSUME NEW name \in MetricNames, NEW direction \in {"higher", "lower"}, NEW limit \in Limits,
               Build(name, direction, limit)
        PROVE  RankInv'
    <3> DEFINE listed == ListedBy(name, direction, limit)
    <3>1. outcomesOf' = outcomesOf /\ comparison' = comparison /\ comparison.ids = {}
      BY <2>2 DEF Build
    <3>2. board' = [metric |-> {name}, direction |-> direction,
                    rank |-> [id \in listed |->
                      1 + Cardinality({other \in listed : Precedes(other, id, name, direction)})]]
      BY <2>2 DEF Build, ListedBy
    <3>3. listed = ListedBy(name, direction, limit)'
      BY <3>1 DEF ListedBy, Best, Eligible, Precedes, MetricOf
    <3>4. \A id, other : Precedes(other, id, name, direction) <=> Precedes(other, id, name, direction)'
      BY <3>1 DEF Precedes, MetricOf
    <3> HIDE DEF listed
    <3>5. /\ board'.metric = {name} /\ board'.direction = direction
          /\ board'.rank = [id \in listed |->
               1 + Cardinality({other \in listed : Precedes(other, id, name, direction)'})]
      BY <3>2, <3>4
    <3>6. BoardIsMade'
      BY <3>3, <3>5 DEF BoardIsMade
    <3> QED
      BY <3>1, <3>6 DEF RankInv, ResultsTyped, ComparisonIsMade
  <2>3. CASE UNCHANGED rankingVars
    <3>1. outcomesOf' = outcomesOf /\ comparison' = comparison /\ board' = board
      BY <2>3 DEF rankingVars
    <3>2. ResultsTyped' /\ comparison'.ids \in SUBSET RankedIds
      BY <3>1 DEF RankInv, ResultsTyped
    <3>3. ComparisonIsMade'
      <4>1. \A ids, other, id : AheadOf(ids, other, id) <=> AheadOf(ids, other, id)'
        BY <3>1, AheadStands
      <4> QED
        BY <3>1, <4>1 DEF RankInv, ComparisonIsMade
    <3>4. BoardIsMade'
      <4>1. \A name, direction, limit, id, other :
              /\ ListedBy(name, direction, limit)' = ListedBy(name, direction, limit)
              /\ Precedes(other, id, name, direction)' <=> Precedes(other, id, name, direction)
        BY <3>1 DEF ListedBy, Best, Eligible, Precedes, MetricOf
      <4>2. SUFFICES ASSUME board.metric # {} PROVE BoardIsMade'
        BY <3>1 DEF BoardIsMade
      <4>3. PICK name \in MetricNames, direction \in {"higher", "lower"}, limit \in Limits :
              /\ board.metric = {name} /\ board.direction = direction
              /\ board.rank = [id \in ListedBy(name, direction, limit) |->
                   1 + Cardinality({other \in ListedBy(name, direction, limit) :
                                      Precedes(other, id, name, direction)})]
        BY <4>2 DEF RankInv, BoardIsMade
      <4> DEFINE listed == ListedBy(name, direction, limit)
      <4>4. listed = ListedBy(name, direction, limit)'
        BY <4>1
      <4>5. \A id, other : Precedes(other, id, name, direction) <=> Precedes(other, id, name, direction)'
        BY <4>1
      <4> HIDE DEF listed
      <4>6. /\ board'.metric = {name} /\ board'.direction = direction
            /\ board'.rank = [id \in listed |->
                 1 + Cardinality({other \in listed : Precedes(other, id, name, direction)'})]
        <5>1. board' = board /\ board.metric = {name} /\ board.direction = direction
              /\ board.rank = [id \in listed |->
                   1 + Cardinality({other \in listed : Precedes(other, id, name, direction)})]
          BY <3>1, <4>3 DEF listed
        <5>2. \A id : {other \in listed : Precedes(other, id, name, direction)}
                        = {other \in listed : Precedes(other, id, name, direction)'}
          BY <4>5
        <5> DEFINE Now(id) == 1 + Cardinality({other \in listed : Precedes(other, id, name, direction)})
                   Then(id) == 1 + Cardinality({other \in listed : Precedes(other, id, name, direction)'})
        <5>3. \A id : Now(id) = Then(id)
          BY <5>2
        <5>4. board.rank = [id \in listed |-> Now(id)]
          BY <5>1
        <5> HIDE DEF Now, Then
        <5>5. board'.metric = {name} /\ board'.direction = direction
              /\ board'.rank = [id \in listed |-> Then(id)]
          BY <5>1, <5>3, <5>4
        <5> QED
          BY <5>5 DEF Then
      <4> QED
        BY <4>4, <4>6 DEF BoardIsMade
    <3> QED
      BY <3>1, <3>2, <3>3, <3>4 DEF RankInv
  <2> QED
    BY <2>1, <2>2, <2>3 DEF RankingNext
<1> QED
  BY <1>1, <1>2, PTL DEF RankingSpec

(***************************************************************************)
(* A comparison: the sums are over the same weights, and each rank of the  *)
(* better one is smaller.                                                  *)
(***************************************************************************)
LEMMA BetterIsAhead ==
  ASSUME ResultsTyped, NEW ids \in SUBSET RankedIds, NEW one \in ids, NEW two \in ids,
         CountsFor(one) = CountsFor(two), CountsFor(one) # {},
         \A name \in CountsFor(one) :
           Better(MetricOf(one, name), MetricOf(two, name), Directions[name])
  PROVE  AheadOf(ids, one, two)
<1> DEFINE metrics == CountsFor(one)
           bottom == Cardinality(ids) * SumFunctionOnSet(MetricWeights, metrics)
           first == SumFunctionOnSet(Shares(ids, one), metrics)
           second == SumFunctionOnSet(Shares(ids, two), metrics)
<1>1. /\ IsFiniteSet(metrics) /\ metrics \in SUBSET MetricNames
      /\ \A name \in MetricNames : Shares(ids, one)[name] \in Int /\ Shares(ids, two)[name] \in Int
  BY CompositeFacts
<1>2. Composite(ids, one) = [top |-> first, bottom |-> bottom]
      /\ Composite(ids, two) = [top |-> second, bottom |-> bottom]
  BY CompositeFacts
<1>3. first \in Int /\ second \in Int /\ bottom \in Nat \ {0}
  BY <1>2, CompositeFacts
<1>4. \A name \in metrics : Shares(ids, two)[name] < Shares(ids, one)[name]
  <2> SUFFICES ASSUME NEW name \in metrics
               PROVE  Shares(ids, two)[name] < Shares(ids, one)[name]
    OBVIOUS
  <2>1. name \in MetricNames /\ one \in Participants(ids, name) /\ two \in Participants(ids, name)
    BY DEF CountsFor, Participants
  <2>2. Precedes(one, two, name, Directions[name])
    BY DEF Precedes
  <2>3. RankIn(ids, name, one) < RankIn(ids, name, two)
    BY <2>1, <2>2, RankFollows
  <2>4. RankIn(ids, name, one) \in Nat /\ RankIn(ids, name, two) \in Nat
    BY RankIsNat
  <2>5. MetricWeights[name] \in Nat /\ MetricWeights[name] > 0
    BY <2>1, RankingBounds DEF CountsFor
  <2>6. Cardinality(ids) \in Nat
    BY RankingBounds, FS_Subset, FS_CardinalityType
  <2>7. Cardinality(ids) - RankIn(ids, name, two) + 1 < Cardinality(ids) - RankIn(ids, name, one) + 1
    BY <2>3, <2>4, <2>6
  <2>8. \A w \in Nat \ {0}, x \in Int, y \in Int : x < y => w * x < w * y
    BY SMTT(20)
  <2>9. Cardinality(ids) - RankIn(ids, name, two) + 1 \in Int
        /\ Cardinality(ids) - RankIn(ids, name, one) + 1 \in Int
    BY <2>4, <2>6
  <2>10. MetricWeights[name] * (Cardinality(ids) - RankIn(ids, name, two) + 1)
           < MetricWeights[name] * (Cardinality(ids) - RankIn(ids, name, one) + 1)
    BY <2>5, <2>7, <2>8, <2>9
  <2> QED
    BY <2>1, <2>10 DEF Shares
<1> HIDE DEF metrics
<1>5. second < first
  BY <1>1, <1>4, SumLess DEF metrics
<1> HIDE DEF first, second, bottom
<1>6. Score(Composite(ids, one)) = [top |-> first, bottom |-> bottom]
      /\ Score(Composite(ids, two)) = [top |-> second, bottom |-> bottom]
  BY <1>2, <1>3 DEF Score
<1>7. \A w \in Nat \ {0}, x \in Int, y \in Int : x < y => x * w < y * w
  BY SMTT(20)
<1> QED
  BY <1>3, <1>5, <1>6, <1>7 DEF AheadOf

(***************************************************************************)
(* A board: whoever precedes one that made the cut made it too.            *)
(***************************************************************************)
LEMMA BoardFollows ==
  ASSUME ResultsTyped, NEW name \in MetricNames, NEW direction, NEW limit \in Limits,
         NEW one \in Eligible(name), NEW two \in ListedBy(name, direction, limit),
         Precedes(one, two, name, direction)
  PROVE  /\ one \in ListedBy(name, direction, limit)
         /\ 1 + Cardinality({other \in ListedBy(name, direction, limit) :
                               Precedes(other, one, name, direction)})
              < 1 + Cardinality({other \in ListedBy(name, direction, limit) :
                                   Precedes(other, two, name, direction)})
<1> DEFINE listed == ListedBy(name, direction, limit)
           Before(set, id) == {other \in set : Precedes(other, id, name, direction)}
<1>1. Eligible(name) \in SUBSET RankedIds /\ listed \in SUBSET Eligible(name)
  BY DEF Eligible, ListedBy, Best
<1>2. ASSUME NEW set \in SUBSET RankedIds, one \in set, two \in RankedIds
      PROVE  /\ Cardinality(Before(set, one)) \in Nat /\ Cardinality(Before(set, two)) \in Nat
             /\ Cardinality(Before(set, one)) < Cardinality(Before(set, two))
  <2>1. IsFiniteSet(Before(set, two))
    BY RankingBounds, FS_Subset
  <2>2. \A other \in RankedIds : Precedes(other, one, name, direction)
                                   => Precedes(other, two, name, direction)
    BY <1>1, <1>2, PrecedesFacts
  <2>3. ~Precedes(one, one, name, direction)
    BY <1>1, PrecedesFacts
  <2>4. Before(set, one) \in SUBSET Before(set, two) /\ one \in Before(set, two)
        /\ one \notin Before(set, one)
    BY <1>2, <2>2, <2>3
  <2> HIDE DEF Before
  <2> QED
    BY <2>1, <2>4, FewerBefore
<1>3. two \in RankedIds
  BY <1>1
<1>4. one \in listed
  <2>1. CASE limit = 0
    BY <2>1 DEF ListedBy
  <2>2. CASE limit # 0
    <3>1. limit \in Nat /\ Cardinality(Before(Eligible(name), two)) < limit
      BY <2>2, RankingBounds DEF ListedBy, Best
    <3>2. /\ Cardinality(Before(Eligible(name), one)) \in Nat
          /\ Cardinality(Before(Eligible(name), two)) \in Nat
          /\ Cardinality(Before(Eligible(name), one)) < Cardinality(Before(Eligible(name), two))
      BY <1>1, <1>2, <1>3
    <3>3. Cardinality(Before(Eligible(name), one)) < limit
      <4> HIDE DEF Before
      <4> QED
        BY <3>1, <3>2
    <3> QED
      BY <2>2, <3>3 DEF ListedBy, Best
  <2> QED
    BY <2>1, <2>2
<1>5. /\ Cardinality(Before(listed, one)) \in Nat /\ Cardinality(Before(listed, two)) \in Nat
      /\ Cardinality(Before(listed, one)) < Cardinality(Before(listed, two))
  BY <1>1, <1>2, <1>3, <1>4
<1>6. 1 + Cardinality(Before(listed, one)) < 1 + Cardinality(Before(listed, two))
  <2> HIDE DEF Before, listed
  <2> QED
    BY <1>5
<1> QED
  BY <1>4, <1>6

(***************************************************************************)
(* The rankings' half of the theorem below.                                *)
(***************************************************************************)
LEMMA RankingsAreImplied == RankingSpec => []RankingsFollowResults
<1>1. RankInv => RankingsFollowResults
  <2> SUFFICES ASSUME RankInv PROVE RankingsFollowResults
    OBVIOUS
  <2>1. ASSUME NEW one \in comparison.ids, NEW two \in comparison.ids,
               CountsFor(one) = CountsFor(two), CountsFor(one) # {},
               \A name \in CountsFor(one) :
                 Better(MetricOf(one, name), MetricOf(two, name), Directions[name])
        PROVE  comparison.overall[one] < comparison.overall[two]
    <3> DEFINE ids == comparison.ids
               Before(id) == {other \in ids : AheadOf(ids, other, id)}
    <3>1. ids \in SUBSET RankedIds /\ ResultsTyped
      BY DEF RankInv
    <3>2. comparison.overall[one] = 1 + Cardinality(Before(one))
          /\ comparison.overall[two] = 1 + Cardinality(Before(two))
      BY DEF RankInv, ComparisonIsMade
    <3>3. AheadOf(ids, one, two)
      BY <2>1, <3>1, BetterIsAhead
    <3>4. Before(one) \in SUBSET Before(two) /\ one \in Before(two) /\ one \notin Before(one)
      BY <3>1, <3>3, AheadFacts
    <3>5. IsFiniteSet(Before(two))
      BY <3>1, RankingBounds, FS_Subset
    <3> HIDE DEF Before
    <3>6. /\ Cardinality(Before(one)) \in Nat /\ Cardinality(Before(two)) \in Nat
          /\ Cardinality(Before(one)) < Cardinality(Before(two))
      BY <3>4, <3>5, FewerBefore
    <3> QED
      BY <3>2, <3>6
  <2>2. ASSUME NEW name \in board.metric, NEW one \in Eligible(name), NEW two \in DOMAIN board.rank,
               Better(MetricOf(one, name), MetricOf(two, name), board.direction)
        PROVE  one \in DOMAIN board.rank /\ board.rank[one] < board.rank[two]
    <3>1. PICK n \in MetricNames, direction \in {"higher", "lower"}, limit \in Limits :
            /\ board.metric = {n} /\ board.direction = direction
            /\ board.rank = [id \in ListedBy(n, direction, limit) |->
                 1 + Cardinality({other \in ListedBy(n, direction, limit) :
                                    Precedes(other, id, n, direction)})]
      BY <2>2 DEF RankInv, BoardIsMade
    <3>2. name = n
      BY <2>2, <3>1
    <3> DEFINE listed == ListedBy(n, direction, limit)
               Place(id) == 1 + Cardinality({other \in listed : Precedes(other, id, n, direction)})
    <3>3. board.rank = [id \in listed |-> Place(id)]
      BY <3>1
    <3>4. Precedes(one, two, n, direction) /\ two \in listed /\ ResultsTyped
      BY <2>2, <3>1, <3>2 DEF Precedes, RankInv
    <3>5. one \in listed /\ Place(one) < Place(two)
      BY <2>2, <3>1, <3>2, <3>4, BoardFollows
    <3> HIDE DEF listed, Place
    <3> QED
      BY <3>3, <3>4, <3>5
  <2> QED
    BY <2>1, <2>2 DEF RankingsFollowResults, Better
<1> QED
  BY <1>1, RankInvHolds, PTL

(***************************************************************************)
(* What research reports is what was done: a trial a report called a       *)
(* duplicate is never counted again and a budget never moves once it is    *)
(* declared; and no ranking, whoever takes part and whatever the weights,  *)
(* places an experiment before one that is better wherever both are        *)
(* measured.                                                               *)
(***************************************************************************)
THEOREM ResearchCounts == LedgerSpec /\ RankingSpec => []ResearchIsCounted
BY LedgerIsHonest, RankingsAreImplied, PTL DEF ResearchIsCounted

-----------------------------------------------------------------------------
(***************************************************************************)
(* ResearchRegistries, the tables.  Each conjunct needs one fact about     *)
(* what the tables have been through: data by the order of versions, the   *)
(* champions by their transitions, retirement by the moves out of it.      *)
(***************************************************************************)

TablesTyped ==
  /\ DOMAIN datasets \subseteq Versions /\ DOMAIN models \subseteq Versions
  /\ models \in [DOMAIN models -> [status: ModelStatuses, dataset: Versions, trainedOn: Contents]]
  /\ strategies \in [DOMAIN strategies -> [state: StrategyStates, declared: SUBSET ParamNames,
                                           required: SUBSET ParamNames]]
  /\ \A v \in DOMAIN datasets : datasets[v] \in Contents
  /\ transitions \in Seq([to: Versions, from: SUBSET Versions, rollback: BOOLEAN, declared: BOOLEAN])

\* What was champion, or declared to have been, is what there is to roll back to.
ChampionsInv ==
  /\ Incumbents \ declaredLive = champions \ declaredLive
  /\ champions = IF transitions = <<>> THEN {} ELSE {transitions[Len(transitions)].to}
  /\ \A v \in DOMAIN models : models[v].status = "archived" /\ v \notin declaredLive
       => \E j \in 1..Len(transitions) : transitions[j].to = v \/ v \in transitions[j].from
  /\ \A i \in 1..Len(transitions) :
       /\ transitions[i].to \in DOMAIN models
       /\ models[transitions[i].to].status \in {"champion", "archived"}
       /\ transitions[i].rollback = TRUE =>
            \/ transitions[i].declared = TRUE
            \/ WasChampion(transitions[i].to, i)

RetirementInv ==
  /\ everRetired \subseteq DOMAIN strategies
  /\ \A v \in everRetired : strategies[v].state = "retired"
  /\ \A e \in prepared : ~e.afterRetirement

RegistriesInv == TablesTyped /\ DataUnchanged /\ ChampionsInv /\ RetirementInv

(***************************************************************************)
(* A table with an entry more of the same kind is such a table.            *)
(***************************************************************************)
LEMMA WithTyped ==
  ASSUME NEW S, NEW table, table \in [DOMAIN table -> S], NEW v, NEW entry \in S
  PROVE  With(table, v, entry) \in [DOMAIN With(table, v, entry) -> S]
BY DEF With

(***************************************************************************)
(* A dataset version comes after all there are, and so replaces none.      *)
(***************************************************************************)
LEMMA DatasetKeeps ==
  ASSUME RegistriesInv, NEW v \in Versions, NEW content \in Contents, RegisterDataset(v, content)
  PROVE  RegistriesInv'
<1>1. v \notin DOMAIN datasets
  <2>1. \A u \in Versions : ~(u < u)
    BY RegistryBounds
  <2> QED
    BY <2>1 DEF RegisterDataset, Advances
<1>2. /\ DOMAIN datasets' = DOMAIN datasets \cup {v} /\ datasets'[v] = content
      /\ \A u \in DOMAIN datasets : datasets'[u] = datasets[u]
      /\ UNCHANGED <<models, champions, transitions, declaredLive, strategies, everRetired, prepared>>
  <2>1. datasets' = With(datasets, v, content)
        /\ UNCHANGED <<models, champions, transitions, declaredLive, strategies, everRetired, prepared>>
    BY DEF RegisterDataset, modelVars, strategyVars
  <2> QED
    BY <1>1, <2>1 DEF With
<1>3. TablesTyped'
  BY <1>2 DEF RegistriesInv, TablesTyped
<1>4. DataUnchanged'
  BY <1>2 DEF RegistriesInv, DataUnchanged
<1>5. ChampionsInv'
  BY <1>2 DEF RegistriesInv, ChampionsInv, Incumbents, WasChampion
<1>6. RetirementInv'
  BY <1>2 DEF RegistriesInv, RetirementInv
<1> QED
  BY <1>3, <1>4, <1>5, <1>6 DEF RegistriesInv

(***************************************************************************)
(* A model is registered once, against data that is there.                 *)
(***************************************************************************)
LEMMA ModelKeeps ==
  ASSUME RegistriesInv, NEW v \in Versions, NEW status \in ModelStatuses, NEW d \in Versions,
         RegisterModel(v, status, d)
  PROVE  RegistriesInv'
<1> DEFINE entry == [status |-> status, dataset |-> d, trainedOn |-> datasets[d]]
<1>1. entry \in [status: ModelStatuses, dataset: Versions, trainedOn: Contents]
      /\ entry.status = status /\ entry.dataset = d /\ entry.trainedOn = datasets[d]
  BY DEF RegistriesInv, TablesTyped, RegisterModel
<1>2. /\ v \notin DOMAIN models /\ d \in DOMAIN datasets /\ models' = With(models, v, entry)
      /\ declaredLive' = IF status \in {"champion", "archived"}
                         THEN declaredLive \cup {v} ELSE declaredLive
      /\ UNCHANGED <<datasets, champions, transitions, strategies, everRetired, prepared>>
  BY DEF RegisterModel, strategyVars
<1> HIDE DEF entry
<1>3. /\ DOMAIN models' = DOMAIN models \cup {v} /\ models'[v] = entry
      /\ \A u \in DOMAIN models : models'[u] = models[u]
      /\ models' \in [DOMAIN models' -> [status: ModelStatuses, dataset: Versions, trainedOn: Contents]]
  <2>1. models \in [DOMAIN models -> [status: ModelStatuses, dataset: Versions, trainedOn: Contents]]
    BY DEF RegistriesInv, TablesTyped
  <2> QED
    <3>1. /\ DOMAIN models' = DOMAIN models \cup {v} /\ models'[v] = entry
          /\ \A u \in DOMAIN models : models'[u] = models[u]
      BY <1>2 DEF With
    <3>2. models' \in [DOMAIN models' -> [status: ModelStatuses, dataset: Versions, trainedOn: Contents]]
      BY <1>1, <1>2, <2>1, WithTyped
    <3> QED
      BY <3>1, <3>2
<1>4. TablesTyped'
  BY <1>2, <1>3 DEF RegistriesInv, TablesTyped
<1>5. DataUnchanged'
  BY <1>1, <1>2, <1>3 DEF RegistriesInv, DataUnchanged
<1>6. ChampionsInv'
  <2>1. Incumbents' = IF status = "champion" THEN Incumbents \cup {v} ELSE Incumbents
    BY <1>1, <1>2, <1>3 DEF Incumbents
  <2>2. Incumbents' \ declaredLive' = champions' \ declaredLive'
    BY <1>2, <2>1 DEF RegistriesInv, ChampionsInv
  <2>3. \A u \in DOMAIN models' : models'[u].status = "archived" /\ u \notin declaredLive'
          => \E j \in 1..Len(transitions') : transitions'[j].to = u \/ u \in transitions'[j].from
    BY <1>1, <1>2, <1>3 DEF RegistriesInv, ChampionsInv
  <2>4. \A i \in 1..Len(transitions') :
          /\ transitions'[i].to \in DOMAIN models'
          /\ models'[transitions'[i].to].status \in {"champion", "archived"}
          /\ transitions'[i].rollback = TRUE =>
               \/ transitions'[i].declared = TRUE
               \/ WasChampion(transitions[i].to, i)
    BY <1>2, <1>3 DEF RegistriesInv, ChampionsInv
  <2>5. champions' = IF transitions' = <<>> THEN {} ELSE {transitions'[Len(transitions')].to}
    BY <1>2 DEF RegistriesInv, ChampionsInv
  <2> QED
    BY <1>2, <2>2, <2>3, <2>4, <2>5 DEF ChampionsInv, WasChampion
<1>7. RetirementInv'
  BY <1>2 DEF RegistriesInv, RetirementInv
<1> QED
  BY <1>4, <1>5, <1>6, <1>7 DEF RegistriesInv

(***************************************************************************)
(* A promotion, by whichever call: the incumbents go into the transition   *)
(* that unseats them, and so stay known as former champions.               *)
(***************************************************************************)
LEMMA PromotionKeeps ==
  ASSUME RegistriesInv, NEW v \in Versions, NEW rollback \in BOOLEAN, PromoteAs(v, rollback),
         (rollback = TRUE) => models[v].status = "archived"
  PROVE  RegistriesInv'
<1> DEFINE Model == [status: ModelStatuses, dataset: Versions, trainedOn: Contents]
           n == Len(transitions)
           Transition == [to: Versions, from: SUBSET Versions, rollback: BOOLEAN, declared: BOOLEAN]
           entry == [to |-> v, from |-> Incumbents, rollback |-> rollback,
                     declared |-> v \in declaredLive]
<1>0. TablesTyped /\ DataUnchanged /\ ChampionsInv /\ RetirementInv
  BY DEF RegistriesInv
<1>1. /\ v \in DOMAIN models /\ models[v].status \notin {"champion", "failed"}
      /\ models' = [u \in DOMAIN models |-> [models[u] EXCEPT !.status = StatusAfter(v, u)]]
      /\ champions' = {v} /\ transitions' = Append(transitions, entry)
      /\ declaredLive' = {u \in declaredLive : models[u].status = "archived" /\ u # v}
      /\ UNCHANGED <<datasets, strategies, everRetired, prepared>>
  BY DEF PromoteAs, strategyVars
<1>2. \A u \in DOMAIN models : models[u] \in Model
  BY <1>0 DEF TablesTyped
<1>3. \A u \in DOMAIN models : StatusAfter(v, u) \in ModelStatuses
  BY <1>2 DEF StatusAfter, ModelStatuses
<1>4. /\ DOMAIN models' = DOMAIN models
      /\ \A u \in DOMAIN models : /\ models'[u] \in Model
                                  /\ models'[u].status = StatusAfter(v, u)
                                  /\ models'[u].dataset = models[u].dataset
                                  /\ models'[u].trainedOn = models[u].trainedOn
  <2>1. DOMAIN models' = DOMAIN models
    BY <1>1
  <2> SUFFICES ASSUME NEW u \in DOMAIN models
               PROVE  /\ models'[u] \in Model
                      /\ models'[u].status = StatusAfter(v, u)
                      /\ models'[u].dataset = models[u].dataset
                      /\ models'[u].trainedOn = models[u].trainedOn
    BY <2>1
  <2>2. models'[u] = [models[u] EXCEPT !.status = StatusAfter(v, u)]
    BY <1>1
  <2> QED
    BY <1>2, <1>3, <2>2
<1> HIDE DEF Model
<1>5. /\ Incumbents \subseteq DOMAIN models /\ v \notin Incumbents
      /\ \A u \in DOMAIN models :
           /\ u = v => models'[u].status = "champion"
           /\ u \in Incumbents => models'[u].status = "archived"
           /\ u # v /\ u \notin Incumbents => models'[u].status = models[u].status
                                              /\ models[u].status # "champion"
  BY <1>1, <1>4 DEF Incumbents, StatusAfter
<1>6. entry \in Transition /\ entry.to = v /\ entry.from = Incumbents
      /\ entry.rollback = rollback /\ (entry.declared = TRUE <=> v \in declaredLive)
  <2>1. Incumbents \in SUBSET Versions
    BY <1>0, <1>5 DEF TablesTyped
  <2>2. (v \in declaredLive) \in BOOLEAN
    OBVIOUS
  <2> QED
    BY <2>1, <2>2
<1> HIDE DEF entry, Transition
<1>7. transitions \in Seq(Transition)
  BY <1>0 DEF TablesTyped, Transition
<1>8. /\ transitions' \in Seq(Transition) /\ n \in Nat /\ Len(transitions') = n + 1
      /\ transitions'[n + 1] = entry /\ transitions' # <<>>
      /\ \A i \in 1..n : transitions'[i] = transitions[i]
      /\ \A i \in 1..(n + 1) : i = n + 1 \/ i \in 1..n
      /\ n + 1 \in 1..(n + 1) /\ \A i \in 1..n : i \in 1..(n + 1)
  BY <1>1, <1>6, <1>7
<1> HIDE DEF n
<1>9. TablesTyped'
  <2>1. models' \in [DOMAIN models' -> Model]
    BY <1>1, <1>4
  <2> QED
    BY <1>0, <1>1, <1>4, <1>8, <2>1 DEF TablesTyped, Model, Transition
<1>10. DataUnchanged'
  BY <1>0, <1>1, <1>4 DEF DataUnchanged
<1>11. RetirementInv'
  BY <1>0, <1>1 DEF RetirementInv
<1>12. Incumbents' = {v}
  <2>1. Incumbents' = {u \in DOMAIN models : models'[u].status = "champion"}
    BY <1>4 DEF Incumbents
  <2> QED
    BY <1>1, <1>5, <2>1
<1>13. \A u \in DOMAIN models' : models'[u].status = "archived" /\ u \notin declaredLive'
          => \E j \in 1..(n + 1) : transitions'[j].to = u \/ u \in transitions'[j].from
  <2> SUFFICES ASSUME NEW u \in DOMAIN models, models'[u].status = "archived", u \notin declaredLive'
               PROVE  \E j \in 1..(n + 1) : transitions'[j].to = u \/ u \in transitions'[j].from
    BY <1>4
  <2>1. CASE u \in Incumbents
    BY <1>6, <1>8, <2>1
  <2>2. CASE u \notin Incumbents
    <3>1. u # v /\ models[u].status = "archived"
      BY <1>5, <2>2
    <3>2. u \notin declaredLive
      BY <1>1, <3>1
    <3>3. PICK j \in 1..n : transitions[j].to = u \/ u \in transitions[j].from
      BY <1>0, <3>1, <3>2 DEF ChampionsInv, n
    <3> QED
      BY <1>8, <3>3
  <2> QED
    BY <2>1, <2>2
<1>14. ASSUME NEW i \in 1..(n + 1)
       PROVE  /\ transitions'[i].to \in DOMAIN models'
              /\ models'[transitions'[i].to].status \in {"champion", "archived"}
              /\ transitions'[i].rollback = TRUE =>
                   \/ transitions'[i].declared = TRUE
                   \/ \E j \in 1..(i - 1) : transitions'[j].to = transitions'[i].to
                                            \/ transitions'[i].to \in transitions'[j].from
  <2>1. CASE i = n + 1
    <3>1. /\ transitions'[i].to \in DOMAIN models'
          /\ models'[transitions'[i].to].status \in {"champion", "archived"}
      BY <1>1, <1>4, <1>5, <1>6, <1>8, <2>1
    <3>2. ASSUME rollback = TRUE, v \notin declaredLive
          PROVE  \E j \in 1..n : transitions'[j].to = v \/ v \in transitions'[j].from
      <4>1. models[v].status = "archived"
        BY <3>2
      <4>2. \E j \in 1..n : transitions[j].to = v \/ v \in transitions[j].from
        BY <1>0, <1>1, <3>2, <4>1 DEF ChampionsInv, n
      <4> QED
        BY <1>8, <4>2
    <3>3. i - 1 = n
      BY <1>8, <2>1
    <3> QED
      BY <1>6, <1>8, <2>1, <3>1, <3>2, <3>3
  <2>2. CASE i \in 1..n
    <3>1. /\ transitions[i].to \in DOMAIN models
          /\ models[transitions[i].to].status \in {"champion", "archived"}
          /\ transitions[i].rollback = TRUE =>
               \/ transitions[i].declared = TRUE
               \/ WasChampion(transitions[i].to, i)
      BY <1>0, <2>2 DEF ChampionsInv, n
    <3>2. models'[transitions[i].to].status \in {"champion", "archived"}
      BY <1>5, <3>1
    <3>3. \A j \in 1..(i - 1) : j \in 1..n
      BY <1>8, <2>2
    <3> QED
      BY <1>4, <1>8, <2>2, <3>1, <3>2, <3>3 DEF WasChampion
  <2> QED
    BY <1>8, <2>1, <2>2
<1>15. ChampionsInv'
  <2>1. Incumbents' \ declaredLive' = champions' \ declaredLive'
    BY <1>1, <1>12
  <2>2. champions' = IF transitions' = <<>> THEN {} ELSE {transitions'[Len(transitions')].to}
    BY <1>1, <1>6, <1>8
  <2> QED
    BY <1>8, <1>13, <1>14, <2>1, <2>2 DEF ChampionsInv, WasChampion
<1> QED
  BY <1>9, <1>10, <1>11, <1>15 DEF RegistriesInv

(***************************************************************************)
(* The registry of strategies, and experiments prepared against it.        *)
(***************************************************************************)
LEMMA StrategiesKeep ==
  ASSUME RegistriesInv, StrategiesNext
  PROVE  RegistriesInv'
<1> DEFINE Strategy == [state: StrategyStates, declared: SUBSET ParamNames,
                        required: SUBSET ParamNames]
<1>0. TablesTyped /\ DataUnchanged /\ ChampionsInv /\ RetirementInv
      /\ strategies \in [DOMAIN strategies -> Strategy]
  BY DEF RegistriesInv, TablesTyped
<1> HIDE DEF Strategy
<1>1. ASSUME UNCHANGED <<datasets, models, champions, transitions, declaredLive>>,
             strategies' \in [DOMAIN strategies' -> Strategy],
             prepared' \subseteq prepared
      PROVE  TablesTyped' /\ DataUnchanged' /\ ChampionsInv'
  <2>1. TablesTyped'
    BY <1>0, <1>1 DEF TablesTyped, Strategy
  <2>2. DataUnchanged'
    BY <1>0, <1>1 DEF DataUnchanged
  <2>3. ChampionsInv'
    BY <1>0, <1>1 DEF ChampionsInv, Incumbents, WasChampion
  <2> QED
    BY <2>1, <2>2, <2>3
<1>2. ASSUME NEW v \in Versions, NEW state \in StrategyStates,
             NEW params \in SUBSET ParamNames, NEW required \in SUBSET ParamNames,
             RegisterStrategy(v, state, params, required)
      PROVE  RegistriesInv'
  <2> DEFINE entry == [state |-> state, declared |-> params, required |-> required]
  <2>1. entry \in Strategy /\ entry.state = state
    BY DEF Strategy
  <2>2. /\ v \notin DOMAIN strategies /\ strategies' = With(strategies, v, entry)
        /\ everRetired' = IF state = "retired" THEN everRetired \cup {v} ELSE everRetired
        /\ UNCHANGED <<datasets, models, champions, transitions, declaredLive, prepared>>
    BY <1>2 DEF RegisterStrategy, modelVars
  <2> HIDE DEF entry
  <2>3. strategies' \in [DOMAIN strategies' -> Strategy]
    BY <1>0, <2>1, <2>2, WithTyped
  <2>4. DOMAIN strategies' = DOMAIN strategies \cup {v} /\ strategies'[v] = entry
        /\ \A u \in DOMAIN strategies : strategies'[u] = strategies[u]
    BY <2>2 DEF With
  <2>5. RetirementInv'
    BY <1>0, <2>1, <2>2, <2>4 DEF RetirementInv
  <2> QED
    BY <1>1, <2>2, <2>3, <2>5 DEF RegistriesInv
<1>3. ASSUME NEW v \in Versions, NEW target \in StrategyStates, TransitionStrategy(v, target)
      PROVE  RegistriesInv'
  <2>1. /\ v \in DOMAIN strategies /\ strategies[v].state # "retired"
        /\ strategies' = [strategies EXCEPT ![v].state = target]
        /\ everRetired' = IF target = "retired" THEN everRetired \cup {v} ELSE everRetired
        /\ UNCHANGED <<datasets, models, champions, transitions, declaredLive, prepared>>
    BY <1>3 DEF TransitionStrategy, MayMove, modelVars
  <2>2. strategies[v] \in Strategy
    BY <1>0, <2>1
  <2> DEFINE moved == [strategies[v] EXCEPT !.state = target]
  <2>3. moved \in Strategy /\ moved.state = target
    BY <2>2 DEF Strategy
  <2>4. strategies' = [strategies EXCEPT ![v] = moved]
    BY <2>1
  <2> HIDE DEF moved
  <2>5. /\ DOMAIN strategies' = DOMAIN strategies /\ strategies'[v] = moved
        /\ \A u \in DOMAIN strategies : u # v => strategies'[u] = strategies[u]
        /\ strategies' \in [DOMAIN strategies' -> Strategy]
    BY <1>0, <2>1, <2>3, <2>4
  <2>6. RetirementInv'
    BY <1>0, <2>1, <2>3, <2>5 DEF RetirementInv
  <2> QED
    BY <1>1, <2>1, <2>5, <2>6 DEF RegistriesInv
<1>4. ASSUME NEW v \in Versions, NEW d \in Versions, NEW supplied \in SUBSET ParamNames,
             NEW seed \in Seeds, PrepareExperiment(v, d, supplied, seed)
      PROVE  RegistriesInv'
  <2> DEFINE e == [strategy |-> v, dataset |-> d, runsOn |-> datasets[d], supplied |-> supplied,
                   seed |-> seed, afterRetirement |-> v \in everRetired]
  <2>1. /\ v \in DOMAIN strategies /\ d \in DOMAIN datasets /\ prepared' = prepared \cup {e}
        /\ UNCHANGED <<datasets, models, champions, transitions, declaredLive, strategies, everRetired>>
        /\ strategies[v].state # "retired"
    BY <1>4 DEF PrepareExperiment, AcceptsNewExperiments, modelVars, strategyVars
  <2>2. v \notin everRetired
    BY <1>0, <2>1 DEF RetirementInv
  <2>3. e.dataset = d /\ e.runsOn = datasets[d] /\ ~e.afterRetirement
    BY <2>2
  <2> HIDE DEF e
  <2>4. TablesTyped' /\ ChampionsInv'
    BY <1>0, <2>1 DEF TablesTyped, ChampionsInv, Incumbents, WasChampion
  <2>5. DataUnchanged'
    BY <1>0, <2>1, <2>3 DEF DataUnchanged
  <2>6. RetirementInv'
    <3>1. \A x \in prepared' : x \in prepared \/ x = e
      BY <2>1
    <3>2. \A x \in prepared' : ~x.afterRetirement
      BY <1>0, <2>3, <3>1, Zenon DEF RetirementInv
    <3> QED
      BY <1>0, <2>1, <3>2, Zenon DEF RetirementInv
  <2> QED
    BY <2>4, <2>5, <2>6 DEF RegistriesInv
<1>5. ASSUME ClearStrategies
      PROVE  RegistriesInv'
  <2>1. /\ strategies' = <<>> /\ everRetired' = {} /\ prepared' = {}
        /\ UNCHANGED <<datasets, models, champions, transitions, declaredLive>>
    BY <1>5 DEF ClearStrategies, modelVars
  <2>2. strategies' \in [DOMAIN strategies' -> Strategy]
    BY <2>1
  <2>3. RetirementInv'
    BY <2>1 DEF RetirementInv
  <2> QED
    BY <1>1, <2>1, <2>2, <2>3 DEF RegistriesInv
<1> QED
  BY <1>2, <1>3, <1>4, <1>5 DEF StrategiesNext

(***************************************************************************)
(* No operation of the three registries breaks it.                         *)
(***************************************************************************)
LEMMA RegistriesInvHolds == RegistriesSpec => []RegistriesInv
<1>1. RegistriesInit => RegistriesInv
  <2> SUFFICES ASSUME RegistriesInit PROVE RegistriesInv
    OBVIOUS
  <2>1. DOMAIN datasets = {} /\ DOMAIN models = {} /\ DOMAIN strategies = {}
        /\ transitions = <<>> /\ champions = {} /\ prepared = {} /\ everRetired = {}
    BY DEF RegistriesInit
  <2>2. TablesTyped
    BY <2>1 DEF RegistriesInit, TablesTyped
  <2>3. DataUnchanged /\ ChampionsInv /\ RetirementInv
    BY <2>1 DEF DataUnchanged, ChampionsInv, Incumbents, RetirementInv
  <2> QED
    BY <2>2, <2>3 DEF RegistriesInv
<1>2. RegistriesInv /\ [RegistriesNext]_registryVars => RegistriesInv'
  <2> SUFFICES ASSUME RegistriesInv, [RegistriesNext]_registryVars
               PROVE  RegistriesInv'
    OBVIOUS
  <2>1. CASE DatasetsNext
    BY <2>1, DatasetKeeps DEF DatasetsNext
  <2>2. CASE ModelsNext
    <3>1. ASSUME NEW v \in Versions, NEW status \in ModelStatuses, NEW d \in Versions,
                 RegisterModel(v, status, d)
          PROVE  RegistriesInv'
      BY <3>1, ModelKeeps
    <3>2. ASSUME NEW v \in Versions, Promote(v) PROVE RegistriesInv'
      <4>1. PromoteAs(v, FALSE)
        BY <3>2 DEF Promote
      <4> QED
        BY <4>1, PromotionKeeps
    <3>3. ASSUME NEW v \in Versions, RollBack(v) PROVE RegistriesInv'
      BY <3>3, PromotionKeeps DEF RollBack
    <3> QED
      BY <2>2, <3>1, <3>2, <3>3 DEF ModelsNext
  <2>3. CASE StrategiesNext
    BY <2>3, StrategiesKeep
  <2>4. CASE UNCHANGED registryVars
    BY <2>4 DEF registryVars, RegistriesInv, TablesTyped, DataUnchanged, ChampionsInv,
                RetirementInv, Incumbents, WasChampion
  <2> QED
    BY <2>1, <2>2, <2>3, <2>4 DEF RegistriesNext
<1> QED
  BY <1>1, <1>2, PTL DEF RegistriesSpec

(***************************************************************************)
(* The registries' half of the theorem below.                              *)
(***************************************************************************)
LEMMA ResearchIsReproducible == RegistriesSpec => []ResearchReproducible
<1>1. RegistriesInv => ResearchReproducible
  <2> SUFFICES ASSUME RegistriesInv PROVE ResearchReproducible
    OBVIOUS
  <2>1. DataUnchanged /\ ChampionsInv /\ RetirementInv
        /\ transitions \in Seq([to: Versions, from: SUBSET Versions,
                                rollback: BOOLEAN, declared: BOOLEAN])
    BY DEF RegistriesInv, TablesTyped
  <2>2. IndexAgrees
    BY <2>1 DEF ChampionsInv, IndexAgrees, Last
  <2>3. FormerChampionsKept
    <3> SUFFICES ASSUME NEW i \in 1..Len(transitions)
                 PROVE  /\ models[transitions[i].to].status \in {"champion", "archived"}
                        /\ transitions[i].rollback
                             => transitions[i].declared \/ WasChampion(transitions[i].to, i)
      BY DEF FormerChampionsKept
    <3> DEFINE Transition == [to: Versions, from: SUBSET Versions, rollback: BOOLEAN, declared: BOOLEAN]
    <3>0. transitions[i] \in Transition
      <4> HIDE DEF Transition
      <4>1. transitions \in Seq(Transition)
        BY <2>1 DEF Transition
      <4> QED
        BY <4>1
    <3>1. transitions[i].rollback \in BOOLEAN /\ transitions[i].declared \in BOOLEAN
      BY <3>0, Zenon
    <3> HIDE DEF Transition
    <3>2. transitions[i].rollback => transitions[i].rollback = TRUE
      BY <3>1, Zenon
    <3>3. transitions[i].declared = TRUE => transitions[i].declared
      BY <3>1, Zenon
    <3>4. /\ models[transitions[i].to].status \in {"champion", "archived"}
          /\ transitions[i].rollback = TRUE =>
               \/ transitions[i].declared = TRUE
               \/ WasChampion(transitions[i].to, i)
      BY <2>1 DEF ChampionsInv
    <3> QED
      BY <3>2, <3>3, <3>4, Zenon
  <2>4. \A e \in prepared : ~e.afterRetirement
    BY <2>1, Zenon DEF RetirementInv
  <2> QED
    BY <2>1, <2>2, <2>3, <2>4, Zenon DEF ResearchReproducible
<1> QED
  BY <1>1, RegistriesInvHolds, PTL

-----------------------------------------------------------------------------
(***************************************************************************)
(* ResearchRegistries, the walk over dependencies.  What is needed is the  *)
(* least closed set, so that membership follows from steps along the stack *)
(* and its bound from any closed set: the strategies already ordered, or   *)
(* those ordered before one of them.                                       *)
(***************************************************************************)

Closed(from) ==
  {s \in SUBSET Strategies : DependsOn(from) \subseteq s /\ \A id \in s : DependsOn(id) \subseteq s}

DependenciesTyped ==
  /\ Registered \in SUBSET Strategies
  /\ \A id \in Registered : dependsOn[id] \in SUBSET Strategies

(***************************************************************************)
(* Needed is defined: the meet of the closed sets is one of them.          *)
(***************************************************************************)
LEMMA NeededIsLeast ==
  ASSUME DependenciesTyped, NEW from
  PROVE  Needed(from) \in Closed(from) /\ \A other \in Closed(from) : Needed(from) \subseteq other
<1> DEFINE least == {x \in Strategies : \A s \in Closed(from) : x \in s}
<1>1. \A id : DependsOn(id) \subseteq Strategies
  BY DEF DependsOn, DependenciesTyped
<1>2. least \in Closed(from)
  <2>1. DependsOn(from) \subseteq least
    BY <1>1 DEF Closed
  <2>2. ASSUME NEW id \in least PROVE DependsOn(id) \subseteq least
    BY <1>1, <2>2 DEF Closed
  <2> QED
    BY <2>1, <2>2 DEF Closed
<1>3. \A other \in Closed(from) : least \subseteq other
  OBVIOUS
<1>4. Needed(from) = CHOOSE s \in Closed(from) : \A other \in Closed(from) : s \subseteq other
  BY DEF Needed, Closed
<1> HIDE DEF least
<1> QED
  BY <1>2, <1>3, <1>4

(***************************************************************************)
(* What needing comes to: a dependency is needed, so is what a needed one  *)
(* needs, and nothing beyond a closed set is.                              *)
(***************************************************************************)
LEMMA NeededFacts ==
  ASSUME DependenciesTyped
  PROVE  /\ \A from : Needed(from) \subseteq Strategies /\ DependsOn(from) \subseteq Needed(from)
         /\ \A from : \A id \in Needed(from) : DependsOn(id) \subseteq Needed(from)
         /\ \A from : \A id \in Needed(from) : Needed(id) \subseteq Needed(from)
         /\ \A from, s : s \in SUBSET Strategies /\ DependsOn(from) \subseteq s
                           /\ (\A id \in s : DependsOn(id) \subseteq s)
                         => Needed(from) \subseteq s
<1>1. \A from : /\ Needed(from) \in Closed(from)
                /\ \A other \in Closed(from) : Needed(from) \subseteq other
  BY NeededIsLeast
<1>2. \A from : \A id \in Needed(from) : Needed(from) \in Closed(id)
  BY <1>1 DEF Closed
<1> QED
  BY <1>1, <1>2 DEF Closed

(***************************************************************************)
(* A finite set is listed whole by SetToSeq.                               *)
(***************************************************************************)
LEMMA SetToSeqFacts ==
  ASSUME NEW S, IsFiniteSet(S)
  PROVE  SetToSeq(S) \in Seq(S) /\ Range(SetToSeq(S)) = S
<1> DEFINE n == Cardinality(S)
           D == 1..n
           Lists == {f \in [D -> S] : IsInjective(f)}
<1>1. n \in Nat
  BY FS_CardinalityType
<1>2. PICK g \in [D -> S] : g \in Bijection(D, S)
  BY FS_CardinalityType DEF ExistsBijection, Bijection, Injection
<1>3. IsInjective(g)
  BY <1>2 DEF Bijection, Injection, IsInjective
<1> DEFINE f == CHOOSE f \in [D -> S] : IsInjective(f)
<1>4. f \in [D -> S] /\ IsInjective(f) /\ SetToSeq(S) = f
  BY <1>2, <1>3 DEF SetToSeq
<1> HIDE DEF f
<1>5. f \in Injection(D, S)
  BY <1>4 DEF Injection
<1>6. IsFiniteSet(D) /\ Cardinality(D) = Cardinality(S)
  BY <1>1, FS_Interval
<1>7. f \in Surjection(D, S)
  <2> HIDE DEF D
  <2> QED
    BY <1>5, <1>6, FS_Injection
<1>8. Range(f) = S
  BY <1>4, <1>7 DEF Surjection, Range
<1>9. f \in Seq(S)
  <2> HIDE DEF n
  <2> QED
    BY <1>1, <1>4
<1> QED
  BY <1>4, <1>8, <1>9

-----------------------------------------------------------------------------
Frames == [id: Strategies, rest: Seq(Strategies)]
InResult == Needed(Root) \cup {Root}

\* The stack is a path of dependencies from the root, each strategy on it once.
PathInv ==
  \A i \in 1..Len(stack) :
    /\ stack[i].id \in Registered /\ mark[stack[i].id] = "visiting"
    /\ Range(stack[i].rest) \subseteq dependsOn[stack[i].id]
    /\ i = 1 => stack[i].id = Root
    /\ \A j \in 1..Len(stack) :
         i < j => stack[j].id # stack[i].id /\ stack[j].id \in Needed(stack[i].id)

\* What is ordered comes after all it depends on.
ResultInv ==
  \A j \in 1..Len(ordered) :
    /\ ordered[j] \in Registered /\ ordered[j] \in InResult
    /\ \A d \in dependsOn[ordered[j]] : \E i \in 1..(j - 1) : ordered[i] = d
    /\ \A i \in 1..(j - 1) : ordered[i] # ordered[j]

\* A dependency of a strategy on the path is still to be visited, done, or next
\* on the path.
ExploredInv ==
  \A i \in 1..Len(stack) : \A d \in dependsOn[stack[i].id] :
    \/ d \in Range(stack[i].rest)
    \/ mark[d] = "done"
    \/ i < Len(stack) /\ d = stack[i + 1].id

MarksInv ==
  \A x \in Strategies :
    /\ mark[x] = "visiting" => \E i \in 1..Len(stack) : stack[i].id = x
    /\ mark[x] = "done" <=> \E j \in 1..Len(ordered) : ordered[j] = x

VerdictInv ==
  /\ verdict \in {"walking", "ordered", "cycle", "unresolved"}
  /\ verdict = "walking" => stack # <<>> /\ ExploredInv
  /\ verdict = "ordered" => ordered # <<>> /\ ordered[Len(ordered)] = Root
  /\ verdict = "cycle" => \E id \in InResult : id \in Needed(id)
  /\ verdict = "unresolved" => ~(InResult \subseteq Registered)

ShapeInv ==
  /\ DependenciesTyped /\ Root \in Registered
  /\ stack \in Seq(Frames) /\ ordered \in Seq(Strategies)
  /\ mark \in [Strategies -> {"unseen", "visiting", "done"}]

OrderInv == ShapeInv /\ PathInv /\ ResultInv /\ MarksInv /\ VerdictInv

(***************************************************************************)
(* What a step of the walk starts from: its frame, and where the path has  *)
(* come from.                                                              *)
(***************************************************************************)
LEMMA TopFacts ==
  ASSUME ShapeInv, PathInv, stack # <<>>
  PROVE  /\ Len(stack) \in Nat \ {0} /\ Top = stack[Len(stack)]
         /\ \A i \in 1..Len(stack) : /\ stack[i] \in Frames /\ stack[i].id \in Strategies
                                     /\ stack[i].rest \in Seq(Strategies)
                                     /\ stack[i].id \in InResult
         /\ Top.id \in Registered /\ Top.id \in InResult /\ Top.rest \in Seq(Strategies)
         /\ Range(Top.rest) \subseteq dependsOn[Top.id]
         /\ dependsOn[Top.id] \subseteq Needed(Top.id) /\ dependsOn[Top.id] \subseteq Needed(Root)
<1>1. Len(stack) \in Nat \ {0}
  BY DEF ShapeInv
<1>2. Top = stack[Len(stack)]
  BY DEF Top, Last
<1>3. \A i \in 1..Len(stack) : stack[i] \in Frames
  BY DEF ShapeInv
<1>4. \A i \in 1..Len(stack) : stack[i].id \in Strategies /\ stack[i].rest \in Seq(Strategies)
  BY <1>3 DEF Frames
<1>5. \A i \in 1..Len(stack) : stack[i].id \in InResult
  <2>1. 1 \in 1..Len(stack) /\ stack[1].id = Root
    BY <1>1 DEF PathInv
  <2>2. \A i \in 1..Len(stack) : 1 < i => stack[i].id \in Needed(Root)
    BY <2>1 DEF PathInv
  <2> QED
    BY <1>1, <2>1, <2>2 DEF InResult
<1>6. Top.id \in Registered /\ Range(Top.rest) \subseteq dependsOn[Top.id]
  BY <1>1, <1>2 DEF PathInv
<1>7. Top.id \in InResult /\ Top.rest \in Seq(Strategies)
  BY <1>1, <1>2, <1>4, <1>5
<1>8. DependsOn(Top.id) = dependsOn[Top.id]
  BY <1>6 DEF DependsOn
<1>9. dependsOn[Top.id] \subseteq Needed(Top.id) /\ dependsOn[Top.id] \subseteq Needed(Root)
  BY <1>7, <1>8, NeededFacts DEF InResult, ShapeInv
<1> QED
  BY <1>1, <1>2, <1>3, <1>4, <1>5, <1>6, <1>7, <1>9

(***************************************************************************)
(* A sequence holds its head and what its tail holds.                      *)
(***************************************************************************)
LEMMA HeadAndTail ==
  ASSUME NEW S, NEW s \in Seq(S), s # <<>>
  PROVE  Range(s) = {Head(s)} \cup Range(Tail(s))
<1> DEFINE t == Tail(s)
<1>1. /\ Len(s) \in Nat \ {0} /\ DOMAIN s = 1..Len(s) /\ Head(s) = s[1]
      /\ Len(t) = Len(s) - 1 /\ DOMAIN t = 1..(Len(s) - 1)
      /\ \A i \in 1..(Len(s) - 1) : t[i] = s[i + 1]
  OBVIOUS
<1> HIDE DEF t
<1>2. \A x \in Range(s) : x = Head(s) \/ x \in Range(t)
  <2> SUFFICES ASSUME NEW i \in 1..Len(s) PROVE s[i] = Head(s) \/ s[i] \in Range(t)
    BY <1>1 DEF Range
  <2>1. CASE i = 1
    BY <1>1, <2>1
  <2>2. CASE i # 1
    <3>1. i - 1 \in 1..(Len(s) - 1) /\ (i - 1) + 1 = i
      BY <1>1, <2>2
    <3>2. t[i - 1] = s[i]
      BY <1>1, <3>1
    <3> QED
      BY <1>1, <3>1, <3>2 DEF Range
  <2> QED
    BY <2>1, <2>2
<1>3. Head(s) \in Range(s)
  BY <1>1 DEF Range
<1>4. \A x \in Range(t) : x \in Range(s)
  <2> SUFFICES ASSUME NEW i \in 1..(Len(s) - 1) PROVE t[i] \in Range(s)
    BY <1>1 DEF Range
  <2>1. i + 1 \in 1..Len(s) /\ t[i] = s[i + 1]
    BY <1>1
  <2> QED
    BY <1>1, <2>1 DEF Range
<1>5. Range(s) = {Head(s)} \cup Range(t)
  BY <1>2, <1>3, <1>4
<1> QED
  BY <1>5 DEF t

(***************************************************************************)
(* Taking the next dependency off a frame leaves the rest of the stack.    *)
(***************************************************************************)
LEMMA AdvancedFacts ==
  ASSUME ShapeInv, PathInv, stack # <<>>, Top.rest # <<>>
  PROVE  /\ Advanced \in Seq(Frames) /\ Len(Advanced) = Len(stack)
         /\ \A i \in 1..Len(stack) : Advanced[i].id = stack[i].id
         /\ \A i \in 1..Len(stack) : i < Len(stack) => Advanced[i].rest = stack[i].rest
         /\ Head(Top.rest) \in Range(Top.rest) /\ Head(Top.rest) \in Strategies
         /\ Range(Top.rest) = {Head(Top.rest)} \cup Range(Advanced[Len(stack)].rest)
<1> DEFINE n == Len(stack)
<1>1. /\ n \in Nat \ {0} /\ Top = stack[n] /\ Top.rest \in Seq(Strategies)
      /\ \A i \in 1..n : stack[i] \in Frames
  BY TopFacts
<1>2. Tail(Top.rest) \in Seq(Strategies) /\ Head(Top.rest) = Top.rest[1]
      /\ Len(Top.rest) \in Nat \ {0} /\ DOMAIN Top.rest = 1..Len(Top.rest)
      /\ Len(Tail(Top.rest)) = Len(Top.rest) - 1
      /\ \A i \in 1..(Len(Top.rest) - 1) : Tail(Top.rest)[i] = Top.rest[i + 1]
  BY <1>1
<1>3. Range(Top.rest) = {Head(Top.rest)} \cup Range(Tail(Top.rest))
  BY <1>1, HeadAndTail
<1>4. Head(Top.rest) \in Range(Top.rest) /\ Head(Top.rest) \in Strategies
  BY <1>1, <1>2, <1>3
<1> DEFINE frame == [Top EXCEPT !.rest = Tail(@)]
<1>5. frame \in Frames /\ frame.id = Top.id /\ frame.rest = Tail(Top.rest)
  BY <1>1, <1>2 DEF Frames
<1>6. Advanced = [stack EXCEPT ![n] = frame]
  BY <1>1 DEF Advanced
<1> HIDE DEF frame
<1>7. Advanced \in Seq(Frames) /\ Len(Advanced) = n /\ Advanced[n] = frame
      /\ \A i \in 1..n : i < n => Advanced[i] = stack[i]
  BY <1>1, <1>5, <1>6 DEF ShapeInv
<1> QED
  BY <1>1, <1>3, <1>4, <1>5, <1>7

(***************************************************************************)
(* The frame a strategy gets lists its dependencies.                       *)
(***************************************************************************)
LEMMA FrameFacts ==
  ASSUME DependenciesTyped, NEW id \in Registered
  PROVE  Frame(id) \in Frames /\ Frame(id).id = id /\ Range(Frame(id).rest) = dependsOn[id]
<1>1. dependsOn[id] \in SUBSET Strategies /\ IsFiniteSet(dependsOn[id]) /\ id \in Strategies
  BY RootIsAStrategy, FS_Subset DEF DependenciesTyped
<1>2. SetToSeq(dependsOn[id]) \in Seq(dependsOn[id]) /\ Range(SetToSeq(dependsOn[id])) = dependsOn[id]
  BY <1>1, SetToSeqFacts
<1>3. SetToSeq(dependsOn[id]) \in Seq(Strategies)
  BY <1>1, <1>2
<1> QED
  BY <1>1, <1>2, <1>3 DEF Frame, Frames

(***************************************************************************)
(* Nothing that is needed changes during the walk.                         *)
(***************************************************************************)
LEMMA NeedsStand ==
  ASSUME dependsOn' = dependsOn
  PROVE  /\ Registered' = Registered /\ InResult' = InResult
         /\ \A id : Needed(id)' = Needed(id)
         /\ DependenciesTyped' <=> DependenciesTyped
<1>1. Registered' = Registered /\ (DependenciesTyped' <=> DependenciesTyped)
  BY DEF Registered, DependenciesTyped
<1>2. \A id : DependsOn(id)' = DependsOn(id)
  BY <1>1 DEF DependsOn
<1>3. \A id : Needed(id)' = Needed(id)
  BY <1>2 DEF Needed
<1> QED
  BY <1>1, <1>3 DEF InResult

(***************************************************************************)
(* An order nothing is added to stays right.                               *)
(***************************************************************************)
LEMMA ResultStands ==
  ASSUME ResultInv, dependsOn' = dependsOn, ordered' = ordered
  PROVE  ResultInv'
<1>1. Registered' = Registered /\ InResult' = InResult
  BY NeedsStand
<1> DEFINE Right(o, table, known, result) ==
             \A j \in 1..Len(o) : /\ o[j] \in known /\ o[j] \in result
                                  /\ \A d \in table[o[j]] : \E i \in 1..(j - 1) : o[i] = d
                                  /\ \A i \in 1..(j - 1) : o[i] # o[j]
<1>2. Right(ordered, dependsOn, Registered, InResult)
  BY DEF ResultInv
<1>3. Right(ordered', dependsOn', Registered', InResult') => ResultInv'
  BY DEF ResultInv
<1> HIDE DEF Right
<1> QED
  BY <1>1, <1>2, <1>3

(***************************************************************************)
(* A strategy not seen yet goes on the path: it is needed by every         *)
(* strategy there, and all its dependencies are still to be visited.       *)
(***************************************************************************)
LEMMA EnteringKeeps ==
  ASSUME OrderInv, verdict = "walking", stack # <<>>, Top.rest # <<>>,
         Enters(Head(Top.rest)), verdict' = verdict,
         stack' = Append(Advanced, Frame(Head(Top.rest))),
         mark' = [mark EXCEPT ![Head(Top.rest)] = "visiting"],
         UNCHANGED <<dependsOn, ordered>>
  PROVE  OrderInv'
<1> DEFINE n == Len(stack)
           id == Head(Top.rest)
           t == Top
           new == Frame(id)
           A == Advanced
<1>0. ShapeInv /\ PathInv /\ ResultInv /\ MarksInv /\ VerdictInv
  BY DEF OrderInv
<1>1. /\ n \in Nat \ {0} /\ t = stack[n]
      /\ \A i \in 1..n : stack[i] \in Frames /\ stack[i].id \in Strategies
      /\ t.id \in Registered /\ Range(t.rest) \subseteq dependsOn[t.id]
      /\ dependsOn[t.id] \subseteq Needed(t.id)
  BY <1>0, TopFacts
<1>2. /\ A \in Seq(Frames) /\ Len(A) = n
      /\ \A i \in 1..n : A[i].id = stack[i].id
      /\ \A i \in 1..n : i < n => A[i].rest = stack[i].rest
      /\ id \in Range(t.rest) /\ id \in Strategies
      /\ Range(t.rest) = {id} \cup Range(A[n].rest)
  BY <1>0, AdvancedFacts
<1>3. id \in Registered /\ mark[id] = "unseen"
  BY DEF Enters
<1>4. new \in Frames /\ new.id = id /\ Range(new.rest) = dependsOn[id]
  BY <1>0, <1>3, FrameFacts DEF ShapeInv
<1>5. /\ Registered' = Registered /\ InResult' = InResult
      /\ \A x : Needed(x)' = Needed(x)
      /\ DependenciesTyped' <=> DependenciesTyped
  BY NeedsStand
<1>6. mark \in [Strategies -> {"unseen", "visiting", "done"}]
  BY <1>0 DEF ShapeInv
<1>7. id \in Needed(t.id)
  BY <1>1, <1>2
<1> HIDE DEF t, new, A, id, n
<1>8. /\ stack' \in Seq(Frames) /\ Len(stack') = n + 1 /\ stack'[n + 1] = new
      /\ \A i \in 1..n : stack'[i] = A[i]
  BY <1>1, <1>2, <1>4 DEF new, A, id, t, n
<1>9. mark' = [mark EXCEPT ![id] = "visiting"] /\ UNCHANGED <<dependsOn, ordered, verdict>>
  BY DEF id
<1>10. /\ mark' \in [Strategies -> {"unseen", "visiting", "done"}] /\ mark'[id] = "visiting"
       /\ \A x \in Strategies : x # id => mark'[x] = mark[x]
  BY <1>2, <1>6, <1>9
<1>11. ShapeInv'
  BY <1>0, <1>5, <1>8, <1>9, <1>10 DEF ShapeInv
<1>12. \A i \in 1..(n + 1) : i = n + 1 \/ i \in 1..n
  BY <1>1
<1>13. \A i \in 1..n : /\ stack[i].id \in Registered /\ mark[stack[i].id] = "visiting"
                       /\ Range(stack[i].rest) \subseteq dependsOn[stack[i].id]
                       /\ i = 1 => stack[i].id = Root
                       /\ \A j \in 1..n : i < j => stack[j].id # stack[i].id
                                                   /\ stack[j].id \in Needed(stack[i].id)
  BY <1>0 DEF PathInv, n
<1>14. \A i \in 1..n : stack[i].id # id /\ id \in Needed(stack[i].id)
  <2> SUFFICES ASSUME NEW i \in 1..n PROVE stack[i].id # id /\ id \in Needed(stack[i].id)
    OBVIOUS
  <2>1. stack[i].id # id
    BY <1>3, <1>13
  <2>2. i = n \/ i < n
    BY <1>1
  <2>3. CASE i = n
    BY <1>1, <1>7, <2>1, <2>3
  <2>4. CASE i < n
    <3>1. n \in 1..n /\ t.id \in Needed(stack[i].id)
      BY <1>1, <1>13, <2>4
    <3>2. Needed(t.id) \subseteq Needed(stack[i].id)
      BY <1>0, <3>1, NeededFacts DEF ShapeInv
    <3> QED
      BY <1>7, <2>1, <3>2
  <2> QED
    BY <2>2, <2>3, <2>4
<1>15. \A i \in 1..n : /\ stack'[i].id = stack[i].id
                       /\ Range(stack'[i].rest) \subseteq Range(stack[i].rest)
                       /\ i < n => stack'[i].rest = stack[i].rest
                       /\ i = n => Range(stack[i].rest) = {id} \cup Range(stack'[i].rest)
  <2> SUFFICES ASSUME NEW i \in 1..n
               PROVE  /\ stack'[i].id = stack[i].id
                      /\ Range(stack'[i].rest) \subseteq Range(stack[i].rest)
                      /\ i < n => stack'[i].rest = stack[i].rest
                      /\ i = n => Range(stack[i].rest) = {id} \cup Range(stack'[i].rest)
    OBVIOUS
  <2>1. i = n \/ i < n
    BY <1>1
  <2> QED
    BY <1>1, <1>2, <1>8, <2>1
<1> DEFINE Id(i) == stack'[i].id
<1>15a. Id(n + 1) = id /\ \A i \in 1..n : Id(i) = stack[i].id
  BY <1>4, <1>8, <1>15
<1>16. PathInv'
  <2> SUFFICES ASSUME NEW i \in 1..(n + 1)
               PROVE  /\ stack'[i].id \in Registered /\ mark'[stack'[i].id] = "visiting"
                      /\ Range(stack'[i].rest) \subseteq dependsOn[stack'[i].id]
                      /\ i = 1 => stack'[i].id = Root
                      /\ \A j \in 1..(n + 1) :
                           i < j => stack'[j].id # stack'[i].id /\ stack'[j].id \in Needed(stack'[i].id)
    BY <1>5, <1>8, <1>9 DEF PathInv
  <2>1. CASE i = n + 1
    <3>1. \A j \in 1..(n + 1) : ~(i < j)
      BY <1>1, <2>1
    <3>2. i # 1
      BY <1>1, <2>1
    <3> QED
      BY <1>3, <1>4, <1>8, <1>10, <2>1, <3>1, <3>2
  <2>2. CASE i \in 1..n
    <3>1. /\ stack'[i].id \in Registered /\ mark'[stack'[i].id] = "visiting"
          /\ Range(stack'[i].rest) \subseteq dependsOn[stack'[i].id]
          /\ i = 1 => stack'[i].id = Root
      BY <1>1, <1>10, <1>13, <1>14, <1>15, <2>2
    <3>2. ASSUME NEW j \in 1..(n + 1), i < j
          PROVE  stack'[j].id # stack'[i].id /\ stack'[j].id \in Needed(stack'[i].id)
      <4>1. CASE j = n + 1
        <5> HIDE DEF Id
        <5>1. Id(j) # Id(i) /\ Id(j) \in Needed(Id(i))
          BY <1>14, <1>15a, <2>2, <4>1
        <5> QED
          BY <5>1 DEF Id
      <4>2. CASE j \in 1..n
        <5> HIDE DEF Id
        <5>1. Id(j) # Id(i) /\ Id(j) \in Needed(Id(i))
          BY <1>13, <1>15a, <2>2, <3>2, <4>2
        <5> QED
          BY <5>1 DEF Id
      <4> QED
        BY <1>12, <4>1, <4>2
    <3> QED
      BY <3>1, <3>2
  <2> QED
    BY <1>12, <2>1, <2>2
<1>17. ResultInv'
  BY <1>0, <1>9, ResultStands
<1>18. MarksInv'
  <2> SUFFICES ASSUME NEW x \in Strategies
               PROVE  /\ mark'[x] = "visiting" => \E i \in 1..(n + 1) : stack'[i].id = x
                      /\ mark'[x] = "done" <=> \E j \in 1..Len(ordered) : ordered[j] = x
    BY <1>8, <1>9 DEF MarksInv
  <2>1. CASE x = id
    <3>1. n + 1 \in 1..(n + 1)
      BY <1>1
    <3>2. ~ \E j \in 1..Len(ordered) : ordered[j] = x
      BY <1>0, <1>3, <2>1 DEF MarksInv
    <3> QED
      BY <1>4, <1>8, <1>10, <2>1, <3>1, <3>2
  <2>2. CASE x # id
    <3>1. mark[x] = "visiting" => \E i \in 1..n : stack[i].id = x
      BY <1>0 DEF MarksInv, n
    <3>2. 1..n \subseteq 1..(n + 1)
      BY <1>1
    <3> QED
      BY <1>0, <1>10, <1>15, <2>2, <3>1, <3>2 DEF MarksInv
  <2> QED
    BY <2>1, <2>2
<1>19. ExploredInv'
  <2> SUFFICES ASSUME NEW i \in 1..(n + 1), NEW d \in dependsOn[stack'[i].id]
               PROVE  \/ d \in Range(stack'[i].rest)
                      \/ mark'[d] = "done"
                      \/ i < n + 1 /\ d = stack'[i + 1].id
    BY <1>8, <1>9 DEF ExploredInv
  <2>1. CASE i = n + 1
    BY <1>4, <1>8, <2>1
  <2>2. CASE i \in 1..n
    <3>1. d \in dependsOn[stack[i].id] /\ i < n + 1
      <4>1. d \in dependsOn[Id(i)]
        OBVIOUS
      <4> HIDE DEF Id
      <4>2. i < n + 1
        BY <1>1, <2>2
      <4> QED
        BY <1>15a, <2>2, <4>1, <4>2
    <3>2. d \in Strategies
      BY <1>0, <1>13, <2>2, <3>1 DEF ShapeInv, DependenciesTyped
    <3>3. \/ d \in Range(stack[i].rest)
          \/ mark[d] = "done"
          \/ i < n /\ d = stack[i + 1].id
      BY <1>0, <2>2, <3>1 DEF VerdictInv, ExploredInv, n
    <3>4. CASE d \in Range(stack[i].rest)
      <4>1. CASE i = n
        BY <1>4, <1>8, <1>15, <2>2, <3>1, <3>4, <4>1
      <4>2. CASE i # n
        <5>1. i < n
          BY <1>1, <2>2, <4>2
        <5> QED
          BY <1>15, <2>2, <3>4, <5>1
      <4> QED
        BY <4>1, <4>2
    <3>5. CASE mark[d] = "done"
      BY <1>3, <1>10, <3>2, <3>5
    <3>6. CASE i < n /\ d = stack[i + 1].id
      <4>1. i + 1 \in 1..n
        BY <1>1, <2>2, <3>6
      <4> QED
        BY <1>15, <3>1, <3>6, <4>1
    <3> QED
      BY <3>3, <3>4, <3>5, <3>6
  <2> QED
    BY <1>12, <2>1, <2>2
<1>20. VerdictInv'
  <2>1. verdict' = "walking" /\ stack' # <<>>
    BY <1>1, <1>8, <1>9
  <2> QED
    BY <1>19, <2>1 DEF VerdictInv
<1> QED
  BY <1>11, <1>16, <1>17, <1>18, <1>20 DEF OrderInv

(***************************************************************************)
(* A dependency that is done is passed over; one on the path closes a      *)
(* cycle, since the path leads from it to the top; one that is unknown is  *)
(* missing.                                                                *)
(***************************************************************************)
LEMMA PassingKeeps ==
  ASSUME OrderInv, verdict = "walking", stack # <<>>, Top.rest # <<>>,
         ~Enters(Head(Top.rest)), stack' = Advanced,
         verdict' = IF mark[Head(Top.rest)] = "visiting" THEN "cycle"
                    ELSE IF mark[Head(Top.rest)] = "unseen" /\ Head(Top.rest) \notin Registered
                    THEN "unresolved" ELSE verdict,
         UNCHANGED <<mark, dependsOn, ordered>>
  PROVE  OrderInv'
<1> DEFINE n == Len(stack)
           id == Head(Top.rest)
           t == Top
<1>0. ShapeInv /\ PathInv /\ ResultInv /\ MarksInv /\ VerdictInv
  BY DEF OrderInv
<1>1. /\ n \in Nat \ {0} /\ t = stack[n]
      /\ t.id \in Registered /\ Range(t.rest) \subseteq dependsOn[t.id]
      /\ dependsOn[t.id] \subseteq Needed(t.id) /\ dependsOn[t.id] \subseteq Needed(Root)
      /\ \A i \in 1..n : stack[i].id \in InResult
  BY <1>0, TopFacts
<1>2. /\ stack' \in Seq(Frames) /\ Len(stack') = n
      /\ \A i \in 1..n : stack'[i].id = stack[i].id
      /\ \A i \in 1..n : i < n => stack'[i].rest = stack[i].rest
      /\ id \in Range(t.rest) /\ id \in Strategies
      /\ Range(t.rest) = {id} \cup Range(stack'[n].rest)
  BY <1>0, AdvancedFacts
<1>3. mark \in [Strategies -> {"unseen", "visiting", "done"}]
  BY <1>0 DEF ShapeInv
<1>4. /\ Registered' = Registered /\ InResult' = InResult
      /\ \A x : Needed(x)' = Needed(x)
      /\ DependenciesTyped' <=> DependenciesTyped
  BY NeedsStand
<1>5. \/ mark[id] = "visiting" /\ verdict' = "cycle"
      \/ mark[id] = "unseen" /\ id \notin Registered /\ verdict' = "unresolved"
      \/ mark[id] = "done" /\ verdict' = "walking"
  BY <1>2, <1>3 DEF Enters
<1> HIDE DEF n, id, t
<1>6. ShapeInv'
  BY <1>0, <1>2, <1>4 DEF ShapeInv
<1>7. \A i \in 1..n : Range(stack'[i].rest) \subseteq Range(stack[i].rest)
  <2> SUFFICES ASSUME NEW i \in 1..n PROVE Range(stack'[i].rest) \subseteq Range(stack[i].rest)
    OBVIOUS
  <2>1. i = n \/ i < n
    BY <1>1
  <2> QED
    BY <1>1, <1>2, <2>1
<1>8. PathInv'
  <2>1. \A i \in 1..n : /\ stack[i].id \in Registered /\ mark[stack[i].id] = "visiting"
                        /\ Range(stack[i].rest) \subseteq dependsOn[stack[i].id]
                        /\ i = 1 => stack[i].id = Root
                        /\ \A j \in 1..n : i < j => stack[j].id # stack[i].id
                                                    /\ stack[j].id \in Needed(stack[i].id)
    BY <1>0 DEF PathInv, n
  <2>2. \A i \in 1..n : /\ stack'[i].id \in Registered /\ mark[stack'[i].id] = "visiting"
                        /\ Range(stack'[i].rest) \subseteq dependsOn[stack'[i].id]
                        /\ i = 1 => stack'[i].id = Root
                        /\ \A j \in 1..n : i < j => stack'[j].id # stack'[i].id
                                                    /\ stack'[j].id \in Needed(stack'[i].id)
    <3> SUFFICES ASSUME NEW i \in 1..n
                 PROVE  /\ stack'[i].id \in Registered /\ mark[stack'[i].id] = "visiting"
                        /\ Range(stack'[i].rest) \subseteq dependsOn[stack'[i].id]
                        /\ i = 1 => stack'[i].id = Root
                        /\ \A j \in 1..n : i < j => stack'[j].id # stack'[i].id
                                                    /\ stack'[j].id \in Needed(stack'[i].id)
      OBVIOUS
    <3>1. stack'[i].id = stack[i].id /\ Range(stack'[i].rest) \subseteq Range(stack[i].rest)
      BY <1>2, <1>7
    <3>2. \A j \in 1..n : stack'[j].id = stack[j].id
      BY <1>2
    <3>3. \A j \in 1..n : i < j => stack'[j].id # stack'[i].id
                                   /\ stack'[j].id \in Needed(stack'[i].id)
      BY <2>1, <3>1, <3>2
    <3> QED
      BY <2>1, <3>1, <3>3
  <2> QED
    BY <1>2, <1>4, <2>2 DEF PathInv
<1>9. ResultInv'
  BY <1>0, ResultStands
<1>10. MarksInv'
  <2>1. \A x \in Strategies : mark[x] = "visiting" => \E i \in 1..n : stack[i].id = x
    BY <1>0 DEF MarksInv, n
  <2>2. \A x \in Strategies : mark[x] = "visiting" => \E i \in 1..n : stack'[i].id = x
    BY <1>2, <2>1
  <2>3. \A x \in Strategies : mark[x] = "done" <=> \E j \in 1..Len(ordered) : ordered[j] = x
    BY <1>0 DEF MarksInv
  <2> QED
    BY <1>2, <2>2, <2>3 DEF MarksInv
<1>11. id \in dependsOn[t.id] /\ id \in InResult
  BY <1>1, <1>2 DEF InResult
<1>12. CASE mark[id] = "visiting" /\ verdict' = "cycle"
  <2>1. PICK i \in 1..n : stack[i].id = id
    BY <1>0, <1>2, <1>12 DEF MarksInv, n
  <2>2. id \in Needed(id)
    <3>1. CASE i = n
      BY <1>1, <1>11, <2>1, <3>1
    <3>2. CASE i # n
      <4>1. i < n /\ n \in 1..n
        BY <1>1, <3>2
      <4>2. t.id \in Needed(id)
        BY <1>0, <1>1, <2>1, <4>1 DEF PathInv, n
      <4>3. DependsOn(t.id) \subseteq Needed(id)
        BY <1>0, <4>2, NeededFacts DEF ShapeInv
      <4> QED
        BY <1>1, <1>11, <4>3 DEF DependsOn
    <3> QED
      BY <3>1, <3>2
  <2>3. VerdictInv'
    BY <1>4, <1>11, <1>12, <2>2 DEF VerdictInv
  <2> QED
    BY <1>6, <1>8, <1>9, <1>10, <2>3 DEF OrderInv
<1>13. CASE mark[id] = "unseen" /\ id \notin Registered /\ verdict' = "unresolved"
  <2>1. VerdictInv'
    BY <1>4, <1>11, <1>13 DEF VerdictInv
  <2> QED
    BY <1>6, <1>8, <1>9, <1>10, <2>1 DEF OrderInv
<1>14. CASE mark[id] = "done" /\ verdict' = "walking"
  <2>1. ExploredInv'
    <3> SUFFICES ASSUME NEW i \in 1..n, NEW d \in dependsOn[stack'[i].id]
                 PROVE  \/ d \in Range(stack'[i].rest)
                        \/ mark[d] = "done"
                        \/ i < n /\ d = stack'[i + 1].id
      BY <1>2 DEF ExploredInv
    <3>1. d \in dependsOn[stack[i].id]
      BY <1>2
    <3>2. \/ d \in Range(stack[i].rest)
          \/ mark[d] = "done"
          \/ i < n /\ d = stack[i + 1].id
      BY <1>0, <3>1 DEF VerdictInv, ExploredInv, n
    <3>3. CASE d \in Range(stack[i].rest)
      <4>1. i = n \/ i < n
        BY <1>1
      <4> QED
        BY <1>1, <1>2, <1>14, <3>3, <4>1
    <3>4. CASE i < n /\ d = stack[i + 1].id
      <4>1. i + 1 \in 1..n
        BY <1>1, <3>4
      <4> QED
        BY <1>2, <3>4, <4>1
    <3> QED
      BY <3>2, <3>3, <3>4
  <2>2. stack' # <<>>
    BY <1>1, <1>2
  <2>3. VerdictInv'
    BY <1>14, <2>1, <2>2 DEF VerdictInv
  <2> QED
    BY <1>6, <1>8, <1>9, <1>10, <2>3 DEF OrderInv
<1> QED
  BY <1>5, <1>12, <1>13, <1>14

(***************************************************************************)
(* A strategy whose dependencies are all done takes its place after them,  *)
(* and leaves the path at its end.                                         *)
(***************************************************************************)
LEMMA FinishingKeeps ==
  ASSUME OrderInv, FinishStrategy
  PROVE  OrderInv'
<1> DEFINE n == Len(stack)
           t == Top
           k == Len(ordered)
<1>0. ShapeInv /\ PathInv /\ ResultInv /\ MarksInv /\ VerdictInv
      /\ stack # <<>> /\ verdict = "walking" /\ ExploredInv
  BY DEF OrderInv, FinishStrategy, VerdictInv
<1>1. /\ n \in Nat \ {0} /\ t = stack[n]
      /\ t.id \in Registered /\ t.id \in InResult /\ t.id \in Strategies
      /\ \A i \in 1..n : stack[i] \in Frames
  BY <1>0, TopFacts
<1>2. /\ mark' = [mark EXCEPT ![t.id] = "done"]
      /\ ordered' = Append(ordered, t.id) /\ dependsOn' = dependsOn /\ t.rest = <<>>
  BY DEF FinishStrategy
<1>3. /\ stack' \in Seq(Frames) /\ Len(stack') = n - 1
      /\ \A i \in 1..(n - 1) : stack'[i] = stack[i]
  <2>1. stack' = SubSeq(stack, 1, n - 1) /\ stack \in Seq(Frames) /\ n - 1 \in Nat
    BY <1>0, <1>1 DEF FinishStrategy, Front, ShapeInv
  <2> HIDE DEF n
  <2>2. 1..(n - 1) \subseteq 1..n /\ 1 \in Int /\ (n - 1) - 1 + 1 = n - 1
    BY <1>1
  <2> QED
    BY <1>1, <2>1, <2>2 DEF n
<1>4. /\ Registered' = Registered /\ InResult' = InResult
      /\ \A x : Needed(x)' = Needed(x)
      /\ DependenciesTyped' <=> DependenciesTyped
  BY <1>2, NeedsStand
<1>5. mark \in [Strategies -> {"unseen", "visiting", "done"}]
  BY <1>0 DEF ShapeInv
<1>6. verdict' = IF n = 1 THEN "ordered" ELSE "walking"
  BY <1>0 DEF FinishStrategy
<1>7. ordered \in Seq(Strategies) /\ k \in Nat
  BY <1>0 DEF ShapeInv
<1> HIDE DEF n, t, k
<1>8. /\ ordered' \in Seq(Strategies) /\ Len(ordered') = k + 1 /\ ordered'[k + 1] = t.id
      /\ \A j \in 1..k : ordered'[j] = ordered[j]
  BY <1>1, <1>2, <1>7 DEF k
<1>9. /\ mark' \in [Strategies -> {"unseen", "visiting", "done"}] /\ mark'[t.id] = "done"
      /\ \A x \in Strategies : x # t.id => mark'[x] = mark[x]
  BY <1>1, <1>2, <1>5
<1>10. ShapeInv'
  BY <1>0, <1>3, <1>4, <1>8, <1>9 DEF ShapeInv
<1>11. \A i \in 1..n : /\ stack[i].id \in Registered /\ mark[stack[i].id] = "visiting"
                       /\ Range(stack[i].rest) \subseteq dependsOn[stack[i].id]
                       /\ i = 1 => stack[i].id = Root
                       /\ \A j \in 1..n : i < j => stack[j].id # stack[i].id
                                                   /\ stack[j].id \in Needed(stack[i].id)
  BY <1>0 DEF PathInv, n
<1>12. \A i \in 1..(n - 1) : i \in 1..n /\ i < n /\ stack[i].id # t.id /\ stack[i].id \in Strategies
  <2>1. \A i \in 1..(n - 1) : i \in 1..n /\ i < n /\ n \in 1..n
    BY <1>1
  <2> QED
    BY <1>1, <1>11, <2>1 DEF Frames
<1>13. PathInv'
  <2>1. \A i \in 1..(n - 1) : /\ stack'[i].id \in Registered /\ mark'[stack'[i].id] = "visiting"
                              /\ Range(stack'[i].rest) \subseteq dependsOn[stack'[i].id]
                              /\ i = 1 => stack'[i].id = Root
                              /\ \A j \in 1..(n - 1) : i < j => stack'[j].id # stack'[i].id
                                                    /\ stack'[j].id \in Needed(stack'[i].id)
    BY <1>3, <1>9, <1>11, <1>12
  <2> QED
    BY <1>2, <1>3, <1>4, <2>1 DEF PathInv
<1>14. \A d \in dependsOn[t.id] : mark[d] = "done"
  <2>1. n \in 1..n /\ ~(n < n)
    BY <1>1
  <2>2. Range(stack[n].rest) = {}
    BY <1>1, <1>2 DEF Range
  <2> QED
    BY <1>0, <1>1, <2>1, <2>2 DEF ExploredInv, n
<1>15. mark[t.id] = "visiting"
  <2>1. n \in 1..n
    BY <1>1
  <2> QED
    BY <1>1, <1>11, <2>1
<1>16. ResultInv'
  <2> SUFFICES ASSUME NEW j \in 1..(k + 1)
               PROVE  /\ ordered'[j] \in Registered /\ ordered'[j] \in InResult
                      /\ \A d \in dependsOn[ordered'[j]] : \E i \in 1..(j - 1) : ordered'[i] = d
                      /\ \A i \in 1..(j - 1) : ordered'[i] # ordered'[j]
    BY <1>2, <1>4, <1>8 DEF ResultInv
  <2>1. CASE j = k + 1
    <3>1. j - 1 = k
      BY <1>7, <2>1
    <3>2. ASSUME NEW d \in dependsOn[t.id] PROVE \E i \in 1..k : ordered'[i] = d
      <4>1. d \in Strategies
        BY <1>0, <1>1 DEF ShapeInv, DependenciesTyped
      <4>2. \E i \in 1..k : ordered[i] = d
        BY <1>0, <1>14, <4>1 DEF MarksInv, k
      <4> QED
        BY <1>8, <4>2
    <3>3. \A i \in 1..k : ordered[i] # t.id
      BY <1>0, <1>1, <1>15 DEF MarksInv, k
    <3> QED
      BY <1>1, <1>8, <2>1, <3>1, <3>2, <3>3
  <2>2. CASE j \in 1..k
    <3>1. \A i \in 1..(j - 1) : i \in 1..k
      BY <1>7, <2>2
    <3>2. /\ ordered[j] \in Registered /\ ordered[j] \in InResult
          /\ \A d \in dependsOn[ordered[j]] : \E i \in 1..(j - 1) : ordered[i] = d
          /\ \A i \in 1..(j - 1) : ordered[i] # ordered[j]
      BY <1>0, <2>2 DEF ResultInv, k
    <3> QED
      BY <1>8, <2>2, <3>1, <3>2
  <2> QED
    BY <1>7, <2>1, <2>2
<1>17. MarksInv'
  <2> SUFFICES ASSUME NEW x \in Strategies
               PROVE  /\ mark'[x] = "visiting" => \E i \in 1..(n - 1) : stack'[i].id = x
                      /\ mark'[x] = "done" <=> \E j \in 1..(k + 1) : ordered'[j] = x
    BY <1>3, <1>8 DEF MarksInv
  <2>1. k + 1 \in 1..(k + 1) /\ 1..k \subseteq 1..(k + 1)
        /\ \A j \in 1..(k + 1) : j = k + 1 \/ j \in 1..k
    BY <1>7
  <2>2. CASE x = t.id
    BY <1>8, <1>9, <2>1, <2>2
  <2>3. CASE x # t.id
    <3>1. mark[x] = "visiting" => \E i \in 1..n : stack[i].id = x
      BY <1>0 DEF MarksInv, n
    <3>2. \A i \in 1..n : i = n \/ i \in 1..(n - 1)
      BY <1>1
    <3>3. mark[x] = "done" <=> \E j \in 1..k : ordered[j] = x
      BY <1>0 DEF MarksInv, k
    <3>4. mark'[x] = "visiting" => \E i \in 1..(n - 1) : stack'[i].id = x
      BY <1>1, <1>3, <1>9, <2>3, <3>1, <3>2
    <3>5. mark'[x] = "done" <=> \E j \in 1..(k + 1) : ordered'[j] = x
      BY <1>8, <1>9, <2>1, <2>3, <3>3
    <3> QED
      BY <3>4, <3>5
  <2> QED
    BY <2>2, <2>3
<1>18. CASE n = 1
  <2>1. t.id = Root /\ verdict' = "ordered" /\ ordered' # <<>> /\ ordered'[Len(ordered')] = Root
    BY <1>1, <1>6, <1>7, <1>8, <1>11, <1>18
  <2>2. VerdictInv'
    BY <2>1 DEF VerdictInv
  <2> QED
    BY <1>10, <1>13, <1>16, <1>17, <2>2 DEF OrderInv
<1>19. CASE n # 1
  <2>1. ExploredInv'
    <3> SUFFICES ASSUME NEW i \in 1..(n - 1), NEW d \in dependsOn[stack'[i].id]
                 PROVE  \/ d \in Range(stack'[i].rest)
                        \/ mark'[d] = "done"
                        \/ i < n - 1 /\ d = stack'[i + 1].id
      BY <1>2, <1>3 DEF ExploredInv
    <3>1. d \in dependsOn[stack[i].id]
      BY <1>3
    <3>2. \/ d \in Range(stack[i].rest)
          \/ mark[d] = "done"
          \/ i < n /\ d = stack[i + 1].id
      BY <1>0, <1>12, <3>1 DEF ExploredInv, n
    <3>3. CASE d \in Range(stack[i].rest)
      BY <1>3, <3>3
    <3>4. CASE mark[d] = "done"
      <4>1. d \in Strategies
        BY <1>0, <1>11, <1>12, <3>1 DEF ShapeInv, DependenciesTyped
      <4> QED
        BY <1>9, <3>4, <4>1
    <3>5. CASE i < n /\ d = stack[i + 1].id
      <4>1. i = n - 1 \/ (i < n - 1 /\ i + 1 \in 1..(n - 1))
        BY <1>1
      <4>2. CASE i = n - 1
        <5>1. i + 1 = n
          BY <1>1, <4>2
        <5> QED
          BY <1>1, <1>9, <3>5, <5>1
      <4>3. CASE i < n - 1 /\ i + 1 \in 1..(n - 1)
        BY <1>3, <3>5, <4>3
      <4> QED
        BY <4>1, <4>2, <4>3
    <3> QED
      BY <3>2, <3>3, <3>4, <3>5
  <2>2. verdict' = "walking" /\ stack' # <<>>
    BY <1>1, <1>3, <1>6, <1>19
  <2>3. VerdictInv'
    BY <2>1, <2>2 DEF VerdictInv
  <2> QED
    BY <1>10, <1>13, <1>16, <1>17, <2>3 DEF OrderInv
<1> QED
  BY <1>18, <1>19

(***************************************************************************)
(* The walk keeps its invariant from the root on.                          *)
(***************************************************************************)
LEMMA OrderInvHolds == DependencySpec => []OrderInv
<1>1. DependencyInit => OrderInv
  <2> SUFFICES ASSUME DependencyInit PROVE OrderInv
    OBVIOUS
  <2>1. PICK ids \in SUBSET Strategies : Root \in ids /\ dependsOn \in [ids -> SUBSET Strategies]
    BY DEF DependencyInit
  <2>2. DependenciesTyped /\ Root \in Registered /\ Root \in Strategies
    BY <2>1, RootIsAStrategy DEF DependenciesTyped, Registered
  <2>3. /\ Frame(Root) \in Frames /\ Frame(Root).id = Root
        /\ Range(Frame(Root).rest) = dependsOn[Root]
    BY <2>2, FrameFacts
  <2>4. stack = <<Frame(Root)>> /\ ordered = <<>> /\ verdict = "walking"
        /\ mark = [id \in Strategies |-> IF id = Root THEN "visiting" ELSE "unseen"]
    BY DEF DependencyInit
  <2>5. /\ stack \in Seq(Frames) /\ Len(stack) = 1 /\ stack # <<>>
        /\ stack[1].id = Root /\ Range(stack[1].rest) = dependsOn[Root]
    BY <2>3, <2>4
  <2>6. \A i \in 1..1 : i = 1
    OBVIOUS
  <2>7. ShapeInv
    BY <2>2, <2>4, <2>5 DEF ShapeInv
  <2>8. PathInv
    BY <2>2, <2>4, <2>5, <2>6 DEF PathInv
  <2>9. ResultInv
    BY <2>4 DEF ResultInv
  <2>10. MarksInv
    BY <2>4, <2>5 DEF MarksInv
  <2>11. VerdictInv
    BY <2>4, <2>5, <2>6 DEF VerdictInv, ExploredInv
  <2> QED
    BY <2>7, <2>8, <2>9, <2>10, <2>11 DEF OrderInv
<1>2. OrderInv /\ [DependencyNext]_dependencyVars => OrderInv'
  <2> SUFFICES ASSUME OrderInv, [DependencyNext]_dependencyVars
               PROVE  OrderInv'
    OBVIOUS
  <2>1. CASE VisitDependency
    <3>1. CASE Enters(Head(Top.rest))
      <4>1. mark[Head(Top.rest)] = "unseen" /\ Head(Top.rest) \in Registered
        BY <3>1 DEF Enters
      <4> QED
        BY <2>1, <3>1, <4>1, EnteringKeeps DEF VisitDependency
    <3>2. CASE ~Enters(Head(Top.rest))
      BY <2>1, <3>2, PassingKeeps DEF VisitDependency
    <3> QED
      BY <3>1, <3>2
  <2>2. CASE FinishStrategy
    BY <2>2, FinishingKeeps
  <2>3. CASE UNCHANGED dependencyVars
    <3>1. /\ Registered' = Registered /\ InResult' = InResult
          /\ \A x : Needed(x)' = Needed(x)
          /\ DependenciesTyped' <=> DependenciesTyped
      BY <2>3, NeedsStand DEF dependencyVars
    <3>2. UNCHANGED <<stack, mark, ordered, verdict, dependsOn>>
      BY <2>3 DEF dependencyVars
    <3>3. ShapeInv' /\ MarksInv' /\ ResultInv'
      BY <3>1, <3>2 DEF OrderInv, ShapeInv, MarksInv, ResultInv
    <3>4. PathInv'
      BY <3>1, <3>2 DEF OrderInv, PathInv
    <3>5. VerdictInv'
      BY <3>1, <3>2 DEF OrderInv, VerdictInv, ExploredInv
    <3> QED
      BY <3>3, <3>4, <3>5 DEF OrderInv
  <2> QED
    BY <2>1, <2>2, <2>3 DEF DependencyNext
<1> QED
  BY <1>1, <1>2, PTL DEF DependencySpec

(***************************************************************************)
(* The order, once found: the ordered strategies are closed under          *)
(* dependency, and so are those before any one of them.                    *)
(***************************************************************************)
LEMMA OrderIsRight ==
  ASSUME OrderInv, verdict = "ordered"
  PROVE  /\ InResult \subseteq Registered /\ \A id \in InResult : id \notin Needed(id)
         /\ Range(ordered) = InResult /\ Len(ordered) = Cardinality(InResult)
         /\ Last(ordered) = Root
         /\ \A i, j \in 1..Len(ordered) : ordered[i] \in DependsOn(ordered[j]) => i < j
<1> DEFINE k == Len(ordered)
           Before(j) == {ordered[i] : i \in 1..j}
<1>1. /\ k \in Nat \ {0} /\ ordered \in Seq(Strategies) /\ ordered[k] = Root /\ Last(ordered) = Root
      /\ DependenciesTyped
  BY DEF OrderInv, VerdictInv, ShapeInv, Last
<1>2. \A j \in 1..k : /\ ordered[j] \in Registered /\ ordered[j] \in InResult
                      /\ \A d \in dependsOn[ordered[j]] : \E i \in 1..(j - 1) : ordered[i] = d
                      /\ \A i \in 1..(j - 1) : ordered[i] # ordered[j]
  BY DEF OrderInv, ResultInv
<1>3. \A j \in 1..k : \A d \in DependsOn(ordered[j]) : \E i \in 1..(j - 1) : d = ordered[i]
  <2> SUFFICES ASSUME NEW j \in 1..k, NEW d \in DependsOn(ordered[j])
               PROVE  \E i \in 1..(j - 1) : d = ordered[i]
    OBVIOUS
  <2>1. d \in dependsOn[ordered[j]]
    BY <1>2 DEF DependsOn
  <2>2. PICK i \in 1..(j - 1) : ordered[i] = d
    BY <1>2, <2>1
  <2> QED
    BY <2>2
<1>4. ASSUME NEW j \in 0..k
      PROVE  /\ Before(j) \in SUBSET Strategies
             /\ \A id \in Before(j) : DependsOn(id) \subseteq Before(j)
  <2>1. \A i \in 1..j : i \in 1..k /\ 1..(i - 1) \subseteq 1..j
    BY <1>1
  <2>2. \A i \in 1..j : ordered[i] \in Strategies
    BY <1>1, <2>1
  <2>3. \A i \in 1..j : \A d \in DependsOn(ordered[i]) : \E h \in 1..j : d = ordered[h]
    BY <1>3, <2>1
  <2> QED
    BY <2>2, <2>3
<1>5. ASSUME NEW j \in 1..k
      PROVE  Needed(ordered[j]) \subseteq Before(j - 1)
  <2>1. j - 1 \in 0..k
    BY <1>1
  <2>2. DependsOn(ordered[j]) \subseteq Before(j - 1)
    BY <1>3
  <2>3. /\ Before(j - 1) \in SUBSET Strategies
        /\ \A id \in Before(j - 1) : DependsOn(id) \subseteq Before(j - 1)
    BY <1>4, <2>1
  <2> HIDE DEF Before
  <2> QED
    BY <1>1, <2>2, <2>3, NeededFacts
<1>6. Before(k) = InResult
  <2>1. k \in 1..k /\ 1..(k - 1) \subseteq 1..k
    BY <1>1
  <2>2. Needed(Root) \subseteq Before(k - 1)
    BY <1>1, <1>5, <2>1
  <2>3. Before(k - 1) \subseteq Before(k) /\ Root \in Before(k)
    BY <1>1, <2>1
  <2>4. Before(k) \subseteq InResult
    BY <1>2
  <2> QED
    BY <2>2, <2>3, <2>4 DEF InResult
<1>7. Range(ordered) = Before(k)
  <2>1. DOMAIN ordered = 1..k
    BY <1>1
  <2> QED
    BY <2>1 DEF Range
<1>8. \A i, j \in 1..k : i < j => ordered[i] # ordered[j]
  <2>1. \A i, j \in 1..k : i < j => i \in 1..(j - 1)
    BY <1>1
  <2> QED
    BY <1>2, <2>1
<1>9. k = Cardinality(InResult)
  <2>1. ordered \in [1..k -> InResult]
    BY <1>1, <1>2
  <2>2. \A i, j \in 1..k : ordered[i] = ordered[j] => i = j
    <3>1. \A i, j \in 1..k : i < j \/ j < i \/ i = j
      BY <1>1
    <3> QED
      BY <1>8, <3>1
  <2>3. ordered \in Injection(1..k, InResult)
    BY <2>1, <2>2 DEF Injection, IsInjective
  <2>4. ordered \in Surjection(1..k, InResult)
    BY <1>6, <2>1 DEF Surjection
  <2>5. IsFiniteSet(1..k) /\ Cardinality(1..k) = k
    BY <1>1, FS_Interval
  <2>6. IsFiniteSet(InResult)
    BY <2>4, <2>5, FS_Surjection
  <2> HIDE DEF k
  <2> QED
    BY <2>3, <2>4, <2>5, <2>6, FS_Injection
<1>10. \A id \in InResult : id \in Registered /\ id \notin Needed(id)
  <2> SUFFICES ASSUME NEW j \in 1..k PROVE ordered[j] \in Registered /\ ordered[j] \notin Needed(ordered[j])
    BY <1>6
  <2>1. \A i \in 1..(j - 1) : ordered[i] # ordered[j]
    BY <1>2
  <2> QED
    BY <1>2, <1>5, <2>1
<1>11. ASSUME NEW i \in 1..k, NEW j \in 1..k, ordered[i] \in DependsOn(ordered[j])
       PROVE  i < j
  <2>1. PICK m \in 1..(j - 1) : ordered[m] = ordered[i]
    BY <1>3, <1>11
  <2>2. m \in 1..k /\ m < j
    BY <1>1, <2>1
  <2>3. ~(m < i) /\ ~(i < m)
    BY <1>8, <2>1, <2>2
  <2> QED
    BY <1>1, <2>2, <2>3
<1> QED
  BY <1>1, <1>6, <1>7, <1>9, <1>10, <1>11

(***************************************************************************)
(* The dependencies' half of the theorem below.                            *)
(***************************************************************************)
LEMMA WalkIsRight == DependencySpec => []ResolvedInOrder
<1>1. OrderInv => ResolvedInOrder
  <2> SUFFICES ASSUME OrderInv PROVE ResolvedInOrder
    OBVIOUS
  <2>1. Needed(Root) \cup {Root} = InResult
    BY DEF InResult
  <2>2. verdict = "cycle" => \E id \in InResult : id \in Needed(id)
    BY DEF OrderInv, VerdictInv
  <2>3. verdict = "unresolved" => ~(InResult \subseteq Registered)
    BY DEF OrderInv, VerdictInv
  <2>4. verdict = "walking" => stack # <<>>
    BY DEF OrderInv, VerdictInv
  <2>5. verdict = "ordered" =>
         /\ InResult \subseteq Registered /\ \A id \in InResult : id \notin Needed(id)
         /\ Range(ordered) = InResult /\ Len(ordered) = Cardinality(InResult)
         /\ Last(ordered) = Root
         /\ \A i, j \in 1..Len(ordered) : ordered[i] \in DependsOn(ordered[j]) => i < j
    BY OrderIsRight
  <2> HIDE DEF InResult
  <2> QED
    BY <2>1, <2>2, <2>3, <2>4, <2>5 DEF ResolvedInOrder
<1> QED
  BY <1>1, OrderInvHolds, PTL

(***************************************************************************)
(* What research is run on stays what it was: over any registrations,      *)
(* promotions and rollbacks the data of a model or an experiment, the      *)
(* champion and every former one can be found again, no retired strategy   *)
(* takes part; and the walk over dependencies orders all that is needed,   *)
(* each after what it depends on, or names a fault that is there.          *)
(***************************************************************************)
THEOREM RegistriesAreKept == RegistriesSpec /\ DependencySpec => []RegistriesKeepOrder
BY ResearchIsReproducible, WalkIsRight, PTL DEF RegistriesKeepOrder
=============================================================================
