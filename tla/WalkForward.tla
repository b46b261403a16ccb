----------------------------- MODULE WalkForward ----------------------------
(***************************************************************************)
(* Out-of-sample evaluation: labels that look `horizon' bars ahead         *)
(* (LabelBuilder, src/labels/label.cpp), pooled over a panel of            *)
(* instruments; walk-forward folds over the pooled observations            *)
(* (WalkForwardValidator::split) and the guard of the locked holdout       *)
(* (HoldoutGuard, both src/validation/walk_forward.cpp).                   *)
(*                                                                         *)
(* A label is abstracted to the prices it depends on: the instant of the   *)
(* last one.  Times of bars are even, so that the nanosecond the code adds *)
(* to the label of a row without a future is one unit.                     *)
(***************************************************************************)
EXTENDS Integers, Sequences, SequencesExt

CONSTANTS Panels,      \* panels: the instants of each instrument's bars, as sequences of sets
          Horizons,    \* LabelConfig::horizon, 0 is refused
          SplitConfigs, \* WalkForwardConfig: mode, train, val, test, step, warmup, embargo, minTrain, purge
          Boundaries   \* HoldoutGuard::boundary_, 0 when unset

ASSUME WalkForwardBounds == Boundaries \subseteq Nat /\ Horizons \subseteq Nat
ASSUME PanelsAreFinite ==
  \A panel \in Panels :
    panel \in Seq(SUBSET Nat) /\ \A k \in DOMAIN panel : IsFiniteSet(panel[k])
ASSUME WindowsAreNatural ==
  SplitConfigs \subseteq [mode: {"rolling", "expanding"}, train: Nat, val: Nat, test: Nat,
                         step: Nat, warmup: Nat, embargo: Nat, minTrain: Nat, purge: BOOLEAN]

VARIABLES observations, \* LabelSet::labels of the panel, in decision order
          wfConfig,     \* the configuration of the split
          boundary, unlocked,   \* HoldoutGuard
          trainEnd,     \* train_end_idx of the loop, 0 before the split starts
          folds,        \* the folds emitted
          evaluated     \* history: the folds check_fold let through, and the lock at that time

walkForwardVars == <<observations, wfConfig, boundary, unlocked, trainEnd, folds, evaluated>>

-----------------------------------------------------------------------------
(* Labels.                                                                 *)

\* The label of the i-th bar: its decision instant, the end of its interval and
\* the last price it depends on.  Winsorised labels are clipped to bounds taken
\* from the whole series.
LabelOf(times, i, h, winsorize, instrument) ==
  LET end == IF i + h <= Len(times) THEN times[i + h] ELSE times[i] + 1
  IN  [at |-> times[i], end |-> end, instrument |-> instrument,
       valid |-> i + h <= Len(times),
       reads |-> IF i + h > Len(times) THEN times[i]
                 ELSE IF winsorize THEN Last(times) ELSE end]

\* The elements of a set in an order of it, a set of pairs.
Ranked(set, order) ==
  [i \in 1..Cardinality(set) |->
     CHOOSE x \in set : Cardinality({y \in set : <<y, x>> \in order}) = i - 1]

Earlier(times) == {p \in times \X times : p[1] < p[2]}

Labels(bars, h, winsorize, instrument) ==
  LET times == Ranked(bars, Earlier(bars))
  IN  {LabelOf(times, i, h, winsorize, instrument) : i \in 1..Len(times)}

\* LabelBuilder::build_panel: by decision time, then instrument.
PanelOrder(labels) ==
  {p \in labels \X labels :
     p[1].at < p[2].at \/ (p[1].at = p[2].at /\ p[1].instrument < p[2].instrument)}

Pooled(panel, h, winsorize) ==
  LET labels == UNION {Labels(panel[k], h, winsorize, k) : k \in DOMAIN panel}
  IN  Ranked(labels, PanelOrder(labels))

-----------------------------------------------------------------------------
(* The split.  Rows are counted from 1; a window is a set of rows.         *)

Rows(first, length) == first + 1 .. first + length

\* label_overlaps: half-open intervals.
Overlaps(row, begin, end) == observations[row].at < end /\ begin < observations[row].end

\* Mutant of Leaks: the decision instant is compared, not the label's interval.
LeaksByDecision(row, from, to) ==
  observations[from].at <= observations[row].at /\ observations[row].at < observations[to].end

Leaks(row, from, to) == Overlaps(row, observations[from].at, observations[to].end)

\* The fold whose training window ends before row `end' (both counted as the
\* code counts them).  An empty validation window still has an interval, from
\* the first test row to the label of the last training row.
FoldAt(end) ==
  LET c == wfConfig
      trainBegin == IF c.mode = "rolling" THEN end - c.train ELSE c.warmup
      window == Rows(trainBegin, end - trainBegin)
      testBegin == end + c.val
      testEnd == testBegin + c.test
      purged == IF c.purge
                THEN {i \in window : \/ Leaks(i, end + 1, testBegin)
                                     \/ Leaks(i, testBegin + 1, testEnd)}
                ELSE {}
  IN  [train |-> window \ purged, purged |-> purged,
       validation |-> Rows(end, c.val), test |-> Rows(testBegin, c.test),
       embargoed |-> Rows(testEnd, c.embargo) \cap DOMAIN observations]

SplitRefused ==
  observations # <<>> /\ (wfConfig.train = 0 \/ wfConfig.test = 0 \/ wfConfig.step = 0)

StartSplit ==
  /\ trainEnd = 0 /\ observations # <<>> /\ ~SplitRefused
  /\ trainEnd' = wfConfig.warmup + wfConfig.train
  /\ UNCHANGED <<observations, wfConfig, boundary, unlocked, folds, evaluated>>

\* One turn of the loop; a fold with too few training rows is skipped.
NextFold ==
  /\ trainEnd > 0
  /\ trainEnd + wfConfig.val + wfConfig.test <= Len(observations)
  /\ LET fold == FoldAt(trainEnd)
     IN  folds' = IF Cardinality(fold.train) < wfConfig.minTrain
                  THEN folds ELSE Append(folds, fold)
  /\ trainEnd' = trainEnd + wfConfig.step
  /\ UNCHANGED <<observations, wfConfig, boundary, unlocked, evaluated>>

-----------------------------------------------------------------------------
(* The holdout.                                                            *)

Unlock ==
  /\ ~unlocked /\ unlocked' = TRUE
  /\ UNCHANGED <<observations, wfConfig, boundary, trainEnd, folds, evaluated>>

IsHoldout(t) == boundary # 0 /\ t >= boundary

\* Mutant of InHoldout: only the decision instant is checked.
InHoldoutByDecision(row) == IsHoldout(observations[row].at)

InHoldout(row) == IsHoldout(observations[row].at) \/ IsHoldout(observations[row].end)

Evaluates(fold) == fold.train \cup fold.validation \cup fold.test

\* HoldoutGuard::check_fold, then the model is fitted and tested.
Evaluate ==
  \E fold \in ToSet(folds) :
    /\ unlocked \/ \A row \in Evaluates(fold) : ~InHoldout(row)
    /\ evaluated' = evaluated \cup {[rows |-> Evaluates(fold), locked |-> ~unlocked]}
    /\ UNCHANGED <<observations, wfConfig, boundary, unlocked, trainEnd, folds>>

-----------------------------------------------------------------------------
WalkForwardInit ==
  /\ \E panel \in Panels, h \in Horizons \ {0}, winsorize \in BOOLEAN :
       observations = Pooled(panel, h, winsorize)
  /\ wfConfig \in SplitConfigs /\ boundary \in Boundaries /\ unlocked = FALSE
  /\ trainEnd = 0 /\ folds = <<>> /\ evaluated = {}

WalkForwardNext == StartSplit \/ NextFold \/ Unlock \/ Evaluate

WalkForwardSpec == WalkForwardInit /\ [][WalkForwardNext]_walkForwardVars

-----------------------------------------------------------------------------
Meet(a, b) == observations[a].at < observations[b].end /\ observations[b].at < observations[a].end

\* With purging on, no training row of a fold has a label that reaches into the
\* outcome of any row the fold is validated or tested on, for every pooling of
\* instruments whose bars differ, whatever the windows; and training comes
\* before validation, which comes before the test.
NoOutcomeLeaks ==
  wfConfig.purge =>
    \A k \in DOMAIN folds :
      LET f == folds[k]
      IN  /\ \A i \in f.train, j \in f.validation \cup f.test : i < j /\ ~Meet(i, j)
          /\ \A i \in f.validation, j \in f.test : i < j

\* No price of the holdout enters an evaluation that took place while it was
\* locked, neither through a decision nor through a label: as long as the
\* labels were not winsorised over the whole series.
HoldoutUntouched ==
  \A e \in evaluated :
    e.locked => \A row \in e.rows :
      observations[row].reads <= observations[row].end => ~IsHoldout(observations[row].reads)

\* Neither a training set nor an evaluation under lock sees an outcome it must
\* not.
NoFutureIsSeen == NoOutcomeLeaks /\ HoldoutUntouched
=============================================================================
