--------------------------- MODULE ResearchLedger ---------------------------
(***************************************************************************)
(* What research is held to account by: the ledger of the trials that were *)
(* made, and the comparison and ranking of finished experiments.           *)
(***************************************************************************)
EXTENDS Integers, FiniteSets, Functions

(***************************************************************************)
(* The record of what was tried (src/experiments/registry.cpp, SQLite) and *)
(* the validator in front of it (src/research/trial.cpp): runs, trials     *)
(* counted per research question, search budgets declared beforehand and   *)
(* unlocks of the holdout.  A trial's id is the hash of its manifest, here *)
(* the manifest itself; run ids and trial ids share the key of one table.  *)
(***************************************************************************)

CONSTANTS Manifests,      \* TrialManifest
          QuestionOf,     \* research_question of a manifest
          RunIds,         \* ids of runs that are no trial's
          Budgets,        \* budgets a researcher declares
          MaxLedgerCalls  \* bound on the calls

Questions == {QuestionOf[m] : m \in Manifests}
RunKeys == Manifests \cup RunIds
RunStatuses == {"started", "completed", "failed", "invalidated"}

VARIABLES runRows,   \* table runs: status by run id
          trialRows, \* table trials: how many rows have the manifest's parameters
          budgetRows,\* table search_budgets
          unlocks,   \* table holdout_unlocks: the run of each row
          report,    \* the last ResearchReport, with the manifest it is about
          told,      \* history: manifests reported as duplicates, with their count then
          declared,  \* history: the first budget declared for a question
          ledgerCalls

ledgerVars == <<runRows, trialRows, budgetRows, unlocks, report, told, declared, ledgerCalls>>

Unset == -1
NoRow == "no row"

\* Only a run stored under the trial's own id makes a trial known; a row of
\* trials does not.
KnownTrial(m) == runRows[m] # NoRow

TrialCount(question) ==
  SumFunctionOnSet(trialRows, {m \in Manifests : QuestionOf[m] = question})

\* Without a declared budget nothing is exceeded.
BudgetExceeded(question) ==
  budgetRows[question] # Unset /\ TrialCount(question) > budgetRows[question]

Called == ledgerCalls < MaxLedgerCalls /\ ledgerCalls' = ledgerCalls + 1

-----------------------------------------------------------------------------
(* experiments::Registry                                                   *)

\* INSERT OR REPLACE: a run inserted again loses how it had finished.
InsertRun(run) ==
  /\ Called
  /\ runRows' = [runRows EXCEPT ![run] = "started"]
  /\ UNCHANGED <<trialRows, budgetRows, unlocks, report, told, declared>>

\* UPDATE ... WHERE: a run that is not there is not an error.
FinishRun(run, status) ==
  /\ Called
  /\ runRows' = [runRows EXCEPT ![run] = IF @ = NoRow THEN @ ELSE status]
  /\ UNCHANGED <<trialRows, budgetRows, unlocks, report, told, declared>>

\* INSERT OR IGNORE: a budget is declared once.
BudgetAfter(question, budget) ==
  [budgetRows EXCEPT ![question] = IF @ = Unset THEN budget ELSE @]

DeclareBudget(question, budget) ==
  /\ Called
  /\ budgetRows' = BudgetAfter(question, budget)
  /\ declared' = [declared EXCEPT ![question] = IF @ = Unset THEN budget ELSE @]
  /\ UNCHANGED <<runRows, trialRows, unlocks, report, told>>

\* Refused without a justification; otherwise permanent.
RecordHoldoutUnlock(run, justified) ==
  /\ Called
  /\ unlocks' = IF justified THEN unlocks \cup {<<run, Cardinality(unlocks)>>} ELSE unlocks
  /\ UNCHANGED <<runRows, trialRows, budgetRows, report, told, declared>>

-----------------------------------------------------------------------------
(* research::ResearchValidator                                             *)

\* validate(), before a trial runs: three warnings, none of them fatal.
Validate(m) ==
  LET question == QuestionOf[m]
      Warned(code, condition) == IF condition THEN {code} ELSE {}
  IN  /\ Called
      /\ report' =
           [about |-> m, trialsRun |-> TrialCount(question), budget |-> budgetRows[question],
            issues |-> Warned("undeclared_budget", budgetRows[question] = Unset)
                       \cup Warned("search_budget_exceeded", BudgetExceeded(question))
                       \cup Warned("duplicate_trial", KnownTrial(m))]
      /\ told' = [told EXCEPT ![m] = IF KnownTrial(m) THEN trialRows[m] ELSE @]
      /\ UNCHANGED <<runRows, trialRows, budgetRows, unlocks, declared>>

\* Slip: it looks for the run of the caller, which is the trial's only when the
\* caller made it so.
CountedOfRun(m, run) == runRows[run] = NoRow

\* register_trial(): a known trial is not counted.
Counted(m, run) == ~KnownTrial(m)

RegisterTrial(m, run) ==
  /\ Called
  /\ trialRows' = [trialRows EXCEPT ![m] = IF Counted(m, run) THEN @ + 1 ELSE @]
  /\ UNCHANGED <<runRows, budgetRows, unlocks, report, told, declared>>

-----------------------------------------------------------------------------
\* Registry::open() on a new file; on an existing one it changes nothing.
LedgerInit ==
  /\ runRows = [run \in RunKeys |-> NoRow]
  /\ trialRows = [m \in Manifests |-> 0]
  /\ budgetRows = [q \in Questions |-> Unset]
  /\ unlocks = {} /\ ledgerCalls = 0
  /\ report = [about |-> NoRow]
  /\ told = [m \in Manifests |-> Unset]
  /\ declared = [q \in Questions |-> Unset]

LedgerNext ==
  \/ \E run \in RunKeys :
       \/ InsertRun(run)
       \/ \E status \in RunStatuses \ {"started"} : FinishRun(run, status)
       \/ \E justified \in BOOLEAN : RecordHoldoutUnlock(run, justified)
       \/ \E m \in Manifests : RegisterTrial(m, run)
  \/ \E q \in Questions, budget \in Budgets : DeclareBudget(q, budget)
  \/ \E m \in Manifests : Validate(m)

LedgerSpec == LedgerInit /\ [][LedgerNext]_ledgerVars

-----------------------------------------------------------------------------
\* The multiple-testing correction is honest: a trial a report called a duplicate
\* that "will not be counted again" never is, whoever registers it later and under
\* whichever run; and a budget stays what was declared first, so that a report
\* names the question as over its budget exactly when more was tried than that.
LedgerHonest ==
  /\ \A m \in Manifests : told[m] # Unset => trialRows[m] = told[m]
  /\ budgetRows = declared
  /\ report.about # NoRow =>
       ("search_budget_exceeded" \in report.issues
          <=> report.budget # Unset /\ report.trialsRun > declared[QuestionOf[report.about]])

-----------------------------------------------------------------------------
(***************************************************************************)
(* Comparing experiments and ranking them (ExperimentComparison and        *)
(* LeaderboardBuilder, src/experiment/experiment.cpp).  A result answers   *)
(* for a metric from what its caller recorded or from the analytics it     *)
(* carries, or not at all.  Ids are numbers, which gives them the order    *)
(* the ties are broken by; weights and values are integers.                *)
(***************************************************************************)

CONSTANTS RankedIds,       \* the experiments: a set of numbers
          MetricNames,
          MetricWeights,      \* ComparisonMetric::weight by name
          Directions,   \* ComparisonMetric::direction by name: "higher" or "lower"
          Customs,      \* custom_metrics of a result: [MetricNames -> value or Unanswered]
          Measures,     \* what its analytics hold, likewise
          Limits        \* lengths of a board; zero is no limit

ASSUME RankingBounds ==
  /\ RankedIds \subseteq Nat /\ IsFiniteSet(RankedIds) /\ IsFiniteSet(MetricNames)
  /\ MetricWeights \in [MetricNames -> Nat] /\ Limits \subseteq Nat
  /\ Customs \subseteq [MetricNames -> Int] /\ Measures \subseteq [MetricNames -> Int]

Unanswered == -1   \* absent, or not finite

VARIABLES outcomesOf,   \* ExperimentResult by experiment
          comparison,\* the last ComparisonReport
          board      \* the last Leaderboard

rankingVars == <<outcomesOf, comparison, board>>

\* What a caller recorded under a name takes precedence.
MetricOf(id, name) ==
  IF outcomesOf[id].custom[name] # Unanswered THEN outcomesOf[id].custom[name]
  ELSE outcomesOf[id].measured[name]

\* Slip: every metric is better when higher.
HigherWins(value, other, direction) == value > other

Better(value, other, direction) == IF direction = "higher" THEN value > other ELSE value < other

\* A tie is broken by id, here and below.
Precedes(id, other, name, direction) ==
  \/ Better(MetricOf(id, name), MetricOf(other, name), direction)
  \/ MetricOf(id, name) = MetricOf(other, name) /\ id < other

-----------------------------------------------------------------------------
(* ExperimentComparison::compare                                           *)

\* An experiment without the metric does not take part in its ranking.
Participants(ids, name) == {id \in ids : MetricOf(id, name) # Unanswered}

RankIn(ids, name, id) ==
  1 + Cardinality({other \in Participants(ids, name) : Precedes(other, id, name, Directions[name])})

\* Metrics with a weight that the experiment answers for.
CountsFor(id) == {name \in MetricNames : MetricWeights[name] > 0 /\ MetricOf(id, name) # Unanswered}

\* composite_score as a fraction: the mean of the ranks, each normalised by the
\* number of rows, over the weight the experiment took part in.
Composite(ids, id) ==
  LET share == [name \in MetricNames |->
                  MetricWeights[name] * (Cardinality(ids) - RankIn(ids, name, id) + 1)]
  IN  [top |-> SumFunctionOnSet(share, CountsFor(id)),
       bottom |-> Cardinality(ids) * SumFunctionOnSet(MetricWeights, CountsFor(id))]

Score(fraction) == IF fraction.bottom = 0 THEN [top |-> 0, bottom |-> 1] ELSE fraction

AheadOf(ids, id, other) ==
  LET one == Score(Composite(ids, id))
      two == Score(Composite(ids, other))
  IN  \/ one.top * two.bottom > two.top * one.bottom
      \/ one.top * two.bottom = two.top * one.bottom /\ id < other

\* An empty set of results is an error.
Compare(ids) ==
  /\ ids # {} /\ comparison.ids = {} /\ board.metric = {}
  /\ comparison' =
       [ids |-> ids,
        overall |-> [id \in ids |-> 1 + Cardinality({other \in ids : AheadOf(ids, other, id)})],
        unavailable |-> {name \in MetricNames : Participants(ids, name) = {}}]
  /\ UNCHANGED <<outcomesOf, board>>

-----------------------------------------------------------------------------
(* LeaderboardBuilder::build                                               *)

\* complete(), with a finite value.
Eligible(name) ==
  {id \in RankedIds : outcomesOf[id].status = "completed" /\ MetricOf(id, name) # Unanswered}

\* Sorted, and then cut to the limit.
Best(name, direction, limit) ==
  {id \in Eligible(name) :
     Cardinality({other \in Eligible(name) : Precedes(other, id, name, direction)}) < limit}

Build(name, direction, limit) ==
  LET listed == IF limit = 0 THEN Eligible(name) ELSE Best(name, direction, limit)
  IN  /\ board.metric = {} /\ comparison.ids = {}
      /\ board' = [metric |-> {name}, direction |-> direction,
                   rank |-> [id \in listed |->
                     1 + Cardinality({other \in listed : Precedes(other, id, name, direction)})]]
      /\ UNCHANGED <<outcomesOf, comparison>>

-----------------------------------------------------------------------------
\* The experiments as their owners left them: run to the end, or failed with the
\* metrics measured up to then.
RankingInit ==
  /\ outcomesOf \in [RankedIds -> [status: {"completed", "failed"}, custom: Customs, measured: Measures]]
  /\ comparison = [ids |-> {}]
  /\ board = [metric |-> {}]

RankingNext ==
  \/ \E ids \in SUBSET RankedIds : Compare(ids)
  \/ \E name \in MetricNames, direction \in {"higher", "lower"}, limit \in Limits :
       Build(name, direction, limit)

RankingSpec == RankingInit /\ [][RankingNext]_rankingVars

-----------------------------------------------------------------------------
\* A ranking never contradicts the results it ranks.  Of two experiments that
\* answer for the same metrics, one better in each of them is ahead in a
\* comparison, whoever else takes part; and no finished experiment is missing from
\* a leaderboard that lists a worse one, or stands behind it.
\* (Better in some and equal in the others is not enough: a tie costs a place in
\* the metric's ranking to the larger id, which may outweigh the rest.)
RankingsFollowResults ==
  LET Superior(one, two, name, direction) ==
        IF direction = "higher" THEN MetricOf(one, name) > MetricOf(two, name)
        ELSE MetricOf(one, name) < MetricOf(two, name)
  IN  /\ \A one, two \in comparison.ids :
           /\ CountsFor(one) = CountsFor(two) /\ CountsFor(one) # {}
           /\ \A name \in CountsFor(one) : Superior(one, two, name, Directions[name])
           => comparison.overall[one] < comparison.overall[two]
      /\ \A name \in board.metric : \A one \in Eligible(name), two \in DOMAIN board.rank :
           Superior(one, two, name, board.direction)
             => one \in DOMAIN board.rank /\ board.rank[one] < board.rank[two]

\* Every trial counts once, and a ranking is the one the results imply.
ResearchIsCounted == LedgerHonest /\ RankingsFollowResults
=============================================================================
