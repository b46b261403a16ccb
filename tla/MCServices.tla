----------------------------- MODULE MCServices -----------------------------
(***************************************************************************)
(* The parts of the program that share no state with one another, side by  *)
(* side for TLC: the initial state picks the part in focus, only that part *)
(* moves, and the others keep their initial state.  A behaviour of this    *)
(* module is a behaviour of one part, so a property of a part holds here   *)
(* exactly when it holds of its own specification under these constants.   *)
(***************************************************************************)
EXTENDS OrderManager, PaperSession, HostInbox, AlgoExecution, WalkForward, StoredState,
        Operations, DecisionPipeline, ResearchRegistries, ResearchLedger, PaperVenue

CONSTANTS m1, m2, m3, q1, q2, r1   \* manifests, questions and a run of the trial ledger

VARIABLE focus

serviceVars == <<focus, omsVars, paperVars, hostInboxVars, algoVars, registryVars,
                 walkForwardVars, resumeVars, operationsVars, dependencyVars,
                 pipelineVars, ledgerVars, rankingVars, stateVars, venueVars>>

-----------------------------------------------------------------------------
(* The small instances of the parts.                                       *)

\* The volume profile of a VWAP window: its second slice is empty.
UnevenProfile == <<1, 0, 2>>

EitherInstrument == Permutations(Instruments)

\* Two trials of one question and one of another.
TwoQuestions == [m \in {m1, m2, m3} |-> IF m = m3 THEN q2 ELSE q1]

SharpeWeighsTwice == [name \in {"sharpe", "drawdown"} |-> IF name = "sharpe" THEN 2 ELSE 1]

DrawdownIsLower == [name \in {"sharpe", "drawdown"} |-> IF name = "sharpe" THEN "higher" ELSE "lower"]

\* A caller records a Sharpe ratio of its own, or none.
OwnSharpe ==
  {[name \in {"sharpe", "drawdown"} |-> IF name = "sharpe" THEN own ELSE Unanswered] :
     own \in {1, Unanswered}}

SharpeAndDrawdown ==
  {[name \in {"sharpe", "drawdown"} |-> IF name = "sharpe" THEN sharpe ELSE drawdown] :
     sharpe \in {2, Unanswered}, drawdown \in {1, 2}}

\* Two datasets, and three that are not described well enough to register.
DatasetContents ==
  LET Dataset(content, features, splits) ==
        [content |-> content, features |-> features, splits |-> splits]
  IN  {Dataset(1, 1, <<1, 2>>), Dataset(2, 1, <<>>),
       Dataset(0, 1, <<>>), Dataset(1, 0, <<>>), Dataset(1, 1, <<2, 2>>)}

Even(first, last) == {2 * i : i \in first..last}

\* Panels of two instruments whose bars differ: one series; two in step; one with gaps beside one without.
SmallPanels ==
  {<<Even(1, 8)>>, <<Even(1, 4), Even(1, 4)>>}
  \cup {<<Even(1, 5), gappy>> : gappy \in {{2, 8}, {4, 6, 12}, {6, 14}}}

Mode(name, train, val, test, step, warmup, embargo, purge) ==
  [mode |-> name, train |-> train, val |-> val, test |-> test, step |-> step,
   warmup |-> warmup, embargo |-> embargo, minTrain |-> 1, purge |-> purge]

SmallSplits ==
  {Mode(m, train, val, 2, step, warmup, 1, purge) :
     m \in {"rolling", "expanding"}, train \in {0, 2, 3}, val \in {0, 2},
     step \in {1, 3}, warmup \in {0, 1}, purge \in BOOLEAN}

\* Both instruments of one sector.
OneSector == [n \in Names |-> 0]

\* A reversal and a forecast that does not pay for itself and then says nothing,
\* each beside one that stays and one made before the first bar.
SmallForecasts ==
  LET Reverses == {[at |-> 1, value |-> 2], [at |-> 3, value |-> -2]}
      Fades    == {[at |-> 2, value |-> 1], [at |-> 3, value |-> 0]}
      Stays    == {[at |-> 1, value |-> 3]}
      Early    == {[at |-> 0, value |-> -2], [at |-> 2, value |-> 2]}
  IN  {[n \in Names |-> IF n = 1 THEN one ELSE other] : one \in {Reverses, Fades}, other \in {Stays, Early}}

\* One model; a model beside a lighter reversal rule of larger views.
SmallEnsembles ==
  LET Model(weight) == [weight |-> weight, scale |-> 1, floor |-> 0]
      Reversal == [weight |-> 2, scale |-> -2, floor |-> 3]
  IN  {{Model(1)}, {Model(3), Reversal}}

\* States worth saving: usual ones, one with a quote in its name, one whose
\* equity or average cost is not a number.
PlainState == [f \in Fields |-> 1]

OddStates ==
  {PlainState, [PlainState EXCEPT !["session_id"] = Quoted], [PlainState EXCEPT !["cash"] = AsZero]}
  \cup {[PlainState EXCEPT ![f] = NotFinite] : f \in {"equity", "average_cost"}}

-----------------------------------------------------------------------------
(* Parts whose initial states are many keep one of them out of focus.      *)

Parts == {"oms", "paper", "host inbox", "algos", "models", "strategies", "walk forward",
          "resume", "monitor", "breaker", "alerts", "dependencies", "pipeline",
          "ledger", "ranking", "state file", "venue"}

PaperWaits == focus # "paper" => config = 0

NoPanel ==
  /\ observations = <<>> /\ folds = <<>> /\ evaluated = {} /\ unlocked = FALSE
  /\ trainEnd = 0 /\ boundary = 0 /\ wfConfig = (CHOOSE split \in SplitConfigs : TRUE)

RootAlone == dependsOn = (Root :> {})

PipelineWaits ==
  focus # "pipeline" =>
    /\ forecasts = (CHOOSE some \in Forecasts : TRUE)
    /\ generator = (CHOOSE some \in [members: Ensembles, method: EnsembleMethods, sizing: SizingMethods] : TRUE)

NothingToRank ==
  /\ outcomesOf = [id \in RankedIds |->
                     [status |-> "completed", custom |-> (CHOOSE some \in Customs : TRUE),
                      measured |-> (CHOOSE some \in Measures : TRUE)]]
  /\ comparison = [ids |-> {}] /\ board = [metric |-> {}]

ServicesInit ==
  /\ focus \in Parts
  /\ OmsInit
  /\ PaperInit /\ PaperWaits
  /\ HostInboxInit
  /\ AlgoInit
  /\ RegistriesInit
  /\ IF focus = "walk forward" THEN WalkForwardInit ELSE NoPanel
  /\ ResumeInit
  /\ OperationsInit
  /\ IF focus = "dependencies" THEN DependencyInit ELSE RootAlone /\ DependencyInit
  /\ PipelineInit /\ PipelineWaits
  /\ LedgerInit
  /\ IF focus = "ranking" THEN RankingInit ELSE NothingToRank
  /\ StateFileInit
  /\ VenueInit

\* The parts out of focus stand still.  The two registries share a module and
\* no state, and so do the three monitors, which share the clock.
OthersStandStill ==
  /\ UNCHANGED focus
  /\ IF focus = "oms" THEN TRUE ELSE UNCHANGED omsVars
  /\ IF focus = "paper" THEN TRUE ELSE UNCHANGED paperVars
  /\ IF focus = "host inbox" THEN TRUE ELSE UNCHANGED hostInboxVars
  /\ IF focus = "algos" THEN TRUE ELSE UNCHANGED algoVars
  /\ IF focus \in {"models", "strategies"} THEN TRUE ELSE UNCHANGED registryVars
  /\ IF focus = "walk forward" THEN TRUE ELSE UNCHANGED walkForwardVars
  /\ IF focus = "resume" THEN TRUE ELSE UNCHANGED resumeVars
  /\ IF focus \in {"monitor", "breaker", "alerts"} THEN TRUE ELSE UNCHANGED operationsVars
  /\ IF focus = "dependencies" THEN TRUE ELSE UNCHANGED dependencyVars
  /\ IF focus = "pipeline" THEN TRUE ELSE UNCHANGED pipelineVars
  /\ IF focus = "ledger" THEN TRUE ELSE UNCHANGED ledgerVars
  /\ IF focus = "ranking" THEN TRUE ELSE UNCHANGED rankingVars
  /\ IF focus = "state file" THEN TRUE ELSE UNCHANGED stateVars
  /\ IF focus = "venue" THEN TRUE ELSE UNCHANGED venueVars

ServicesNext ==
  \/ focus = "oms"          /\ OmsNext                               /\ OthersStandStill
  \/ focus = "paper"        /\ PaperNext                             /\ OthersStandStill
  \/ focus = "host inbox"   /\ HostInboxNext                         /\ OthersStandStill
  \/ focus = "algos"        /\ AlgoNext                              /\ OthersStandStill
  \/ focus = "models"       /\ (DatasetsNext \/ ModelsNext)          /\ OthersStandStill
  \/ focus = "strategies"   /\ (DatasetsNext \/ StrategiesNext)      /\ OthersStandStill
  \/ focus = "walk forward" /\ WalkForwardNext                       /\ OthersStandStill
  \/ focus = "resume"       /\ ResumeNext                            /\ OthersStandStill
  \/ focus = "monitor"      /\ (Tick \/ MonitorNext)                 /\ OthersStandStill
  \/ focus = "breaker"      /\ (Tick \/ BreakerNext)                 /\ OthersStandStill
  \/ focus = "alerts"       /\ (Tick \/ AlertNext)                   /\ OthersStandStill
  \/ focus = "dependencies" /\ DependencyNext                        /\ OthersStandStill
  \/ focus = "pipeline"     /\ PipelineNext                          /\ OthersStandStill
  \/ focus = "ledger"       /\ LedgerNext                            /\ OthersStandStill
  \/ focus = "ranking"      /\ RankingNext                           /\ OthersStandStill
  \/ focus = "state file"   /\ StateFileNext                         /\ OthersStandStill
  \/ focus = "venue"        /\ VenueNext                             /\ OthersStandStill

ServicesSpec == ServicesInit /\ [][ServicesNext]_serviceVars

=============================================================================
