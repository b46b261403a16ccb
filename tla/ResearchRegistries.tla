------------------------- MODULE ResearchRegistries -------------------------
(***************************************************************************)
(* The registries research is recorded in: dataset versions and models     *)
(* (src/storage/registry.cpp), strategy versions and their lifecycle       *)
(* (src/strategy/registry.cpp), and the experiments prepared against them  *)
(* (ExperimentRunner, src/experiment/experiment.cpp).  One dataset id, one *)
(* model id and one strategy id, each with several versions: there the     *)
(* code never relates two ids of a registry.  Where it does, in            *)
(* StrategyRegistry::resolve_dependencies, the ids are those of Strategies *)
(* (second part of the module).                                            *)
(***************************************************************************)
EXTENDS Integers, FiniteSets, Sequences, SequencesExt

CONSTANTS Versions,      \* versions of a dataset, a model and a strategy, from 1
          Contents,      \* DatasetVersion: [content, features, splits], no content being 0
          Seeds,
          ParamNames,    \* parameters a strategy may declare
          MaxTransitions, MaxExperiments   \* bounds

ASSUME RegistryBounds == Versions \subseteq Nat \ {0}

VARIABLES datasets,    \* DatasetRegistry::datasets_: content by version
          models,      \* ModelRegistry::models_: status and dataset by version
          champions,   \* ModelRegistry::champions_: versions indexed, at most one
          transitions, \* ModelRegistry::history_
          strategies,  \* StrategyRegistry::descriptors_
          prepared,    \* the experiments ExperimentRunner::prepare returned
          declaredLive,\* history: models registered as champion or archived
          everRetired  \* history: strategy versions ever retired

registryVars == <<datasets, models, champions, transitions, strategies, prepared,
                  declaredLive, everRetired>>
modelVars == <<models, champions, transitions, declaredLive>>
strategyVars == <<strategies, everRetired>>

ModelStatuses == {"training", "trained", "challenger", "champion", "archived", "failed"}
StrategyStates ==
  {"draft", "research", "candidate", "production", "deprecated", "retired"}

\* A table with an entry more.
With(table, v, entry) == [u \in DOMAIN table \cup {v} |-> IF u = v THEN entry ELSE table[u]]

-----------------------------------------------------------------------------
(* Datasets are append-only and their versions advance.                    *)

Advances(v) == \A u \in DOMAIN datasets : u < v

\* DatasetVersion::validate(): walk-forward boundaries strictly ascend.
Describes(content) ==
  /\ content.content # 0 /\ content.features > 0
  /\ \A i \in 2..Len(content.splits) : content.splits[i - 1] < content.splits[i]

RegisterDataset(v, content) ==
  /\ Describes(content) /\ Advances(v)
  /\ datasets' = With(datasets, v, content)
  /\ UNCHANGED <<modelVars, strategyVars, prepared>>

-----------------------------------------------------------------------------
(* Models: registered against a dataset version, then promoted, archived   *)
(* and rolled back to.                                                     *)

RegisterModel(v, status, d) ==
  /\ d \in DOMAIN datasets /\ v \notin DOMAIN models
  /\ models' = With(models, v, [status |-> status, dataset |-> d, trainedOn |-> datasets[d]])
  /\ declaredLive' = IF status \in {"champion", "archived"}
                     THEN declaredLive \cup {v} ELSE declaredLive
  /\ UNCHANGED <<datasets, champions, transitions, strategyVars, prepared>>

Incumbents == {v \in DOMAIN models : models[v].status = "champion"}

\* Mutant of StatusAfter: the incumbent goes back among the challengers.
StatusAfterChallenging(v, u) ==
  IF u = v THEN "champion" ELSE IF u \in Incumbents THEN "challenger" ELSE models[u].status

StatusAfter(v, u) ==
  IF u = v THEN "champion" ELSE IF u \in Incumbents THEN "archived" ELSE models[u].status

\* Promoting the champion succeeds and changes nothing.
PromoteAs(v, rollback) ==
  /\ Len(transitions) < MaxTransitions
  /\ v \in DOMAIN models /\ models[v].status \notin {"champion", "failed"}
  /\ models' = [u \in DOMAIN models |-> [models[u] EXCEPT !.status = StatusAfter(v, u)]]
  /\ champions' = {v}
  /\ transitions' = Append(transitions, [to |-> v, from |-> Incumbents, rollback |-> rollback,
                                        declared |-> v \in declaredLive])
  /\ declaredLive' = {u \in declaredLive : models[u].status = "archived" /\ u # v}
  /\ UNCHANGED <<datasets, strategyVars, prepared>>

Promote(v) == PromoteAs(v, FALSE)

RollBack(v) ==
  /\ v \in DOMAIN models /\ models[v].status = "archived"
  /\ PromoteAs(v, TRUE)

-----------------------------------------------------------------------------
(* Strategies: any move but out of retirement and from draft to production.*)

RegisterStrategy(v, state, declared, required) ==
  /\ v \notin DOMAIN strategies
  /\ required \subseteq declared
  /\ strategies' = With(strategies, v, [state |-> state, declared |-> declared, required |-> required])
  /\ everRetired' = IF state = "retired" THEN everRetired \cup {v} ELSE everRetired
  /\ UNCHANGED <<datasets, modelVars, prepared>>

MayMove(current, target) ==
  /\ current # "retired"
  /\ ~(current = "draft" /\ target = "production")

TransitionStrategy(v, target) ==
  /\ v \in DOMAIN strategies
  /\ strategies[v].state # target /\ MayMove(strategies[v].state, target)
  /\ strategies' = [strategies EXCEPT ![v].state = target]
  /\ everRetired' = IF target = "retired" THEN everRetired \cup {v} ELSE everRetired
  /\ UNCHANGED <<datasets, modelVars, prepared>>

ClearStrategies ==
  /\ strategies' = <<>> /\ everRetired' = {}
  /\ prepared' = {}            \* history only: experiments of the registry's lifetime
  /\ UNCHANGED <<datasets, modelVars>>

-----------------------------------------------------------------------------
(* Experiments.                                                            *)

AcceptsNewExperiments(state) == state \in {"research", "candidate", "production"}

ParametersValid(s, supplied) == supplied \subseteq s.declared /\ s.required \subseteq supplied

\* ExperimentConfig::validate(): a zero seed is a seed nobody set.
PrepareExperiment(v, d, supplied, seed) ==
  /\ Cardinality(prepared) < MaxExperiments
  /\ seed # 0
  /\ v \in DOMAIN strategies /\ AcceptsNewExperiments(strategies[v].state)
  /\ ParametersValid(strategies[v], supplied)
  /\ d \in DOMAIN datasets
  /\ prepared' = prepared \cup
       {[strategy |-> v, dataset |-> d, runsOn |-> datasets[d], supplied |-> supplied, seed |-> seed,
         afterRetirement |-> v \in everRetired]}
  /\ UNCHANGED <<datasets, modelVars, strategyVars>>

-----------------------------------------------------------------------------
RegistriesInit ==
  /\ datasets = <<>> /\ models = <<>> /\ champions = {} /\ transitions = <<>>
  /\ strategies = <<>> /\ prepared = {} /\ declaredLive = {} /\ everRetired = {}

DatasetsNext == \E v \in Versions, content \in Contents : RegisterDataset(v, content)

ModelsNext ==
  \E v \in Versions :
    \/ \E status \in ModelStatuses, d \in Versions : RegisterModel(v, status, d)
    \/ Promote(v)
    \/ RollBack(v)

StrategiesNext ==
  \/ \E v \in Versions :
       \/ \E state \in StrategyStates, declared, required \in SUBSET ParamNames :
            RegisterStrategy(v, state, declared, required)
       \/ \E target \in StrategyStates : TransitionStrategy(v, target)
       \/ \E d \in Versions, supplied \in SUBSET ParamNames, seed \in Seeds :
            PrepareExperiment(v, d, supplied, seed)
  \/ ClearStrategies

RegistriesNext == DatasetsNext \/ ModelsNext \/ StrategiesNext

RegistriesSpec == RegistriesInit /\ [][RegistriesNext]_registryVars

-----------------------------------------------------------------------------
DataUnchanged ==
  /\ \A v \in DOMAIN models : /\ models[v].dataset \in DOMAIN datasets
                              /\ models[v].trainedOn = datasets[models[v].dataset]
  /\ \A e \in prepared : /\ e.dataset \in DOMAIN datasets
                         /\ e.runsOn = datasets[e.dataset]

\* Models registered with a live status never went through promote, which alone
\* keeps the index; they are left out until a promotion touches them.
IndexAgrees ==
  /\ Incumbents \ declaredLive = champions \ declaredLive
  /\ champions = IF transitions = <<>> THEN {} ELSE {Last(transitions).to}

WasChampion(v, i) == \E j \in 1..(i - 1) : transitions[j].to = v \/ v \in transitions[j].from

FormerChampionsKept ==
  \A i \in 1..Len(transitions) :
    /\ models[transitions[i].to].status \in {"champion", "archived"}
    /\ transitions[i].rollback => transitions[i].declared \/ WasChampion(transitions[i].to, i)

\* What the registries are for.  The data a model was trained on, and an
\* experiment is to run on, is still registered as it was; whatever promotions
\* and rollbacks happened, the indexed champion is the only one, the last one
\* promoted, every former champion is still there to roll back to, and what was
\* rolled back to had been champion; and no experiment was prepared on a strategy version once retired.
ResearchReproducible ==
  /\ DataUnchanged
  /\ IndexAgrees
  /\ FormerChampionsKept
  /\ \A e \in prepared : ~e.afterRetirement

-----------------------------------------------------------------------------
(* StrategyRegistry::resolve_dependencies: the order in which a strategy   *)
(* and what it depends on are to be built, by an iterative depth-first     *)
(* walk with an explicit stack.  The walk starts at the version asked for, *)
(* and visits every other strategy at its latest.                          *)

CONSTANTS Strategies,  \* ids that may be registered or depended on
          Root         \* the id that is resolved

ASSUME RootIsAStrategy == Root \in Strategies /\ IsFiniteSet(Strategies)

VARIABLES dependsOn,   \* depends_on of the registered descriptors, by id
          stack,       \* the frames: strategy and dependencies still to visit
          mark,        \* mark: "unseen", "visiting" or "done"
          ordered,     \* the result
          verdict      \* "walking", "ordered", "cycle" or "unresolved"

dependencyVars == <<dependsOn, stack, mark, ordered, verdict>>

Registered == DOMAIN dependsOn

Frame(id) == [id |-> id, rest |-> SetToSeq(dependsOn[id])]

\* A descriptor that depends on itself is refused at registration.
DependencyInit ==
  /\ \E ids \in SUBSET Strategies :
       /\ Root \in ids
       /\ dependsOn \in [ids -> SUBSET Strategies]
       /\ \A id \in ids : id \notin dependsOn[id]
  /\ stack = <<Frame(Root)>>
  /\ mark = [id \in Strategies |-> IF id = Root THEN "visiting" ELSE "unseen"]
  /\ ordered = <<>> /\ verdict = "walking"

Top == Last(stack)
Advanced == [stack EXCEPT ![Len(stack)].rest = Tail(@)]

\* Mutant of Enters: a strategy already ordered is visited again.
EntersAgain(id) == mark[id] # "visiting" /\ id \in Registered

Enters(id) == mark[id] = "unseen" /\ id \in Registered

VisitDependency ==
  /\ verdict = "walking" /\ stack # <<>> /\ Top.rest # <<>>
  /\ LET id == Head(Top.rest)
     IN  /\ verdict' = IF mark[id] = "visiting" THEN "cycle"
                       ELSE IF mark[id] = "unseen" /\ id \notin Registered THEN "unresolved"
                       ELSE verdict
         /\ stack' = IF Enters(id) THEN Append(Advanced, Frame(id)) ELSE Advanced
         /\ mark' = IF Enters(id) THEN [mark EXCEPT ![id] = "visiting"] ELSE mark
  /\ UNCHANGED <<dependsOn, ordered>>

FinishStrategy ==
  /\ verdict = "walking" /\ stack # <<>> /\ Top.rest = <<>>
  /\ mark' = [mark EXCEPT ![Top.id] = "done"]
  /\ ordered' = Append(ordered, Top.id)
  /\ stack' = Front(stack)
  /\ verdict' = IF Len(stack) = 1 THEN "ordered" ELSE verdict
  /\ UNCHANGED dependsOn

DependencyNext == VisitDependency \/ FinishStrategy

DependencySpec == DependencyInit /\ [][DependencyNext]_dependencyVars

-----------------------------------------------------------------------------
(* What the walk is to find, defined without a walk.                       *)

DependsOn(id) == IF id \in Registered THEN dependsOn[id] ELSE {}

\* The least set that holds what is needed and is closed under dependency.
Needed(from) ==
  LET closed == {s \in SUBSET Strategies :
                   /\ DependsOn(from) \subseteq s
                   /\ \A id \in s : DependsOn(id) \subseteq s}
  IN  CHOOSE s \in closed : \A other \in closed : s \subseteq other

\* The walk ends in an order exactly when everything needed is registered and
\* nothing needed needs itself; the order then lists everything needed once,
\* each strategy after all it depends on, with the root last.  Otherwise the
\* verdict names a fault that is there.
ResolvedInOrder ==
  LET all == Needed(Root) \cup {Root}
      cyclic == \E id \in all : id \in Needed(id)
      missing == ~(all \subseteq Registered)
  IN  /\ verdict = "ordered" =>
           /\ ~cyclic /\ ~missing
           /\ Range(ordered) = all /\ Len(ordered) = Cardinality(all)
           /\ Last(ordered) = Root
           /\ \A i, j \in 1..Len(ordered) : ordered[i] \in DependsOn(ordered[j]) => i < j
      /\ verdict = "cycle" => cyclic
      /\ verdict = "unresolved" => missing
      /\ verdict = "walking" => stack # <<>>

\* A strategy is enabled with all it depends on, in order, and what research was
\* done on is still there.
RegistriesKeepOrder == ResolvedInOrder /\ ResearchReproducible
=============================================================================
