--------------------------- MODULE ModelPipeline ---------------------------
(***************************************************************************)
(* Models with their scaler, and the walk-forward runner                   *)
(* (src/src/models/pipeline.cpp, scaler.cpp, linear.cpp, logistic.cpp,     *)
(* matrix.cpp).                                                            *)
(*                                                                         *)
(* A Pipeline owns one scaler and one model.  Fitted numbers are           *)
(* represented by what they were computed from: a scaler by the rows whose *)
(* means and deviations it holds, a model by its rows and by the scaling   *)
(* these rows had been given.  What the module keeps is when each of them  *)
(* is replaced, which failures come before and which after a replacement,  *)
(* and what the stored form lets a reader notice.                          *)
(***************************************************************************)
EXTENDS Integers, FiniteSets, Sequences, SequencesExt

CONSTANTS
    Rows,          \* the rows of the feature matrix
    BadRows,       \* rows with a value, a target or a weight the validation refuses
    Columns,       \* the number of features
    TrainSets,     \* the row selections callers fit on
    Pipelines,     \* the pipelines that exist side by side
    FoldPlans,     \* the fold sequences given to the walk-forward runner
    DamagedBlocks  \* the blocks of a stored pipeline a disk fault may change

ASSUME ModelDataAssumption ==
    /\ Rows \subseteq Nat /\ BadRows \subseteq Rows /\ Columns \in Nat \ {0}
    /\ \A fs \in FoldPlans :
         /\ fs \in Seq([train : SUBSET Nat, test : SUBSET Nat])
         /\ \A i \in DOMAIN fs : fs[i].train \cap fs[i].test = {}

VARIABLES
    ups,        \* the rows whose target is one, the others have zero
    pipelines,  \* Pipeline
    stored,     \* the stream a pipeline was last saved to, block by block
    answer,     \* the last answer of predict
    standing,   \* history: "never" fitted, "sound", or "disturbed" by a refused load
    walk        \* WalkForwardRunner::run
modelVars == <<ups, pipelines, stored, answer, standing, walk>>

Kinds == {"linear", "logistic", "baseline"}
Unscaled == {}                    \* no scaling: the model saw the features as they are
NoScaler == {}               \* StandardScaler::fitted_ is false
Garbage == {-1}              \* numbers that were never computed from rows
NoParameters == [rows |-> {}, scaled |-> Unscaled]
OnDisk == "stored"           \* the stream's entry in the history
GarbledParameters == [rows |-> Garbage, scaled |-> Garbage]

ASSUME StreamAssumption == OnDisk \notin Pipelines

NotServed == [given |-> FALSE]

Unfitted(kind, standardize) ==
    [kind |-> kind, standardize |-> standardize, fitted |-> FALSE,
     scaler |-> NoScaler, modelFitted |-> FALSE, params |-> NoParameters]
-----------------------------------------------------------------------------
(* Fitting *)

\* make_training_data: rows in range, finite values, and more observations
\* than parameters.
Trainable(rows) ==
    /\ rows # {} /\ rows \subseteq Rows /\ rows \cap BadRows = {}
    /\ Cardinality(rows) > Columns

\* What the models themselves may refuse, after the scaler has been replaced:
\* any solver may find its equations singular, a logistic model needs both
\* classes, the baseline only measures the dispersion of its column.
LinearFits(rows) == BOOLEAN
OneClass(rows) == rows \subseteq ups \/ rows \cap ups = {}
LogisticFits(rows) == IF OneClass(rows) THEN {FALSE} ELSE BOOLEAN
BaselineFits(rows) == {TRUE}
ModelFits(kind, rows) ==
    CASE kind = "linear" -> LinearFits(rows)
      [] kind = "logistic" -> LogisticFits(rows)
      [] kind = "baseline" -> BaselineFits(rows)

ScalerAfterFit(pl, rows) == IF pl.standardize THEN rows ELSE pl.scaler

\* model_->reset(), which every fit goes through before the model's own fit.
KeepModel(pl) == pl
ResetModel(pl) == [pl EXCEPT !.modelFitted = FALSE, !.params = NoParameters]

ScaleUsed(pl) == IF pl.standardize THEN pl.scaler ELSE Unscaled

Fitted(pl, rows, fits) ==
    LET blank == ResetModel([pl EXCEPT !.scaler = ScalerAfterFit(pl, rows)])
    IN  IF fits
        THEN [blank EXCEPT !.fitted = TRUE, !.modelFitted = TRUE,
                           !.params = [rows |-> rows, scaled |-> ScaleUsed(blank)]]
        ELSE blank

\* The scaler wants two observations even where the model would take one.
Scalable(pl, rows) == pl.standardize => Cardinality(rows) >= 2

Fit(p, rows) ==
    LET pl == pipelines[p]
    IN  \E fits \in ModelFits(pl.kind, rows) :
          /\ pipelines' = IF Trainable(rows) /\ Scalable(pl, rows)
                          THEN [pipelines EXCEPT ![p] = Fitted(pl, rows, fits)]
                          ELSE pipelines
          /\ standing' = IF Trainable(rows) /\ Scalable(pl, rows) /\ fits
                         THEN [standing EXCEPT ![p] = "sound"] ELSE standing
          /\ answer' = NotServed
          /\ UNCHANGED <<ups, stored, walk>>
-----------------------------------------------------------------------------
(* Predicting *)

CanPredict(pl, rows) ==
    /\ pl.fitted /\ pl.modelFitted /\ rows \cap BadRows = {}
    /\ pl.standardize => pl.scaler # NoScaler

Predict(p, rows) ==
    LET pl == pipelines[p]
    IN  /\ answer' = IF CanPredict(pl, rows)
                     THEN [given |-> TRUE, by |-> p, scale |-> ScaleUsed(pl), params |-> pl.params]
                     ELSE NotServed
        /\ UNCHANGED <<ups, pipelines, stored, standing, walk>>
-----------------------------------------------------------------------------
(* Storing and reading back *)

\* linear and baseline files begin with the same magic number.
Magic(kind) == IF kind = "logistic" THEN "logistic" ELSE "linear"

Block(what, val) == [what |-> what, val |-> val]

StoredForm(pl) ==
    <<Block("flag", pl.standardize)>>
    \o (IF pl.standardize THEN <<Block("scaler", pl.scaler)>> ELSE <<>>)
    \o <<Block("magic", pl.kind), Block("parameters", pl.params), Block("hash", pl.params)>>

Save(p) ==
    LET pl == pipelines[p]
    IN  /\ stored' = IF ~pl.fitted THEN stored
                     ELSE IF pl.modelFitted THEN StoredForm(pl)
                     ELSE SubSeq(StoredForm(pl), 1, IF pl.standardize THEN 2 ELSE 1)
        /\ standing' = [standing EXCEPT ![OnDisk] = IF pl.fitted THEN standing[p] ELSE @]
        /\ answer' = NotServed
        /\ UNCHANGED <<ups, pipelines, walk>>

At(i, what) == i \in DOMAIN stored /\ stored[i].what = what

OwnMagicAt(pl, i) ==
    At(i, "magic") /\ stored[i].val \in Kinds /\ Magic(stored[i].val) = Magic(pl.kind)

Garbled(pl) == [pl EXCEPT !.params = GarbledParameters]

\* The numbers of another kind with the same magic number: reading them ends
\* in a refused hash or, before the model calls itself fitted, in an
\* impossible allocation.
AfterForeignLoad(pl) ==
    {[ok |-> FALSE, pl |-> [Garbled(pl) EXCEPT !.modelFitted = f]] : f \in {pl.modelFitted, TRUE}}

\* Everything is read into the model itself: the parameters are replaced, and
\* the model calls itself fitted, before the hash is compared.  (The hash is of the
\* fitted numbers; the settings stored with them, which it leaves out, are not
\* among the blocks.)
AfterOwnLoad(pl, i) ==
    IF ~At(i, "parameters") THEN [ok |-> FALSE, pl |-> Garbled(pl)]
    ELSE [ok |-> At(i + 1, "hash") /\ stored[i + 1].val = stored[i].val,
          pl |-> [pl EXCEPT !.modelFitted = TRUE, !.params = stored[i].val]]

\* IModel::load of the model whose blocks begin at i.
AfterModelLoad(pl, i) ==
    IF ~OwnMagicAt(pl, i) THEN {[ok |-> FALSE, pl |-> pl]}
    ELSE IF stored[i].val # pl.kind THEN AfterForeignLoad(pl)
    ELSE {AfterOwnLoad(pl, i + 1)}

\* Pipeline::load: the flag, then the scaler, then the model, each put in
\* place as it is read; only the pipeline's own mark waits for the end.
MarkFirst(r) == [r.pl EXCEPT !.fitted = TRUE]
MarkLoaded(r) == IF r.ok THEN [r.pl EXCEPT !.fitted = TRUE] ELSE r.pl

AfterLoad(pl) ==
    LET flagged == [pl EXCEPT !.standardize = stored[1].val]
        scaled  == IF stored[1].val THEN [flagged EXCEPT !.scaler = stored[2].val] ELSE flagged
    IN  CASE stored = <<>> -> {[ok |-> FALSE, pl |-> pl]}
          [] stored # <<>> /\ stored[1].val /\ ~At(2, "scaler") -> {[ok |-> FALSE, pl |-> flagged]}
          [] OTHER -> AfterModelLoad(scaled, IF stored[1].val THEN 3 ELSE 2)

LoadInto(p) ==
    \E r \in AfterLoad(pipelines[p]) :
       /\ pipelines' = [pipelines EXCEPT ![p] = MarkLoaded(r)]
       /\ standing' = [standing EXCEPT ![p] = IF r.ok THEN standing[OnDisk]
                                              ELSE IF @ = "never" THEN @ ELSE "disturbed"]
       /\ answer' = NotServed
       /\ UNCHANGED <<ups, stored, walk>>

DamagedValue(what) ==
    CASE what = "flag" -> FALSE
      [] what = "scaler" -> Garbage
      [] what = "magic" -> "damaged"
      [] what = "parameters" -> GarbledParameters
      [] what = "hash" -> [GarbledParameters EXCEPT !.scaled = {-2}]

\* The stream on disk loses its end, or the bits of one of its blocks.
StreamDamaged ==
    /\ \/ \E n \in 0..(Len(stored) - 1) : stored' = SubSeq(stored, 1, n)
       \/ \E i \in DOMAIN stored :
            /\ stored[i].what \in DamagedBlocks
            /\ stored' = [stored EXCEPT ![i].val = DamagedValue(stored[i].what)]
    /\ answer' = NotServed
    /\ UNCHANGED <<ups, pipelines, standing, walk>>
-----------------------------------------------------------------------------
(* The walk-forward runner: one fresh pipeline a fold.  It shares nothing  *)
(* with the pipelines of other callers, so the two are not interleaved.    *)

NoWalk == [folds |-> <<>>, next |-> 1, pipe |-> Unfitted("linear", TRUE),
           results |-> <<>>, fitted |-> 0, skipped |-> 0, status |-> "idle"]

RunBegins(folds, kind, standardize) ==
    /\ walk.status # "running" /\ \A p \in Pipelines : standing[p] = "never"
    /\ walk' = [NoWalk EXCEPT !.folds = folds, !.pipe = Unfitted(kind, standardize), !.status = "running"]
    /\ answer' = NotServed
    /\ UNCHANGED <<ups, pipelines, stored, standing>>

Skip(w) == [w EXCEPT !.skipped = @ + 1, !.next = @ + 1]

\* A pipeline cloned unfitted, fitted on the training rows of the fold and
\* asked for its test rows: a fold that cannot be fitted is counted, a fold
\* that cannot be predicted ends the run.
FoldResult(fold, pl) ==
    [test |-> fold.test, scale |-> ScaleUsed(pl), params |-> pl.params,
     actuals |-> fold.test \cap ups]

RunFold ==
    LET fold  == walk.folds[walk.next]
        fresh == walk.pipe
    IN  /\ walk.status = "running" /\ walk.next <= Len(walk.folds)
        /\ \E fits \in ModelFits(fresh.kind, fold.train) :
             LET pl == Fitted(fresh, fold.train, fits)
             IN  walk' = IF fold.train = {} \/ fold.test = {} \/ ~Trainable(fold.train)
                            \/ ~Scalable(fresh, fold.train) \/ ~fits
                         THEN Skip(walk)
                         ELSE IF ~CanPredict(pl, fold.test) THEN [walk EXCEPT !.status = "failed"]
                         ELSE [walk EXCEPT !.results = Append(@, FoldResult(fold, pl)),
                                           !.fitted = @ + 1, !.next = @ + 1]
        /\ answer' = NotServed
        /\ UNCHANGED <<ups, pipelines, stored, standing>>

RunEnds ==
    /\ walk.status = "running" /\ walk.next > Len(walk.folds)
    /\ walk' = [walk EXCEPT !.status = IF walk.fitted = 0 THEN "failed" ELSE "done"]
    /\ answer' = NotServed
    /\ UNCHANGED <<ups, pipelines, stored, standing>>
-----------------------------------------------------------------------------
ModelInit ==
    /\ ups \in {{}, {r \in Rows : r % 2 = 1}}
    /\ pipelines \in [Pipelines -> {Unfitted(k, s) : k \in Kinds, s \in BOOLEAN}]
    /\ stored = <<>> /\ answer = NotServed /\ walk = NoWalk
    /\ standing = [p \in Pipelines \cup {OnDisk} |-> "never"]

ModelNext ==
    \/ /\ walk.status = "idle"
       /\ \/ \E p \in Pipelines : \E rows \in TrainSets : Fit(p, rows) \/ Predict(p, rows)
          \/ \E p \in Pipelines : Save(p) \/ LoadInto(p)
          \/ StreamDamaged
    \/ \E fs \in FoldPlans : \E k \in Kinds : \E s \in BOOLEAN : RunBegins(fs, k, s)
    \/ RunFold \/ RunEnds

ModelSpec == ModelInit /\ [][ModelNext]_modelVars
-----------------------------------------------------------------------------
(* Properties *)

OfOneFit ==
    /\ answer.params.scaled = answer.scale /\ answer.params.rows # Garbage
    /\ answer.scale = Unscaled \/ answer.scale = answer.params.rows

\* What the header of Pipeline promises: scaler and model "cannot disagree
\* about what training meant".  Every answer would come from one fit.
AnswersComeFromOneFit == answer.given => OfOneFit

\* As far as the code keeps it: a pipeline that was never fitted serves
\* nothing, whatever loads were refused, and a fitted one serves the scaler
\* and the parameters of one fit, over failed fits, saves, damaged streams and
\* loads into pipelines of another kind, until a load into it is refused.  The
\* runner predicts each fold from a fit on that fold's training rows alone,
\* none of which it is asked about, and accounts for every fold.
PredictionsAreOutOfSample ==
    /\ answer.given => /\ standing[answer.by] # "never"
                       /\ (standing[answer.by] = "sound" => OfOneFit)
    /\ \A i \in DOMAIN walk.results :
         LET r == walk.results[i]
         IN  /\ \E f \in Range(walk.folds) : f.test = r.test /\ f.train = r.params.rows
             /\ r.params.rows \cap r.test = {}
             /\ r.params.scaled = r.scale /\ (r.scale = Unscaled \/ r.scale = r.params.rows)
    /\ walk.status = "done" => walk.fitted + walk.skipped = Len(walk.folds)
=============================================================================
