---------------------------- MODULE ConfigLayers ----------------------------
(***************************************************************************)
(* How a configuration comes to be (src/config/config.cpp): a file, the    *)
(* overrides of the command line on top of it, the strict schema, readers  *)
(* that fall back to a default, the semantic checks, and the canonical     *)
(* form that is hashed; then the validator of src/ops/diagnostics.cpp.  A  *)
(* value is a kind and a text; a key of the model is a key of the schema.  *)
(***************************************************************************)
EXTENDS Integers, Sequences, SequencesExt, FiniteSets

CONSTANTS Files,         \* documents: functions from keys to values
          Settings,      \* overrides: [key, text]
          MaxSettings, MaxLoads   \* bounds

VARIABLES file, overrides,  \* the arguments of load()
          loaded            \* the configurations loaded so far

configVars == <<file, overrides, loaded>>

\* The type a key is read as.
KindOfKey ==
  [seed |-> "integer", tag |-> "string", boundary |-> "string", months |-> "integer",
   unlocked |-> "boolean", justification |-> "string", spend |-> "real",
   regular_open |-> "string", regular_close |-> "string", level |-> "string"]

\* known_keys()
KnownKeys == DOMAIN KindOfKey

\* What numerals, dates and times stand for; hours are enough for the session.
NumberOf == [t \in {"0", "4", "6", "7", "25", "-1"} |->
               CASE t = "0" -> 0 [] t = "4" -> 4 [] t = "6" -> 6
                 [] t = "7" -> 7 [] t = "25" -> 25 [] t = "-1" -> -1]
DayOf == [t \in {"2024-09-01", "2024-12-01"} |-> IF t = "2024-09-01" THEN 1 ELSE 2]
HourOf == [t \in {"09:30:00", "13:00:00", "16:00:00"} |->
             CASE t = "09:30:00" -> 9 [] t = "13:00:00" -> 13 [] t = "16:00:00" -> 16]
NoDay == 0

\* The parser makes a number of a numeral only.
ASSUME FilesAssumption ==
  \A document \in Files : \A key \in DOMAIN document :
    document[key].kind \in {"integer", "real"} => document[key].text \in DOMAIN NumberOf

Value(kind, text) == [kind |-> kind, text |-> text]

-----------------------------------------------------------------------------
(* Layers.                                                                 *)

\* The leaf of set_dotted(): an override has no type of its own.
KindByInspection(text) ==
  IF text \in {"true", "false"} THEN "boolean"
  ELSE IF text \in DOMAIN NumberOf THEN "integer" ELSE "string"

\* Slip: the file's value stays.
KeepExisting(document, setting) ==
  [key \in DOMAIN document \cup {setting.key} |->
     IF key \in DOMAIN document THEN document[key]
     ELSE Value(KindByInspection(setting.text), setting.text)]

\* set_dotted()
Override(document, setting) ==
  [key \in DOMAIN document \cup {setting.key} |->
     IF key = setting.key THEN Value(KindByInspection(setting.text), setting.text)
     ELSE document[key]]

Layered(document, settings) == FoldLeft(Override, document, settings)

\* Slip: what the secret holdout is stays out of the hash.
CanonicalWithoutBoundary(document) ==
  {<<key, document[key].text>> : key \in DOMAIN document \ {"boundary"}}

\* collect_keys(), canonical_scalar() and the sorted lines: kinds are not told.
Canonical(document) == {<<key, document[key].text>> : key \in DOMAIN document}

\* Reader: a value of another type counts as absent.  An integer will do for a real.
Readable(document, key) ==
  /\ key \in DOMAIN document
  /\ \/ document[key].kind = KindOfKey[key]
     \/ KindOfKey[key] = "real" /\ document[key].kind = "integer"

Text(document, key, fallback) == IF Readable(document, key) THEN document[key].text ELSE fallback
Number(document, key, fallback) ==
  IF Readable(document, key) THEN NumberOf[document[key].text] ELSE fallback
Flag(document, key) == Readable(document, key) /\ document[key].text = "true"

\* The reads of finish(), dates and times still as texts.
Read(document) ==
  [seed |-> Number(document, "seed", 20240101), tag |-> Text(document, "tag", ""),
   boundary |-> Text(document, "boundary", ""), months |-> Number(document, "months", 4),
   unlocked |-> Flag(document, "unlocked"), justification |-> Text(document, "justification", ""),
   spend |-> Number(document, "spend", 25),
   regular_open |-> Text(document, "regular_open", "09:30:00"),
   regular_close |-> Text(document, "regular_close", "16:00:00"),
   level |-> Text(document, "level", "info")]

\* Empty opening and closing times leave midnight.
Offset(text) == IF text = "" THEN 0 ELSE HourOf[text]

\* The semantic validation of finish().
Sound(config) ==
  /\ config.level \in {"info", "debug"}
  /\ config.regular_open \in DOMAIN HourOf \cup {""} /\ config.regular_close \in DOMAIN HourOf \cup {""}
  /\ Offset(config.regular_close) > Offset(config.regular_open)
  /\ config.boundary \in DOMAIN DayOf \cup {""} /\ config.months >= 1 /\ config.spend >= 0
  /\ config.unlocked => config.justification # ""

\* finish()
Accepted(document) == DOMAIN document \subseteq KnownKeys /\ Sound(Read(document))

\* Config::holdout.boundary
HoldoutBoundary(config) == IF config.boundary = "" THEN NoDay ELSE DayOf[config.boundary]

\* ConfigValidator::validate(): every problem, not the first.
Issues(config, credentialsRequired) ==
  {issue \in {[field |-> "seed", severity |-> "fatal"], [field |-> "spend", severity |-> "warning"],
              [field |-> "spend", severity |-> "fatal"]} :
     CASE issue.field = "seed" -> config.seed = 0
       [] issue.severity = "warning" -> config.spend <= 0
       [] OTHER -> config.spend <= 0 /\ credentialsRequired}

\* ValidationReport::ok()
FitToStart(config, credentialsRequired) ==
  \A issue \in Issues(config, credentialsRequired) : issue.severity # "fatal"

-----------------------------------------------------------------------------
ConfigInit == file \in Files /\ overrides = <<>> /\ loaded = {}

AddSetting(setting) ==
  /\ Len(overrides) < MaxSettings /\ Cardinality(loaded) < MaxLoads
  /\ overrides' = Append(overrides, setting)
  /\ UNCHANGED <<file, loaded>>

\* load(): what is accepted is kept, with where it came from; then another run.
Load(nextFile) ==
  LET document == Layered(file, overrides)
  IN  /\ Cardinality(loaded) < MaxLoads
      /\ loaded' = IF Accepted(document)
                   THEN loaded \cup
                     {[file |-> file, overrides |-> overrides, config |-> Read(document),
                       boundary |-> HoldoutBoundary(Read(document)), canonical |-> Canonical(document),
                       faithful |-> \A key \in DOMAIN document : Readable(document, key),
                       starts |-> {live \in BOOLEAN : FitToStart(Read(document), live)}]}
                   ELSE loaded
      /\ file' = nextFile /\ overrides' = <<>>

ConfigNext ==
  \/ \E setting \in Settings : AddSetting(setting)
  \/ \E nextFile \in Files : Load(nextFile)

ConfigSpec == ConfigInit /\ [][ConfigNext]_configVars

-----------------------------------------------------------------------------
\* "Overrides exist so a parameter sweep drives one config file": the last override of
\* a key decides, over the file and over earlier ones, in what is read and in what is
\* hashed; a key nobody overrode is the file's; nothing unknown is accepted; and what
\* is accepted holds out data that can be held out, never unlocked without a reason,
\* never a live start that could fetch nothing.
LayersDecide ==
  \A run \in loaded :
    LET Overriding(key) == {i \in DOMAIN run.overrides : run.overrides[i].key = key}
        LastOf(key) == run.overrides[CHOOSE i \in Overriding(key) : \A j \in Overriding(key) : j <= i]
        Given == DOMAIN run.file \cup {run.overrides[i].key : i \in DOMAIN run.overrides}
        Decisive(key) == IF Overriding(key) # {} THEN LastOf(key).text ELSE run.file[key].text
    IN  /\ run.canonical = {<<key, Decisive(key)>> : key \in Given}
        /\ Given \subseteq KnownKeys
        /\ run.faithful /\ "boundary" \in Given => run.config.boundary = Decisive("boundary")
        /\ run.faithful /\ "tag" \in Given => run.config.tag = Decisive("tag")
        /\ run.config.boundary # "" => run.boundary # NoDay
        /\ run.config.unlocked => run.config.justification # ""
        /\ run.starts # {} => run.config.seed # 0
        /\ TRUE \in run.starts => run.config.spend > 0

\* "two configs that mean the same thing hash the same", and those that hash the same
\* mean the same, as far as every value has the type its key is read as.
HashTellsRunsApart ==
  \A run, other \in loaded :
    run.canonical = other.canonical /\ run.faithful /\ other.faithful
      => run.config = other.config /\ run.boundary = other.boundary
=============================================================================
