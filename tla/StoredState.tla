---------------------------- MODULE StoredState -----------------------------
(***************************************************************************)
(* What sessions and experiments leave on disk and read back: the file of  *)
(* a paper session, field by field, and the snapshots of an experiment     *)
(* over crashes of the process that writes them.                           *)
(***************************************************************************)
EXTENDS Integers, FiniteSets, TLC

(***************************************************************************)
(* The file a paper session is saved in: SessionState::to_json, from_json  *)
(* and checksum (src/paper/session.cpp).  A field of the file is the value *)
(* that was written, or what damage made of it.  What a value is does not  *)
(* matter, only whether it can be written and read: a name with a quote is *)
(* escaped and read up to the escaped quote, a number that is not finite   *)
(* is written as null.                                                     *)
(***************************************************************************)

CONSTANTS SavedStates,   \* states a session saves: values by field
          MaxDamage      \* bound on the fields damaged after a save

\* Fields without which a file is refused, counters that become zero when they
\* cannot be read, times that become unset, amounts that become zero, and the
\* entries of the two arrays, which are left out.
Required == {"session_id", "sequence", "config_fingerprint", "events_processed"}
Counts == {"fills_received", "orders_submitted"}
Times == {"saved_at", "last_event_time"}
Amounts == {"cash", "equity"}
PositionFields == {"instrument", "quantity", "average_cost", "realized_pnl"}
OrderFields == {"order_id", "order_instrument", "side", "order_quantity", "filled"}

Fields == Required \cup Counts \cup Times \cup Amounts \cup PositionFields \cup OrderFields

\* Slip: the book is not part of the checksum.
ChecksumFieldsWithoutBook == Required \cup Amounts

\* What checksum() runs over: not the counters, the times, a position's realised
\* profit, or the instrument and side of a working order.
ChecksumFields ==
  Required \cup Amounts \cup (PositionFields \ {"realized_pnl"})
  \cup (OrderFields \ {"order_instrument", "side"})

\* A value is a number; these are what it is not.
Quoted == -1       \* a text with a quote in it
NotFinite == -2
Garbled == -3      \* not a value of the field's type
Gone == -4         \* cut off
AsZero == 0        \* zero, or a time that is unset

\* Counters and times are integers of the program, which can always be written.
ASSUME StatesHaveFields ==
  \A state \in SavedStates :
    /\ state \in [Fields -> Nat \cup {Quoted, NotFinite}]
    /\ \A f \in Counts \cup Times : state[f] \in Nat

VARIABLES saved,    \* the state that was saved
          stateFile,\* the fields of the file, and of which of them its checksum is
          loaded,   \* what from_json made of it: the fields, or Refused
          damaged   \* history: the fields damaged since the save

stateVars == <<saved, stateFile, loaded, damaged>>

Refused == [refused |-> TRUE]
NothingRead == [refused |-> FALSE]

ChecksumOf(fields) == [f \in ChecksumFields |-> fields[f]]

\* to_json(): what can be read back as it was, as something else, or not at all.
Written(value) ==
  CASE value = Quoted -> Quoted [] value = NotFinite -> Garbled [] OTHER -> value

Save(state) ==
  /\ stateFile' = [fields |-> [f \in Fields |-> Written(state[f])], sum |-> {ChecksumOf(state)}]
  /\ saved' = state /\ loaded' = NothingRead /\ damaged' = {}

Readable(value) == value >= 0

\* The part of a name before its escaped quote is a name, another one.
ReadName(value) == IF value = Quoted THEN 0 ELSE value

\* An array entry with a field that cannot be read is left out as a whole.
ReadEntry(fields, entry, f) ==
  IF \A g \in entry : Readable(fields[g]) THEN fields[f] ELSE Gone

ReadField(fields, f) ==
  CASE f = "session_id"        -> ReadName(fields[f])
    [] f \in PositionFields    -> ReadEntry(fields, PositionFields, f)
    [] f \in OrderFields       -> ReadEntry(fields, OrderFields, f)
    [] f \in Required \ {"session_id"} -> fields[f]
    [] OTHER                   -> IF Readable(fields[f]) THEN fields[f] ELSE AsZero

\* from_json(): the fields first, each in its way, then the checksum over them.
Load ==
  /\ saved # NothingRead /\ loaded = NothingRead
  /\ LET fields == [f \in Fields |-> ReadField(stateFile.fields, f)]
         unreadable == \/ stateFile.fields["session_id"] = Gone
                       \/ \E f \in Required \ {"session_id"} : ~Readable(fields[f])
     IN  loaded' = IF unreadable \/ ChecksumOf(fields) \notin stateFile.sum
                   THEN Refused ELSE [refused |-> FALSE, fields |-> fields]
  /\ UNCHANGED <<saved, stateFile, damaged>>

-----------------------------------------------------------------------------
(* What happens to a file on a disk.                                       *)

\* A field changes into another value of its type, or into nothing readable.
DamageField(f) ==
  /\ saved # NothingRead /\ loaded = NothingRead /\ Cardinality(damaged) < MaxDamage
  /\ \E value \in {7, Garbled} : stateFile' = [stateFile EXCEPT !.fields[f] = value]
  /\ damaged' = damaged \cup {f}
  /\ UNCHANGED <<saved, loaded>>

\* The checksum is the last field: a cut anywhere loses it.
Truncate ==
  /\ saved # NothingRead /\ loaded = NothingRead /\ stateFile.sum # {}
  /\ stateFile' = [stateFile EXCEPT !.sum = {}]
  /\ UNCHANGED <<saved, loaded, damaged>>

StateFileInit ==
  /\ saved = NothingRead /\ loaded = NothingRead /\ damaged = {}
  /\ stateFile = [fields |-> [f \in Fields |-> Gone], sum |-> {}]

StateFileNext ==
  \/ \E state \in SavedStates : Save(state)
  \/ Load
  \/ \E f \in Fields : DamageField(f)
  \/ Truncate

StateFileSpec == StateFileInit /\ [][StateFileNext]_stateVars

-----------------------------------------------------------------------------
\* Persistence "must restore the same bits it saved": a state whose name has no
\* quote and whose numbers are finite comes back whole from an undamaged file, and
\* from a damaged one nothing ever comes back with another name, sequence,
\* configuration, cash, equity, holding or remaining quantity.  (The other fields
\* may come back changed, and a name with a quote never comes back.)
StateReadsBack ==
  LET whole == damaged = {} /\ stateFile.sum # {}
      odd == \E f \in Fields : saved[f] \in {Quoted, NotFinite}
  IN  /\ loaded = Refused /\ whole => odd
      /\ "fields" \in DOMAIN loaded =>
           /\ whole => loaded.fields = saved
           /\ \A f \in {"session_id", "sequence", "config_fingerprint", "events_processed",
                        "cash", "equity", "instrument", "quantity", "average_cost",
                        "order_id", "order_quantity", "filled"} : loaded.fields[f] = saved[f]

-----------------------------------------------------------------------------
(***************************************************************************)
(* Interrupting an experiment and resuming it.  Snapshots are saved        *)
(* through ExperimentStore (src/experiment/experiment.cpp) into the        *)
(* ArtifactStore (src/storage/registry.cpp), which writes a temporary file *)
(* and renames it into place; a later process loads the snapshot, verifies *)
(* its checksum and asks can_resume.  The process may crash between any    *)
(* two steps, and the disk may refuse a write, also when the stream is     *)
(* closed, which the code does not look at.                                *)
(***************************************************************************)

CONSTANTS ExperimentIds, Fingerprints,   \* fingerprints of configurations
          MaxRunEvents, MaxRuns          \* bounds

VARIABLES files,    \* the artifact directory: content by path
          process,  \* the run in progress of each experiment, or NoProcess
          saving,   \* the stage of put: "idle", "open", "closed"
          runs,     \* history: processes started
          renamed,  \* history: the last snapshot moved into place
          lostFlush \* history: a write was lost when the stream was closed

resumeVars == <<files, process, saving, runs, renamed, lostFlush>>

NoProcess == [on |-> FALSE]
Absent == [kind |-> "absent"]
Torn == [kind |-> "torn"]     \* any proper prefix: its checksum field is missing

SnapshotOf(id) ==
  [kind |-> "snapshot", id |-> id, fingerprint |-> process[id].fingerprint,
   events |-> process[id].events]

Final(id) == <<id, "snapshot.json">>

\* Mutant of Temp: the artifact is written in place.
InPlace(id) == Final(id)

Temp(id) == <<id, "snapshot.json.tmp">>

Running(id) == process[id].on

-----------------------------------------------------------------------------
(* ExperimentSnapshot::from_json and ExperimentRunner::can_resume.         *)

Intact(file) == file.kind = "snapshot"

CanResume(id, fingerprint, snapshot) ==
  snapshot.id = id /\ snapshot.fingerprint = fingerprint

-----------------------------------------------------------------------------
Started(id, fingerprint, events, from) ==
  /\ process' = [process EXCEPT ![id] =
       [on |-> TRUE, fingerprint |-> fingerprint, events |-> events, from |-> from]]
  /\ runs' = runs + 1
  /\ UNCHANGED <<files, saving, renamed, lostFlush>>

\* load_snapshot: without a file the run starts afresh; a damaged or foreign
\* snapshot refuses the run, and nothing is started.
StartRun(id, fingerprint) ==
  /\ ~Running(id) /\ runs < MaxRuns
  /\ LET file == files[Final(id)]
     IN  \/ file = Absent /\ Started(id, fingerprint, 0, Absent)
         \/ /\ Intact(file) /\ CanResume(id, fingerprint, file)
            /\ Started(id, fingerprint, file.events, file)

\* A caller may always give up the snapshot and start again from the beginning.
StartAfresh(id, fingerprint) ==
  /\ ~Running(id) /\ runs < MaxRuns
  /\ Started(id, fingerprint, 0, Absent)

Progress(id) ==
  /\ Running(id) /\ saving[id] = "idle" /\ process[id].events < MaxRunEvents
  /\ process' = [process EXCEPT ![id].events = @ + 1]
  /\ UNCHANGED <<files, saving, runs, renamed, lostFlush>>

-----------------------------------------------------------------------------
(* ArtifactStore::put, called by save_snapshot.                            *)

OpenTemp(id) ==
  /\ Running(id) /\ saving[id] = "idle"
  /\ files' = [files EXCEPT ![Temp(id)] = Torn]
  /\ saving' = [saving EXCEPT ![id] = "open"]
  /\ UNCHANGED <<process, runs, renamed, lostFlush>>

\* Writing: a write error is reported and put fails; an error when the buffer is
\* flushed by the destructor of the stream is not noticed.
WriteAndClose(id) ==
  /\ saving[id] = "open"
  /\ \/ /\ files' = [files EXCEPT ![Temp(id)] = SnapshotOf(id)]
        /\ saving' = [saving EXCEPT ![id] = "closed"]
        /\ UNCHANGED lostFlush
     \/ /\ saving' = [saving EXCEPT ![id] = "closed"]
        /\ lostFlush' = lostFlush \cup {id}
        /\ UNCHANGED files
     \/ /\ saving' = [saving EXCEPT ![id] = "idle"]
        /\ UNCHANGED <<files, lostFlush>>
  /\ UNCHANGED <<process, runs, renamed>>

MoveIntoPlace(id) ==
  /\ saving[id] = "closed"
  /\ saving' = [saving EXCEPT ![id] = "idle"]
  /\ \/ /\ files' = [files EXCEPT ![Final(id)] = files[Temp(id)], ![Temp(id)] = Absent]
        /\ renamed' = [renamed EXCEPT ![id] = SnapshotOf(id)]
     \/ UNCHANGED <<files, renamed>>
  /\ UNCHANGED <<process, runs, lostFlush>>

\* The process dies, perhaps just after the rename and before put returned.
Crash(id) ==
  /\ Running(id)
  /\ process' = [process EXCEPT ![id] = NoProcess]
  /\ saving' = [saving EXCEPT ![id] = "idle"]
  /\ \/ UNCHANGED <<files, renamed>>
     \/ /\ saving[id] = "closed"
        /\ files' = [files EXCEPT ![Final(id)] = files[Temp(id)], ![Temp(id)] = Absent]
        /\ renamed' = [renamed EXCEPT ![id] = SnapshotOf(id)]
  /\ UNCHANGED <<runs, lostFlush>>

-----------------------------------------------------------------------------
ResumeInit ==
  /\ files = [p \in ExperimentIds \X {"snapshot.json", "snapshot.json.tmp"} |-> Absent]
  /\ process = [id \in ExperimentIds |-> NoProcess]
  /\ saving = [id \in ExperimentIds |-> "idle"]
  /\ runs = 0 /\ lostFlush = {}
  /\ renamed = [id \in ExperimentIds |-> Absent]

ResumeNext ==
  \E id \in ExperimentIds :
    \/ \E fingerprint \in Fingerprints : StartRun(id, fingerprint) \/ StartAfresh(id, fingerprint)
    \/ Progress(id) \/ OpenTemp(id) \/ WriteAndClose(id) \/ MoveIntoPlace(id) \/ Crash(id)

ResumeSpec == ResumeInit /\ [][ResumeNext]_resumeVars

-----------------------------------------------------------------------------
\* Whatever the moment of a crash or of a failed write, an artifact that has
\* been put stays readable until the next one replaces it as a whole, and a run
\* that resumes continues a saved run of its own experiment and configuration
\* from where it had been saved.  (A write lost when the stream is closed is renamed into place
\* over the good snapshot: experiments it happened to are exempt from the
\* first part.)
ResumesWhatWasSaved ==
  \A id \in ExperimentIds :
    /\ id \notin lostFlush => files[Final(id)] = renamed[id]
    /\ Running(id) /\ process[id].from # Absent =>
         /\ process[id].from.id = id
         /\ process[id].from.fingerprint = process[id].fingerprint
         /\ process[id].events >= process[id].from.events

\* What is read back, of a session or of an experiment, is what was saved, or
\* nothing is.
StoredStateIsGenuine == StateReadsBack /\ ResumesWhatWasSaved
=============================================================================
