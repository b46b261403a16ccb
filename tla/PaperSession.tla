---------------------------- MODULE PaperSession ----------------------------
(***************************************************************************)
(* The paper session (src/paper/session.cpp): the lifecycle around one     *)
(* engine, its periodic and daily writes to the artifact store, and what a *)
(* restarted process recovers from it.  A session object is used by one    *)
(* thread, so an operation is one step; step() is three, because a crash   *)
(* may fall between its two writes.  run() is start, step and shutdown in  *)
(* the order a caller may choose anyway, and is not repeated.              *)
(*                                                                         *)
(* The engine is seen through its run summary.  The artifact store renames *)
(* a finished file into place, so a write happens or does not; what damages*)
(* a file comes from outside.  recover() reads back the sequence and the   *)
(* counters; positions, orders and the phase are written and never read,   *)
(* and are left out.                                                       *)
(***************************************************************************)
EXTENDS Naturals

CONSTANTS Configs,         \* config_fingerprint of a session; 0 means none
          RequireMatching, \* require_matching_config
          DailyReset,      \* daily_reset
          PersistEvery,    \* persist_every_events
          MaxEvents, MaxSequence, MaxLives \* bounds: events, writes, processes

ASSUME ConfigsAreNumbers == Configs \subseteq Nat
ASSUME SwitchesAreBoolean == RequireMatching \in BOOLEAN /\ DailyReset \in BOOLEAN
ASSUME CountsAreNatural == {PersistEvery, MaxEvents, MaxSequence, MaxLives} \subseteq Nat

VARIABLES phase, connected, \* phase_ and PaperBroker::connected_
          engine,    \* engine_.has_value()
          stop,      \* stop_requested_
          pc,        \* where step() is: idle, dated (event done), counted (day checked)
          summary,   \* the engine's RunSummary: events and orders
          stats,     \* SessionStats: the same two counters
          eventDay,  \* day of the last event
          day,       \* current_session_date_
          sequence,  \* sequence_
          config,    \* config_.config_fingerprint
          store,     \* the artifact of this session id
          life,      \* history: which process this is
          missed     \* history: the last write failed

lifeVars    == <<config, life>>
processVars == <<phase, connected, engine, stop>>
countVars   == <<summary, stats, eventDay>>
writeVars   == <<sequence, store, missed>>
paperVars   == <<processVars, pc, countVars, day, writeVars, lifeVars>>

\* Starting and Stopping last no longer than one call.
Phases == {"Created", "Running", "Paused", "Stopped", "Failed"}
Terminal == {"Stopped", "Failed"}   \* is_terminal

Counters == [events: Nat, orders: Nat]
Nothing == [events |-> 0, orders |-> 0]

\* A stored state.  writer and covers are history: the process that wrote it and
\* how many of its engine's events it had seen.
NoState == [seq |-> 0, config |-> 0, stats |-> Nothing, intact |-> TRUE,
            writer |-> 0, covers |-> 0]
States == [seq: Nat, config: Nat, stats: Counters, intact: BOOLEAN, writer: Nat, covers: Nat]

-----------------------------------------------------------------------------
(* Writing and reading the store.                                          *)

\* capture()
Captured(seq) == [seq |-> seq, config |-> config, stats |-> stats, intact |-> TRUE,
                  writer |-> life, covers |-> summary.events]

\* persist(): the sequence advances whether or not the file is written.
Write(ok) ==
  /\ sequence < MaxSequence
  /\ sequence' = sequence + 1
  /\ store' = IF ok THEN Captured(sequence') ELSE store
  /\ missed' = ~ok

\* Slip: the configuration is not compared.
RecoverableIfIntact == store.intact

\* recover(): a damaged file or one of another configuration is refused.  (No
\* file at all is NoState, which is intact and of no configuration.)
Recoverable ==
  store = NoState \/
  /\ store.intact
  /\ ~(RequireMatching /\ config # 0 /\ store.config # config)

\* Slip: the sequence starts again.
RestoredWithoutSequence ==
  /\ stats' = store.stats
  /\ UNCHANGED sequence

Restored ==
  /\ stats' = store.stats
  /\ sequence' = store.seq

-----------------------------------------------------------------------------
(* start()                                                                 *)

StartRefused ==
  /\ phase = "Created"
  /\ ~Recoverable
  /\ phase' = "Failed" /\ connected' = TRUE
  /\ UNCHANGED <<engine, stop, pc, countVars, day, writeVars, lifeVars>>

\* The engine is constructed; the strategy's on_start may still fail.
Start ==
  /\ phase = "Created"
  /\ Recoverable
  /\ connected' = TRUE /\ engine' = TRUE
  /\ Restored
  /\ phase' \in {"Running", "Failed"}
  /\ day' = eventDay
  /\ UNCHANGED <<stop, pc, summary, eventDay, store, missed, lifeVars>>

\* pause() asks only that the session has not ended, so it is legal before start().
Pause ==
  /\ phase \notin Terminal /\ pc = "idle"
  /\ phase' = "Paused" /\ connected' = FALSE
  /\ UNCHANGED <<engine, stop, pc, countVars, day, writeVars, lifeVars>>

Resume ==
  /\ phase = "Paused" /\ pc = "idle"
  /\ phase' = "Running" /\ connected' = TRUE
  /\ UNCHANGED <<engine, stop, pc, countVars, day, writeVars, lifeVars>>

\* request_stop(): from a signal handler, at any point.
RequestStop ==
  /\ stop' = TRUE
  /\ UNCHANGED <<phase, connected, engine, pc, countVars, day, writeVars, lifeVars>>

-----------------------------------------------------------------------------
(* step(), for one event.                                                  *)

\* The engine takes an event, in which the strategy may submit; it asks neither
\* the phase nor the broker's connection.
StepEngine ==
  /\ phase \in {"Running", "Paused"} /\ engine /\ ~stop /\ pc = "idle"
  /\ summary.events < MaxEvents
  /\ \E submitted \in {0, 1}, nextDay \in {0, 1} :
       /\ summary' = [events |-> summary.events + 1, orders |-> summary.orders + submitted]
       /\ eventDay' = eventDay + nextDay
  /\ stats' = summary'
  /\ pc' = "dated"
  /\ UNCHANGED <<processVars, day, writeVars, lifeVars>>

StepFails ==
  /\ phase \in {"Running", "Paused"} /\ engine /\ ~stop /\ pc = "idle"
  /\ phase' = "Failed"
  /\ UNCHANGED <<connected, engine, stop, pc, countVars, day, writeVars, lifeVars>>

NewDay == DailyReset /\ eventDay > day

SameDay ==
  /\ pc = "dated" /\ ~NewDay
  /\ pc' = "counted"
  /\ UNCHANGED <<processVars, countVars, day, writeVars, lifeVars>>

\* Slip: the day is closed whether or not it was saved.
CloseDayRegardless ==
  /\ pc = "dated" /\ NewDay
  /\ \E ok \in BOOLEAN : Write(ok)
  /\ day' = eventDay
  /\ pc' = "counted"
  /\ UNCHANGED <<processVars, countVars, lifeVars>>

\* daily_reset(): persist, and only then move to the new day.  A failure leaves
\* step() with the day unchanged, so that the next event tries again.
CloseDay ==
  /\ pc = "dated" /\ NewDay
  /\ \E ok \in BOOLEAN :
       /\ Write(ok)
       /\ day' = IF ok THEN eventDay ELSE day
       /\ pc' = IF ok THEN "counted" ELSE "idle"
  /\ UNCHANGED <<processVars, countVars, lifeVars>>

\* Slip: the events of this call are counted, not those of the session.
DueByCall == PersistEvery = 1

Due == PersistEvery > 0 /\ stats.events % PersistEvery = 0

NotDue ==
  /\ pc = "counted" /\ ~Due
  /\ pc' = "idle"
  /\ UNCHANGED <<processVars, countVars, day, writeVars, lifeVars>>

\* The periodic write; a failure is an error of step() and changes no phase.
PeriodicPersist ==
  /\ pc = "counted" /\ Due
  /\ \E ok \in BOOLEAN : Write(ok)
  /\ pc' = "idle"
  /\ UNCHANGED <<processVars, countVars, day, lifeVars>>

-----------------------------------------------------------------------------
\* persist() called from outside, which it allows in every phase.
Persist ==
  /\ pc = "idle"
  /\ \E ok \in BOOLEAN : Write(ok)
  /\ UNCHANGED <<processVars, pc, countVars, day, lifeVars>>

\* Slip: the phase does not depend on the last write.
ShutdownStopsRegardless ==
  /\ phase \notin Terminal /\ pc = "idle"
  /\ \E ok \in BOOLEAN : Write(ok)
  /\ phase' = "Stopped" /\ connected' = FALSE
  /\ UNCHANGED <<engine, stop, pc, countVars, day, lifeVars>>

\* Slip: the transitional phase is left behind.
ShutdownLeavesStopping ==
  /\ phase \notin Terminal /\ pc = "idle"
  /\ \E ok \in BOOLEAN :
       /\ Write(ok)
       /\ phase' = IF ok THEN "Stopping" ELSE "Failed"
       /\ connected' = (connected /\ ~ok)
  /\ UNCHANGED <<engine, stop, pc, countVars, day, lifeVars>>

\* shutdown() whose engine cannot be finished: nothing is written.
FinishFails ==
  /\ phase \notin Terminal /\ pc = "idle" /\ engine
  /\ phase' = "Failed"
  /\ UNCHANGED <<connected, engine, stop, pc, countVars, day, writeVars, lifeVars>>

\* shutdown(): finish the engine, write, disconnect.  A session that was never
\* started has no engine to finish, and writes all the same.
Shutdown ==
  /\ phase \notin Terminal /\ pc = "idle"
  /\ \E ok \in BOOLEAN :
       /\ Write(ok)
       /\ phase' = IF ok THEN "Stopped" ELSE "Failed"
       /\ connected' = (connected /\ ~ok)
  /\ UNCHANGED <<engine, stop, pc, countVars, day, lifeVars>>

\* The process ends, anywhere, and another one constructs a session of the same
\* id over fresh components; what it finds is the store.
Restart ==
  /\ life < MaxLives
  /\ life' = life + 1 /\ config' \in Configs
  /\ phase' = "Created" /\ connected' = FALSE /\ engine' = FALSE /\ stop' = FALSE
  /\ pc' = "idle" /\ summary' = Nothing /\ stats' = Nothing
  /\ eventDay' = 0 /\ day' = 0 /\ sequence' = 0 /\ missed' = FALSE
  /\ UNCHANGED store

\* The file is damaged while no session writes it.
Damage ==
  /\ phase = "Created" /\ store # NoState /\ store.intact
  /\ store' = [store EXCEPT !.intact = FALSE]
  /\ UNCHANGED <<processVars, pc, countVars, day, sequence, missed, lifeVars>>

PaperInit ==
  /\ phase = "Created" /\ connected = FALSE /\ engine = FALSE /\ stop = FALSE
  /\ pc = "idle" /\ summary = Nothing /\ stats = Nothing
  /\ eventDay = 0 /\ day = 0 /\ sequence = 0 /\ missed = FALSE
  /\ store = NoState /\ life = 1 /\ config \in Configs

PaperNext ==
  \/ StartRefused \/ Start \/ Pause \/ Resume \/ RequestStop
  \/ StepEngine \/ StepFails \/ SameDay \/ CloseDay \/ NotDue \/ PeriodicPersist
  \/ Persist \/ FinishFails \/ Shutdown \/ Restart \/ Damage

PaperSpec == PaperInit /\ [][PaperNext]_paperVars

-----------------------------------------------------------------------------
PaperTypeOK ==
  /\ phase \in Phases /\ connected \in BOOLEAN
  /\ engine \in BOOLEAN /\ stop \in BOOLEAN /\ missed \in BOOLEAN
  /\ pc \in {"idle", "dated", "counted"}
  /\ summary \in Counters /\ stats \in Counters
  /\ eventDay \in Nat /\ day \in Nat /\ sequence \in Nat /\ life \in Nat
  /\ config \in Nat
  /\ store \in States

\* Over any number of crashes, failed writes and restarts, a session that has
\* been started never replaces a stored state by one with a lower or an equal
\* sequence number: it goes on from what it recovered.
SequenceAdvances == [][engine /\ store' # store => store'.seq > store.seq]_paperVars

\* A session that has been started never overwrites a damaged state, nor one of
\* another configuration: "resuming a book under a configuration that did not
\* create it mixes two runs".
ContinuesOwnState ==
  [][engine /\ store' # store /\ store # NoState =>
       /\ store.intact
       /\ RequireMatching /\ config # 0 => store.config = config]_paperVars

\* A crash between two events loses fewer than PersistEvery of them, as long as
\* writes succeed: "often enough that a crash loses little".
Covered == IF store.writer = life THEN store.covers ELSE 0
LittleIsLost ==
  engine /\ phase \in {"Running", "Paused"} /\ pc = "idle" /\ ~missed /\ PersistEvery > 0
    => summary.events - Covered < PersistEvery

\* A stopped session has its last event on disk, paused or failing writes before
\* that notwithstanding.
StoppedIsSaved == phase = "Stopped" => store.writer = life /\ store.covers = summary.events

\* The session keeps its types and ranges, and stops only when it is saved.
SessionIsSound == PaperTypeOK /\ StoppedIsSaved

\* A day's counters are only reset once the state that closes the day is on
\* disk: "persist BEFORE resetting".
DayClosedOnDisk ==
  [][engine /\ day' # day /\ life' = life =>
       store'.writer = life /\ store'.covers = summary.events]_paperVars

\* What a restart relies on, together.
RecoveryKeepsState == SequenceAdvances /\ ContinuesOwnState /\ DayClosedOnDisk

\* "Only NEW ORDERS stop" (pause): no order is submitted while paused.
PausedSendsNoOrders == [][phase = "Paused" => summary'.orders <= summary.orders]_paperVars
=============================================================================
