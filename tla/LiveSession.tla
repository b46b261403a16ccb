---------------------------- MODULE LiveSession -----------------------------
(***************************************************************************)
(* A live session (live/session.cpp) over its connection and its broker.   *)
(* One thread calls it; a call of step() is cut where the venue can get in *)
(* between: the health check and the broker's poll, each message of that   *)
(* poll, the market-data pump, and each event the engine takes.  Between   *)
(* calls the same thread may submit, cancel and replace orders through the *)
(* broker, halt, resume or shut down.  A process may die at any time; the  *)
(* next one finds the state last persisted.                                *)
(*                                                                         *)
(* The engine is seen through what an event makes the simulator do with    *)
(* the orders it holds: it fills any part of them (TradingCore models how  *)
(* much).  The strategy's own orders, which go to the simulator only, are  *)
(* left out.                                                               *)
(***************************************************************************)
EXTENDS LiveBroker, Functions

CONSTANTS PersistEvery, ReconcileEvery,   \* LiveSessionConfig
          MaxEvents, MaxLives, MaxSaves,  \* bounds on a process, on their number,
          MaxNews,                        \* and on quotes and account updates
          Ahead                           \* venue times too far ahead, or not

ASSUME SessionBounds == /\ {PersistEvery, ReconcileEvery, MaxLives} \subseteq Nat \ {0}
                        /\ {MaxEvents, MaxSaves, MaxNews} \subseteq Nat
                        /\ Ahead \subseteq BOOLEAN

VARIABLES phase,      \* LiveSession::phase_
          at,         \* where step() is
          sequence,   \* LiveSession::sequence_
          events,     \* events the engine of this process has taken
          buffer,     \* events in LiveMarketDataAdapter::buffer_
          disk        \* the state in the artifact store

sessionVars == <<phase, at, sequence, events, buffer, disk>>
liveVars == <<linkVars, sequenced, log, next, brokerVars, life, orders, sessionVars>>

NoState == [sequence |-> 0, events |-> 0, watermark |-> 0, tracked |-> {}]
Phases == {"Created", "Running", "Recovering", "Halted", "Stopped", "Failed"}
Terminal == {"Stopped", "Failed"}   \* is_terminal
Idle == at = "idle"

\* A message of the venue changes nothing here.
HereUnchanged == UNCHANGED <<linkVars, sequenced, next, brokerVars, life, sessionVars>>

-----------------------------------------------------------------------------
(* persist() and recover().                                                *)

\* stats_.events_processed: restored, and overwritten by the engine's own count
\* from the first event this process takes.
Captured(count) ==
  [sequence  |-> sequence + 1,
   events    |-> IF count = 0 /\ phase # "Created" THEN disk.events ELSE count,
   watermark |-> lastSeq,
   tracked   |-> tracked]

\* The sequence is used up even when the write fails.
Persist(ok, count) == sequence' = sequence + 1 /\ disk' = IF ok THEN Captured(count) ELSE disk

\* Mutant of Resumed: the venue sequence is not restored.
ResumedWithoutWatermark == lastSeq' = lastSeq

Resumed == lastSeq' = IF disk = NoState THEN lastSeq ELSE disk.watermark

Recover ==
  /\ Resumed
  /\ IF disk = NoState THEN UNCHANGED <<sequence, tracked>>
     ELSE sequence' = disk.sequence /\ tracked' = disk.tracked

-----------------------------------------------------------------------------
(* start(), halt(), resume(), shutdown().                                  *)

\* start(): connect, recover, synchronise, begin.  What fails ends it.
StartFails ==
  /\ Idle /\ phase = "Created"
  /\ \E from \in Redelivery :
       \/ Connect(FALSE, from)
       \/ Connect(TRUE, from)          \* recover() or the engine fails
  /\ phase' = "Failed"
  /\ UNCHANGED <<lastSeq, recent, sequenced, log, brokerVars, life, orders,
                 at, sequence, events, buffer, disk>>

Start ==
  /\ Idle /\ phase = "Created"
  /\ \E from \in Redelivery : isOpen' = TRUE /\ silence' = 0 /\ next' = from
  /\ conn' = "Ready"
  /\ Recover
  /\ phase' = "Running"
  /\ UNCHANGED <<recent, sequenced, log, working, venueOf, pending, account, batch,
                 nextId, booked, total, simulated, life, orders, at, events, buffer, disk>>

LinkAndBrokerUnchanged == UNCHANGED <<linkVars, sequenced, log, next, brokerVars, life, orders>>

Halt ==
  /\ Idle /\ phase \notin Terminal
  /\ phase' = "Halted"
  /\ LinkAndBrokerUnchanged /\ UNCHANGED <<at, sequence, events, buffer, disk>>

Resume ==
  /\ Idle /\ phase \in {"Halted", "Recovering"}
  /\ PermitsTrading
  /\ phase' = "Running"
  /\ LinkAndBrokerUnchanged /\ UNCHANGED <<at, sequence, events, buffer, disk>>

\* disconnect() is reached only when the close-out and the write succeed.
Shutdown ==
  /\ Idle /\ phase \notin Terminal /\ sequence < MaxSaves
  /\ \/ \E ok \in BOOLEAN :
          /\ Persist(ok, events)
          /\ phase' = IF ok THEN "Stopped" ELSE "Failed"
          /\ conn' = IF ok THEN "Disconnected" ELSE conn
          /\ isOpen' = (isOpen /\ ~ok)
     \/ phase' = "Failed" /\ UNCHANGED <<conn, isOpen, sequence, disk>>   \* the engine fails
  /\ UNCHANGED <<silence, lastSeq, recent, sequenced, log, next, brokerVars, life, orders,
                 at, events, buffer>>

-----------------------------------------------------------------------------
(* step().                                                                 *)

\* Mutant of PhaseAfterTick: a session on a doubtful connection runs on.
PhaseRegardless == phase

PhaseAfterTick == IF phase = "Running" /\ Ticked # "Ready" THEN "Recovering" ELSE phase

\* The health check.  A recovering session closes the transport and opens it
\* again, and is running once that and the synchronisation succeed; the first
\* attempt that fails ends the session.  So Recovering is never seen between
\* calls, and the back-off and the attempt limit of the supervisor, which count
\* failures in a row, never come into play.
StepBegin ==
  /\ Idle /\ phase \in {"Running", "Halted", "Recovering"}
  /\ \/ /\ PhaseAfterTick # "Recovering"
        /\ conn' = Ticked /\ phase' = PhaseAfterTick /\ at' = "poll"
        /\ UNCHANGED <<isOpen, silence, next>>
     \/ /\ PhaseAfterTick = "Recovering"
        /\ \E from \in Redelivery : isOpen' = TRUE /\ silence' = 0 /\ next' = from
        /\ conn' = "Ready" /\ phase' = "Running" /\ at' = "poll"
     \/ /\ PhaseAfterTick = "Recovering"
        /\ conn' = "Failed" /\ isOpen' = FALSE
        /\ phase' = "Failed" /\ UNCHANGED <<silence, next, at>>
  /\ UNCHANGED <<lastSeq, recent, sequenced, log, brokerVars, life, orders,
                 sequence, events, buffer, disk>>

\* broker->poll() takes what has arrived ...
BrokerPoll ==
  /\ at = "poll"
  /\ Polled(batch')
  /\ at' = "handle"
  /\ UNCHANGED <<tracked, working, venueOf, pending, account, nextId, life, orders,
                 booked, total, simulated, phase, sequence, events, buffer, disk>>

\* ... and handles it message by message; an error ends the step.
HandleMessage ==
  /\ at = "handle" /\ batch # <<>>
  /\ LET i == Head(batch)  m == log[i]
     IN  IF Refused(m)
         THEN /\ batch' = <<>> /\ at' = "idle"
              /\ UNCHANGED <<tracked, working, venueOf, pending, account, booked, total>>
         ELSE /\ Handle(i, m) /\ batch' = Tail(batch) /\ UNCHANGED at
  /\ UNCHANGED <<linkVars, sequenced, log, next, nextId, simulated, life, orders,
                 phase, sequence, events, buffer, disk>>

\* market_data->pump() polls the same connection and keeps only the quotes.
Quotes(taken) == Cardinality({k \in DOMAIN taken : log[taken[k]].kind = "quote"})

Pump ==
  /\ at = "handle" /\ batch = <<>>
  /\ \E taken \in {InOrder({i \in Fresh(Arrived) : ~log[i].ahead})} :
       /\ Polled(taken)
       /\ buffer' = buffer + Quotes(taken)
  /\ at' = "engine"
  /\ UNCHANGED <<brokerVars, life, orders, phase, sequence, events, disk>>

\* The engine takes one event: the simulator fills what it likes of the orders
\* it holds.  Then reconcile() every so many events, and persist().
Agrees == account = 0 /\ \A id \in Ids : simulated'[id] = 0

Due(every) == events' % every = 0

Dispatch(take) ==
  /\ at = "engine" /\ buffer > 0 /\ events < MaxEvents /\ sequence < MaxSaves
  /\ buffer' = buffer - 1 /\ events' = events + 1
  /\ \A id \in Ids : take[id] <= pending[id]
  /\ pending' = [id \in Ids |-> pending[id] - take[id]]
  /\ simulated' = [id \in Ids |-> simulated[id] + take[id]]
  /\ phase' = IF Due(ReconcileEvery) /\ ~Agrees THEN "Halted" ELSE phase
  /\ IF Due(PersistEvery)
     THEN \E ok \in BOOLEAN : Persist(ok, events + 1) /\ at' = IF ok THEN "engine" ELSE "idle"
     ELSE UNCHANGED <<sequence, disk, at>>
  /\ UNCHANGED <<linkVars, sequenced, log, next, tracked, working, venueOf, account, batch,
                 nextId, booked, total, life, orders>>

\* An event the engine cannot process ends the session.
DispatchFails ==
  /\ at = "engine" /\ buffer > 0
  /\ buffer' = buffer - 1 /\ phase' = "Failed" /\ at' = "idle"
  /\ LinkAndBrokerUnchanged /\ UNCHANGED <<sequence, events, disk>>

StepEnd ==
  /\ at = "engine" /\ buffer = 0
  /\ at' = "idle"
  /\ LinkAndBrokerUnchanged /\ UNCHANGED <<phase, sequence, events, buffer, disk>>

-----------------------------------------------------------------------------
(* The caller's orders, the venue, the clock and the end of the process.   *)

Started == phase \notin {"Created"} \cup Terminal

Order(sent) ==
  /\ Idle /\ Started /\ Submit(sent)
  /\ UNCHANGED <<linkVars, sequenced, log, next, life, sessionVars>>

Ask(id, what) ==
  /\ Idle /\ Started /\ Request(id, what)
  /\ UNCHANGED <<linkVars, sequenced, log, next, life, sessionVars>>

News == Cardinality({i \in DOMAIN log : log[i].kind \in {"quote", "account"}})
Reported == [i \in {j \in DOMAIN log : log[j].kind \in FillKinds} |-> log[i].q]
Executed == SumFunction(Reported)

\* When the venue acts makes a difference between calls and between the two
\* polls of a step only; after the end of a process it goes on once the next
\* one is there.
VenueStep ==
  /\ phase \notin Terminal
  /\ Idle \/ (at = "handle" /\ batch = <<>>)
  /\ \/ \E o \in DOMAIN orders : VenueAnswers(o) \/ VenueCancels(o) \/ VenueReplaces(o)
     \/ \E o \in DOMAIN orders, q \in 1..(Lots + 1), ahead \in Ahead : VenueFills(o, q, ahead)
     \/ News < MaxNews /\ (VenueReports(Executed) \/ VenueQuotes)
  /\ HereUnchanged

Silence ==
  /\ Idle /\ conn \in {"Ready", "Degraded"} /\ silence < 2   \* read nowhere else
  /\ silence' = silence + 1
  /\ UNCHANGED <<conn, lastSeq, recent, isOpen, sequenced, log, next, brokerVars, life,
                 orders, sessionVars>>

\* The process dies, or has ended; the next one starts from nothing but disk.
NewProcess ==
  /\ phase # "Created" /\ life < MaxLives
  /\ life' = life + 1
  /\ conn' = "Disconnected" /\ silence' = 0 /\ lastSeq' = 0 /\ recent' = {} /\ isOpen' = FALSE
  /\ tracked' = {} /\ working' = {} /\ venueOf' = [id \in Ids |-> 0]
  /\ pending' = [id \in Ids |-> 0] /\ account' = -1 /\ batch' = <<>>
  /\ nextId' = 1 /\ booked' = {} /\ total' = 0 /\ simulated' = [id \in Ids |-> 0]
  /\ phase' = "Created" /\ at' = "idle" /\ sequence' = 0 /\ events' = 0 /\ buffer' = 0
  /\ next' = 1   \* until it connects
  /\ UNCHANGED <<sequenced, log, orders, disk>>

-----------------------------------------------------------------------------
LiveInit ==
  /\ LinkInit /\ EmptyBroker /\ orders = <<>> /\ life = 1
  /\ phase = "Created" /\ at = "idle" /\ sequence = 0 /\ events = 0 /\ buffer = 0
  /\ disk = NoState

Step ==
  \/ StepBegin \/ BrokerPoll \/ HandleMessage \/ Pump
  \/ \E take \in [Ids -> 0..(Lots + 1)] : Dispatch(take)
  \/ DispatchFails \/ StepEnd

LiveNext ==
  \/ Start \/ StartFails \/ Halt \/ Resume \/ Shutdown \/ Step
  \/ \E sent \in BOOLEAN : Order(sent)
  \/ \E id \in Ids, what \in {"cancel", "replace"} : Ask(id, what)
  \/ VenueStep \/ Silence \/ NewProcess

LiveSpec == LiveInit /\ [][LiveNext]_liveVars

-----------------------------------------------------------------------------
LiveTypeOK ==
  /\ conn \in {"Disconnected", "Synchronizing", "Ready", "Degraded", "Reconnecting", "Failed"}
  /\ silence \in 0..2 /\ lastSeq \in 0..MaxLog /\ recent \subseteq 1..MaxLog
  /\ isOpen \in BOOLEAN /\ next \in 1..(MaxLog + 1)
  /\ tracked \subseteq Ids /\ working \subseteq Ids
  /\ venueOf \in [Ids -> 0..Len(orders)]
  /\ pending \in [Ids -> 0..Lots]
  /\ orders \in Seq(VenueOrder)
  /\ phase \in Phases /\ at \in {"idle", "poll", "handle", "engine"}

\* An order of this process that lives at the venue is one the broker still
\* counts as working and still recognises: no lost, repeated or discarded
\* message, and no cancel the venue has yet to confirm, makes it forget one.
\* (An id that an earlier process has used is the exception: its late replies
\* are taken for the new order's.)
OwnId(o) == \A p \in DOMAIN orders : p # o => orders[p].id # orders[o].id

LiveOrdersRemembered ==
  /\ LiveTypeOK
  /\ \A o \in DOMAIN orders :
       orders[o].life = life /\ orders[o].state # "done" /\ OwnId(o)
         => IdOf(o) \in working /\ IdOf(o) \in tracked

\* Every report of the venue is booked at most once and for what it says,
\* whatever is redelivered after a reconnect: the broker implements the ledger.
Ledger == INSTANCE FillLedger WITH
  Reports  <- 1..MaxLog,
  Quantity <- 1..(Lots + 1),
  reported <- Reported,
  booked   <- booked,
  total    <- total

FillsBookedOnce == Ledger!LedgerSpec

\* No process books a fill that the state it started from, or has saved since,
\* counts as applied: a redelivery after a restart adds nothing, even to a new
\* order that goes by the same id.
NotBookedAcrossRestart ==
  [][\A i \in booked' \ booked : sequenced => i > disk.watermark]_liveVars

\* A step of a running session gives the engine no event, not even one that is
\* still buffered, once the venue has been silent for the limit: the clock is
\* looked at before the messages.  And nothing makes a session run, resume() or
\* a reconnection, over a connection that is not ready.
SilentVenueNoticed ==
  [][/\ phase = "Running" /\ events' > events => conn = "Ready" /\ silence < 2
     /\ phase # "Running" /\ phase' = "Running" => conn' = "Ready"]_liveVars
=============================================================================
