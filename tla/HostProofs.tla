----------------------------- MODULE HostProofs -----------------------------
(***************************************************************************)
(* Proofs about the paper session and the host that serves it to the API,  *)
(* for every set of configurations, every bound on what is kept, every set *)
(* of quantities and every frequency of the strategy's signals.            *)
(***************************************************************************)
EXTENDS PaperSession, HostInbox, SumLemmas, SequenceTheorems

-----------------------------------------------------------------------------
(***************************************************************************)
(* PaperSession.  A session that has an engine has recovered, so its       *)
(* sequence is at least the stored one and the stored state is its own;    *)
(* every write keeps it so, and nothing else changes the store while there *)
(* is an engine.  What a crash loses is bounded by the events since the    *)
(* last multiple of the persistence interval.                              *)
(***************************************************************************)

\* The stored state is one this session may replace.
OwnState ==
  store # NoState => /\ store.intact
                     /\ RequireMatching /\ config # 0 => store.config = config

Recovered == engine => phase # "Created" /\ sequence >= store.seq /\ OwnState

PaperInv == PaperTypeOK /\ Recovered /\ StoppedIsSaved

(***************************************************************************)
(* What a write does to a session with and without an engine.              *)
(***************************************************************************)
LEMMA WriteFacts ==
  ASSUME PaperTypeOK, Recovered, NEW ok \in BOOLEAN, Write(ok)
  PROVE  /\ sequence' \in Nat /\ missed' \in BOOLEAN /\ store' \in States
         /\ store' = store \/ (store'.seq = sequence' /\ store'.intact /\ store'.config = config
                               /\ store'.writer = life /\ store'.covers = summary.events)
         /\ ok => store'.writer = life /\ store'.covers = summary.events
         /\ engine => sequence' >= store'.seq /\ (store' # store => store'.seq > store.seq)
<1>1. Captured(sequence') \in States
  BY DEF Captured, States, PaperTypeOK, Counters, Write
<1>2. /\ Captured(sequence').seq = sequence' /\ Captured(sequence').intact
      /\ Captured(sequence').config = config /\ Captured(sequence').writer = life
      /\ Captured(sequence').covers = summary.events
  BY DEF Captured
<1>3. sequence' = sequence + 1 /\ store' = (IF ok THEN Captured(sequence') ELSE store)
      /\ missed' = ~ok /\ sequence \in Nat /\ store \in States /\ store.seq \in Nat
  BY DEF Write, PaperTypeOK, States
<1> HIDE DEF Captured
<1>4. CASE ok
  BY <1>1, <1>2, <1>3, <1>4 DEF Recovered
<1>5. CASE ~ok
  BY <1>3, <1>5 DEF Recovered
<1> QED
  BY <1>4, <1>5

(***************************************************************************)
(* A write keeps the invariant, whatever else the step does to the phase,  *)
(* as long as a step that ends in Stopped has written.                     *)
(***************************************************************************)
LEMMA WriteKeepsRecovered ==
  ASSUME PaperTypeOK, Recovered, NEW ok \in BOOLEAN, Write(ok),
         engine' = engine, config' = config, engine => phase' # "Created"
  PROVE  Recovered'
<1>1. CASE store' = store
  BY <1>1, WriteFacts DEF Recovered, OwnState
<1>2. CASE store' # store
  BY <1>2, WriteFacts DEF Recovered, OwnState
<1> QED
  BY <1>1, <1>2

(***************************************************************************)
(* The strengthened invariant is inductive.                                *)
(***************************************************************************)
THEOREM StoreIsSound == PaperSpec => []PaperInv
<1>1. PaperInit => PaperInv
  <2> SUFFICES ASSUME PaperInit PROVE PaperInv
    OBVIOUS
  <2>1. Nothing \in Counters
    BY DEF Nothing, Counters
  <2>2. NoState \in States
    BY <2>1 DEF NoState, States
  <2>3. PaperTypeOK
    BY <2>1, <2>2, ConfigsAreNumbers DEF PaperInit, PaperTypeOK, Phases
  <2> QED
    BY <2>3 DEF PaperInit, PaperInv, Recovered, StoppedIsSaved
<1>2. PaperInv /\ [PaperNext]_paperVars => PaperInv'
  <2> SUFFICES ASSUME PaperInv, [PaperNext]_paperVars PROVE PaperInv'
    OBVIOUS
  <2> USE DEF PaperInv
  <2>1. CASE StartRefused
    BY <2>1 DEF StartRefused, PaperTypeOK, Recovered, OwnState, StoppedIsSaved, Phases, countVars,
       writeVars, lifeVars
  <2>2. CASE Start
    <3>1. stats' \in Counters /\ sequence' \in Nat /\ sequence' = store.seq
      BY <2>2 DEF Start, Restored, PaperTypeOK, States
    <3>2. OwnState'
      BY <2>2 DEF Start, Recoverable, OwnState, lifeVars
    <3>3. PaperTypeOK'
      BY <2>2, <3>1 DEF Start, PaperTypeOK, Phases, lifeVars
    <3> QED
      BY <2>2, <3>1, <3>2, <3>3 DEF Start, PaperTypeOK, Recovered, StoppedIsSaved, lifeVars
  <2>3. CASE Pause
    BY <2>3 DEF Pause, PaperTypeOK, Recovered, OwnState, StoppedIsSaved, Phases, countVars,
       writeVars, lifeVars
  <2>4. CASE Resume
    BY <2>4 DEF Resume, PaperTypeOK, Recovered, OwnState, StoppedIsSaved, Phases, countVars,
       writeVars, lifeVars
  <2>5. CASE RequestStop
    BY <2>5 DEF RequestStop, PaperTypeOK, Recovered, OwnState, StoppedIsSaved, countVars,
       writeVars, lifeVars
  <2>6. CASE StepEngine
    <3>1. summary' \in Counters /\ stats' \in Counters /\ eventDay' \in Nat
      BY <2>6 DEF StepEngine, PaperTypeOK, Counters
    <3> QED
      BY <2>6, <3>1 DEF StepEngine, PaperTypeOK, Recovered, OwnState, StoppedIsSaved, processVars,
         writeVars, lifeVars
  <2>7. CASE StepFails \/ FinishFails
    BY <2>7 DEF StepFails, FinishFails, PaperTypeOK, Recovered, OwnState, StoppedIsSaved, Phases, countVars,
       writeVars, lifeVars
  <2>8. CASE SameDay
    BY <2>8 DEF SameDay, PaperTypeOK, Recovered, OwnState, StoppedIsSaved, processVars, countVars,
       writeVars, lifeVars
  <2>9. CASE CloseDay
    <3>1. PICK ok \in BOOLEAN : /\ Write(ok)
                                /\ day' = IF ok THEN eventDay ELSE day
                                /\ pc' = IF ok THEN "counted" ELSE "idle"
      BY <2>9 DEF CloseDay
    <3>2. Recovered'
      BY <2>9, <3>1, WriteKeepsRecovered DEF CloseDay, processVars, lifeVars, Recovered
    <3> QED
      BY <2>9, <3>1, <3>2, WriteFacts DEF CloseDay, PaperTypeOK, StoppedIsSaved, processVars,
         countVars, lifeVars
  <2>10. CASE NotDue
    BY <2>10 DEF NotDue, PaperTypeOK, Recovered, OwnState, StoppedIsSaved, processVars, countVars,
       writeVars, lifeVars
  <2>11. CASE PeriodicPersist \/ Persist
    <3>1. PICK ok \in BOOLEAN : Write(ok)
      BY <2>11 DEF PeriodicPersist, Persist
    <3>2. UNCHANGED <<processVars, countVars, day, lifeVars>> /\ pc' \in {"idle", pc}
      BY <2>11 DEF PeriodicPersist, Persist
    <3>3. Recovered'
      BY <3>1, <3>2, WriteKeepsRecovered DEF processVars, lifeVars, Recovered
    <3> QED
      BY <3>1, <3>2, <3>3, WriteFacts DEF PaperTypeOK, StoppedIsSaved, processVars, countVars, lifeVars
  <2>12. CASE Shutdown
    <3>1. PICK ok \in BOOLEAN : /\ Write(ok)
                                /\ phase' = IF ok THEN "Stopped" ELSE "Failed"
                                /\ connected' = (connected /\ ~ok)
      BY <2>12 DEF Shutdown
    <3>2. UNCHANGED <<engine, stop, pc, countVars, day, lifeVars>>
      BY <2>12 DEF Shutdown
    <3>3. Recovered'
      BY <3>1, <3>2, WriteKeepsRecovered DEF lifeVars
    <3>4. /\ sequence' \in Nat /\ missed' \in BOOLEAN /\ store' \in States
          /\ ok => store'.writer = life /\ store'.covers = summary.events
      BY <3>1, WriteFacts
    <3>5. phase' \in Phases /\ (phase' = "Stopped" => ok)
      BY <3>1 DEF Phases
    <3>6. connected' \in BOOLEAN
      BY <3>1, Zenon
    <3>7. PaperTypeOK'
      BY <3>2, <3>4, <3>5, <3>6 DEF PaperTypeOK, countVars, lifeVars
    <3>8. StoppedIsSaved'
      <4> SUFFICES ASSUME phase' = "Stopped"
                   PROVE  store'.writer = life' /\ store'.covers = summary'.events
        BY DEF StoppedIsSaved
      <4>1. store'.writer = life /\ store'.covers = summary.events
        BY <3>4, <3>5, Zenon
      <4> QED
        BY <3>2, <4>1 DEF countVars, lifeVars
    <3> QED
      BY <3>3, <3>7, <3>8
  <2>13. CASE Restart
    <3>1. Nothing \in Counters
      BY DEF Nothing, Counters
    <3>2. /\ phase' = "Created" /\ connected' = FALSE /\ engine' = FALSE /\ stop' = FALSE
          /\ pc' = "idle" /\ summary' = Nothing /\ stats' = Nothing
          /\ eventDay' = 0 /\ day' = 0 /\ sequence' = 0 /\ missed' = FALSE
          /\ store' = store /\ life' = life + 1 /\ config' \in Nat
      BY <2>13, ConfigsAreNumbers DEF Restart
    <3>3. /\ phase' \in Phases /\ pc' \in {"idle", "dated", "counted"}
          /\ connected' \in BOOLEAN /\ engine' \in BOOLEAN /\ stop' \in BOOLEAN
          /\ missed' \in BOOLEAN
      BY <3>2 DEF Phases
    <3>4. /\ summary' \in Counters /\ stats' \in Counters
          /\ eventDay' \in Nat /\ day' \in Nat /\ sequence' \in Nat /\ life' \in Nat
          /\ store' \in States
      BY <3>1, <3>2 DEF PaperTypeOK
    <3>5. PaperTypeOK'
      BY <3>2, <3>3, <3>4 DEF PaperTypeOK
    <3> QED
      BY <3>2, <3>5 DEF Recovered, StoppedIsSaved
  <2>14. CASE Damage
    <3>1. store' \in States
      BY <2>14 DEF Damage, PaperTypeOK, States
    <3>2. engine = FALSE /\ engine' = FALSE /\ phase' = "Created"
      BY <2>14 DEF Damage, Recovered, processVars, PaperTypeOK
    <3> QED
      BY <2>14, <3>1, <3>2 DEF Damage, PaperTypeOK, Recovered, StoppedIsSaved, processVars, countVars,
         lifeVars
  <2>15. CASE UNCHANGED paperVars
    BY <2>15 DEF paperVars, PaperTypeOK, Recovered, OwnState, StoppedIsSaved, processVars, countVars,
       writeVars, lifeVars
  <2> QED
    BY <2>1, <2>2, <2>3, <2>4, <2>5, <2>6, <2>7, <2>8, <2>9, <2>10, <2>11, <2>12, <2>13, <2>14,
       <2>15 DEF PaperNext
<1> QED
  BY <1>1, <1>2, PTL DEF PaperSpec

(***************************************************************************)
(* The session keeps its types and ranges, and one that calls itself       *)
(* stopped has its last event on disk (PaperSession::shutdown, write).     *)
(***************************************************************************)
THEOREM StopSaves == PaperSpec => []SessionIsSound
<1>1. PaperInv => SessionIsSound
  BY DEF PaperInv, SessionIsSound
<1> QED
  BY <1>1, StoreIsSound, PTL

(***************************************************************************)
(* With an engine, only a write changes the store.                         *)
(***************************************************************************)
LEMMA OnlyWritesChangeTheStore ==
  ASSUME PaperInv, [PaperNext]_paperVars, engine, store' # store
  PROVE  \E ok \in BOOLEAN : Write(ok)
<1>1. phase # "Created"
  BY DEF PaperInv, Recovered
<1> QED
  BY <1>1 DEF PaperNext, StartRefused, Start, Pause, Resume, RequestStop, StepEngine, StepFails, SameDay,
     FinishFails, CloseDay, NotDue, PeriodicPersist, Persist, Shutdown, Restart, Damage, paperVars, writeVars

(***************************************************************************)
(* SequenceAdvances, for every value of the constants.                     *)
(***************************************************************************)
THEOREM SequenceNeverFallsBack == PaperSpec => SequenceAdvances
<1>1. PaperInv /\ [PaperNext]_paperVars =>
        [engine /\ store' # store => store'.seq > store.seq]_paperVars
  BY OnlyWritesChangeTheStore, WriteFacts DEF PaperInv
<1> QED
  BY <1>1, StoreIsSound, PTL DEF PaperSpec, SequenceAdvances

(***************************************************************************)
(* ContinuesOwnState, for every value of the constants.                    *)
(***************************************************************************)
THEOREM OnlyOwnStateIsReplaced == PaperSpec => ContinuesOwnState
<1>1. PaperInv /\ [PaperNext]_paperVars =>
        [engine /\ store' # store /\ store # NoState =>
           /\ store.intact
           /\ RequireMatching /\ config # 0 => store.config = config]_paperVars
  BY DEF PaperInv, Recovered, OwnState
<1> QED
  BY <1>1, StoreIsSound, PTL DEF PaperSpec, ContinuesOwnState

(***************************************************************************)
(* DayClosedOnDisk, for every value of the constants.                      *)
(***************************************************************************)
THEOREM DayIsClosedOnDisk == PaperSpec => DayClosedOnDisk
<1>1. ASSUME PaperInv, [PaperNext]_paperVars, engine, day' # day, life' = life
      PROVE  store'.writer = life /\ store'.covers = summary.events
  <2>1. phase # "Created" /\ life \in Nat
    BY <1>1 DEF PaperInv, Recovered, PaperTypeOK
  <2>2. CloseDay
    <3>1. ~Start /\ ~Restart
      BY <1>1, <2>1 DEF Start, Restart, lifeVars
    <3> QED
      BY <1>1, <3>1 DEF PaperNext, StartRefused, Pause, Resume, RequestStop, StepEngine, StepFails,
         FinishFails, SameDay, NotDue, PeriodicPersist, Persist, Shutdown, Damage, paperVars
  <2>3. PICK ok \in BOOLEAN : Write(ok) /\ day' = IF ok THEN eventDay ELSE day
    BY <2>2 DEF CloseDay
  <2> QED
    BY <1>1, <2>3, WriteFacts DEF PaperInv
<1>2. PaperInv /\ [PaperNext]_paperVars =>
        [engine /\ day' # day /\ life' = life =>
           store'.writer = life /\ store'.covers = summary.events]_paperVars
  BY <1>1
<1> QED
  BY <1>2, StoreIsSound, PTL DEF PaperSpec, DayClosedOnDisk

(***************************************************************************)
(* RecoveryKeepsState, for every value of the constants: over any crashes, *)
(* restarts, damaged files and failed writes, what is stored moves forward,*)
(* stays the session's own and closes each day.                            *)
(***************************************************************************)
THEOREM RecoveryIsSound == PaperSpec => RecoveryKeepsState
BY SequenceNeverFallsBack, OnlyOwnStateIsReplaced, DayIsClosedOnDisk DEF RecoveryKeepsState

-----------------------------------------------------------------------------
(* What a crash loses.                                                     *)

(***************************************************************************)
(* Unless the next number is a multiple of P, its remainder is one more.   *)
(***************************************************************************)
LEMMA RemainderGrows ==
  ASSUME NEW P \in Nat \ {0}, NEW n \in Nat, (n + 1) % P # 0
  PROVE  (n + 1) % P = (n % P) + 1
<1> DEFINE a == (n + 1) \div P
           b == n \div P
           r == (n + 1) % P
           s == n % P
<1>1. n + 1 = P * a + r /\ n = P * b + s /\ r \in 1..(P - 1) /\ s \in 0..(P - 1)
      /\ a \in Int /\ b \in Int
  BY Division
<1> HIDE DEF a, b, r, s
<1>2. a = b
  <2>1. CASE a < b
    <3>1. a + 1 <= b
      BY <1>1, <2>1
    <3>2. P * (a + 1) <= P * b /\ P * (a + 1) = P * a + P
      BY <1>1, <3>1
    <3> QED
      BY <1>1, <3>2
  <2>2. CASE b < a
    <3>1. b + 1 <= a
      BY <1>1, <2>2
    <3>2. P * (b + 1) <= P * a /\ P * (b + 1) = P * b + P
      BY <1>1, <3>1
    <3> QED
      BY <1>1, <3>2
  <2> QED
    BY <1>1, <2>1, <2>2
<1> DEFINE c == P * a
<1>3. c \in Int /\ n + 1 = c + r /\ n = c + s
  BY <1>1, <1>2
<1> HIDE DEF c
<1>4. r = s + 1
  BY <1>1, <1>3
<1> QED
  BY <1>4 DEF r, s

\* The events that a crash now would lose.
Lost == summary.events - Covered

\* An engine that has not been started has seen nothing, and nobody else writes.
WritersKnown ==
  /\ store.writer <= life
  /\ ~engine => summary = Nothing /\ pc = "idle"

\* Since the last multiple of PersistEvery nothing more has been lost than has
\* come in, unless the last write failed; within a step one event more.
LossBounded ==
  engine /\ phase \in {"Running", "Paused"} /\ PersistEvery > 0 =>
    /\ pc # "idle" => stats = summary /\ summary.events > 0
    /\ pc = "idle" /\ ~missed => Lost <= summary.events % PersistEvery
    /\ pc # "idle" /\ ~missed => Lost <= ((summary.events - 1) % PersistEvery) + 1

LossInv == PaperInv /\ WritersKnown /\ LossBounded

(***************************************************************************)
(* A successful write leaves nothing to lose.                              *)
(***************************************************************************)
LEMMA WrittenIsCovered ==
  ASSUME PaperInv, WritersKnown, NEW ok \in BOOLEAN, Write(ok), UNCHANGED <<life, summary>>
  PROVE  /\ store'.writer <= life'
         /\ ok => Lost' = 0
         /\ missed' = ~ok
<1>1. /\ store' = store \/ store'.writer = life
      /\ ok => store'.writer = life /\ store'.covers = summary.events
  BY WriteFacts DEF PaperInv
<1>2. life \in Nat /\ summary.events \in Nat
  BY DEF PaperInv, PaperTypeOK, Counters
<1>3. store'.writer <= life'
  BY <1>1, <1>2 DEF WritersKnown
<1>4. ok => Lost' = 0
  BY <1>1, <1>2 DEF Lost, Covered
<1> QED
  BY <1>3, <1>4 DEF Write

(***************************************************************************)
(* The loss stays bounded in every step.                                   *)
(***************************************************************************)
LEMMA LossInvHolds == PaperSpec => []LossInv
<1>1. PaperInit => WritersKnown /\ LossBounded
  BY DEF PaperInit, NoState, WritersKnown, LossBounded
<1>2. ASSUME PaperInv, PaperInv', WritersKnown, LossBounded, [PaperNext]_paperVars
      PROVE  WritersKnown' /\ LossBounded'
  <2>1. /\ summary.events \in Nat /\ summary'.events \in Nat /\ life \in Nat
        /\ store.writer \in Nat /\ store.covers \in Nat
        /\ store'.writer \in Nat /\ store'.covers \in Nat
        /\ engine \in BOOLEAN /\ missed \in BOOLEAN /\ PersistEvery \in Nat
    BY <1>2, CountsAreNatural DEF PaperInv, PaperTypeOK, Counters, States
  <2>2. Lost \in Int /\ Lost' \in Int /\ Lost <= summary.events
    BY <2>1 DEF Lost, Covered
  <2>3. PersistEvery > 0 => \A n \in Nat : n % PersistEvery \in Nat
    BY <2>1, Division
  \* Steps that leave what was lost as it was.
  <2>4. ASSUME UNCHANGED <<summary, stats, store, missed, life, engine, pc>>,
               phase' \in {"Running", "Paused"} => phase \in {"Running", "Paused"} \/ ~engine
        PROVE  WritersKnown' /\ LossBounded'
    BY <1>2, <2>1, <2>4 DEF WritersKnown, LossBounded, Lost, Covered
  <2>5. CASE StartRefused \/ Pause \/ Resume \/ RequestStop \/ StepFails \/ FinishFails
    <3>1. /\ UNCHANGED <<summary, stats, store, missed, life, engine, pc>>
          /\ phase' \in {"Running", "Paused"} => phase \in {"Running", "Paused"} \/ ~engine
      BY <1>2, <2>5 DEF StartRefused, Pause, Resume, RequestStop, StepFails, FinishFails, countVars,
                        writeVars, lifeVars, PaperInv, Recovered, PaperTypeOK, Phases, Terminal
    <3> QED
      BY <2>4, <3>1
  <2>6. CASE Start
    <3>1. /\ UNCHANGED <<summary, store, missed, life, pc>> /\ engine' = TRUE /\ ~engine
      BY <1>2, <2>6 DEF Start, lifeVars, PaperInv, Recovered, PaperTypeOK
    <3>2. summary.events = 0 /\ summary'.events = 0
      BY <1>2, <3>1 DEF WritersKnown, Nothing
    <3>3. Lost' <= 0
      BY <2>1, <3>1, <3>2 DEF Lost, Covered
    <3>4. pc' = "idle"
      BY <1>2, <3>1 DEF WritersKnown
    <3> QED
      BY <1>2, <2>1, <2>2, <2>3, <3>1, <3>2, <3>3, <3>4 DEF WritersKnown, LossBounded
  <2>7. CASE StepEngine
    <3>1. /\ pc = "idle" /\ pc' = "dated" /\ engine /\ engine' = engine /\ phase' = phase
          /\ summary'.events = summary.events + 1 /\ stats' = summary'
          /\ UNCHANGED <<store, missed, life>>
          /\ phase \in {"Running", "Paused"}
      BY <2>7 DEF StepEngine, processVars, writeVars, lifeVars
    <3>2. Lost' = Lost + 1
      BY <2>1, <3>1 DEF Lost, Covered
    <3>3. summary'.events - 1 = summary.events
      BY <2>1, <3>1
    <3> QED
      BY <1>2, <2>1, <2>2, <2>3, <3>1, <3>2, <3>3 DEF WritersKnown, LossBounded
  <2>8. CASE SameDay
    BY <1>2, <2>8 DEF SameDay, processVars, countVars, writeVars, lifeVars, WritersKnown, LossBounded,
                      Lost, Covered
  <2>9. CASE CloseDay
    <3>1. /\ UNCHANGED <<processVars, countVars, lifeVars>> /\ pc = "dated"
          /\ \E ok \in BOOLEAN : Write(ok) /\ pc' = IF ok THEN "counted" ELSE "idle"
      BY <2>9 DEF CloseDay
    <3>2. UNCHANGED <<summary, stats, life, engine, phase>>
      BY <3>1 DEF processVars, countVars, lifeVars
    <3>3. /\ store'.writer <= life'
          /\ (Lost' = 0 /\ pc' = "counted") \/ (missed' = TRUE /\ pc' = "idle")
      BY <1>2, <3>1, <3>2, WrittenIsCovered
    <3>4. PersistEvery > 0 /\ summary.events > 0 => (summary.events - 1) % PersistEvery \in Nat
      BY <2>1, <2>3
    <3> QED
      BY <1>2, <2>1, <2>2, <3>1, <3>2, <3>3, <3>4 DEF WritersKnown, LossBounded
  <2>10. CASE NotDue
    <3>1. /\ UNCHANGED <<summary, stats, store, missed, life, engine, phase>>
          /\ pc = "counted" /\ pc' = "idle" /\ ~Due
      BY <2>10 DEF NotDue, processVars, countVars, writeVars, lifeVars
    <3>2. Lost' = Lost
      BY <3>1 DEF Lost, Covered
    <3>3. ASSUME engine, phase \in {"Running", "Paused"}, PersistEvery > 0, ~missed
          PROVE  Lost <= summary.events % PersistEvery
      <4>1. /\ stats = summary /\ summary.events > 0
            /\ Lost <= ((summary.events - 1) % PersistEvery) + 1
        BY <1>2, <3>1, <3>3 DEF LossBounded
      <4>2. summary.events % PersistEvery # 0
        BY <3>1, <3>3, <4>1 DEF Due
      <4> DEFINE n == summary.events - 1
      <4>3. n \in Nat /\ summary.events = n + 1
        BY <2>1, <4>1
      <4>5. Lost <= (n % PersistEvery) + 1
        BY <4>1 DEF n
      <4> HIDE DEF n
      <4>6. (n + 1) % PersistEvery # 0
        BY <4>2, <4>3
      <4>7. PersistEvery \in Nat \ {0}
        BY <2>1, <3>3
      <4>4. (n + 1) % PersistEvery = (n % PersistEvery) + 1
        BY <4>3, <4>6, <4>7, RemainderGrows
      <4> QED
        BY <4>3, <4>4, <4>5
    <3> QED
      BY <1>2, <3>1, <3>2, <3>3 DEF WritersKnown, LossBounded
  <2>11. CASE PeriodicPersist \/ Persist \/ Shutdown
    <3>1. /\ \E ok \in BOOLEAN : Write(ok)
          /\ UNCHANGED <<summary, stats, life, engine>> /\ pc' = "idle"
          /\ phase' \in {phase, "Stopped", "Failed"}
      BY <2>11 DEF PeriodicPersist, Persist, Shutdown, processVars, countVars, lifeVars
    <3>2. /\ store'.writer <= life'
          /\ missed' = TRUE \/ Lost' = 0
      BY <1>2, <3>1, WrittenIsCovered
    <3> QED
      BY <1>2, <2>1, <2>2, <2>3, <3>1, <3>2 DEF WritersKnown, LossBounded
  <2>12. CASE Restart
    BY <1>2, <2>1, <2>12 DEF Restart, WritersKnown, LossBounded
  <2>13. CASE Damage
    <3>1. /\ UNCHANGED <<summary, stats, missed, life, engine, pc, phase>>
          /\ store'.writer = store.writer /\ phase = "Created"
      BY <1>2, <2>13 DEF Damage, processVars, countVars, lifeVars, PaperInv, PaperTypeOK, States
    <3> QED
      BY <1>2, <3>1 DEF WritersKnown, LossBounded
  <2>14. CASE UNCHANGED paperVars
    BY <2>4, <2>14 DEF paperVars, processVars, countVars, writeVars, lifeVars
  <2> QED
    BY <1>2, <2>5, <2>6, <2>7, <2>8, <2>9, <2>10, <2>11, <2>12, <2>13, <2>14 DEF PaperNext
<1> QED
  BY <1>1, <1>2, StoreIsSound, PTL DEF LossInv, PaperSpec

(***************************************************************************)
(* LittleIsLost: between two calls of step() a crash loses fewer events    *)
(* than persist_every_events, unless the last write failed, whatever was   *)
(* written in between by hand or by the close of a day.                    *)
(***************************************************************************)
THEOREM CrashLosesLittle == PaperSpec => []LittleIsLost
<1>1. LossInv => LittleIsLost
  <2> SUFFICES ASSUME LossInv, engine, phase \in {"Running", "Paused"}, pc = "idle", ~missed,
                      PersistEvery > 0
               PROVE  summary.events - Covered < PersistEvery
    BY DEF LittleIsLost
  <2>1. /\ summary.events \in Nat /\ store.covers \in Nat /\ PersistEvery \in Nat \ {0}
    BY CountsAreNatural DEF LossInv, PaperInv, PaperTypeOK, Counters, States
  <2>2. summary.events - Covered \in Int
    BY <2>1 DEF Covered
  <2>3. summary.events % PersistEvery \in 0..(PersistEvery - 1)
    <3> DEFINE n == summary.events
    <3>1. n \in Int
      BY <2>1
    <3> HIDE DEF n
    <3>2. n % PersistEvery \in 0..(PersistEvery - 1)
      BY <2>1, <3>1, Division
    <3> QED
      BY <3>2 DEF n
  <2>4. summary.events - Covered <= summary.events % PersistEvery
    BY DEF LossInv, LossBounded, Lost
  <2> QED
    BY <2>1, <2>2, <2>3, <2>4
<1> QED
  BY <1>1, LossInvHolds, PTL

-----------------------------------------------------------------------------
(***************************************************************************)
(* HostInbox.  The outcomes kept, followed by the requests that wait, are  *)
(* one run of request numbers up to the next one to be given out.  Of a    *)
(* flatten, every order it found working is finished or has its cancel     *)
(* waiting, and the position is what other orders have traded since, less  *)
(* what its closing order still has to trade.                              *)
(***************************************************************************)

Orders == [rid: Nat, kind: {"order"}, side: {1, -1}, qty: Nat \ {0}]
Cancels == [rid: Nat, kind: {"cancel"}, id: Nat]
Requests == Orders \cup Cancels
Outcomes == [rid: Nat, id: Nat, accepted: BOOLEAN]
Placed == [side: {1, -1}, left: Nat, cancelled: BOOLEAN]

HostTypeOK ==
  /\ nextRequest \in Nat \ {0} /\ holding \in Int
  /\ inbox \in Seq(Requests) /\ outcomes \in Seq(Outcomes) /\ placed \in Seq(Placed)
  /\ flattened \in [requests: SUBSET Nat, closing: Nat, working: SUBSET Nat, order: Nat, owed: Int]

\* Outcomes, then waiting requests, numbered up to nextRequest.
FirstKept == nextRequest - Len(inbox) - Len(outcomes)

Numbered ==
  /\ FirstKept >= 1 /\ Len(outcomes) <= KeptOutcomes
  /\ FirstKept > 1 => Len(outcomes) = KeptOutcomes
  /\ \A i \in DOMAIN outcomes : outcomes[i].rid = FirstKept + i - 1
  /\ \A i \in DOMAIN inbox : inbox[i].rid = nextRequest - Len(inbox) + i - 1

\* What flatten has asked for is waiting or done.
FlattenOnItsWay ==
  /\ flattened.working \subseteq DOMAIN placed /\ flattened.order <= Len(placed)
  /\ flattened.closing < nextRequest
  /\ \A id \in flattened.working : placed[id].left > 0 =>
       \E i \in DOMAIN inbox :
         inbox[i].kind = "cancel" /\ inbox[i].id = id /\ inbox[i].rid \in flattened.requests
  /\ \A i \in DOMAIN inbox : inbox[i].rid = flattened.closing =>
       /\ inbox[i].kind = "order" /\ flattened.order = 0
       /\ holding = flattened.owed - inbox[i].side * inbox[i].qty
  /\ flattened.order # 0 /\ ~placed[flattened.order].cancelled =>
       holding = flattened.owed - placed[flattened.order].side * placed[flattened.order].left

HostInv == HostTypeOK /\ Numbered /\ FlattenOnItsWay

-----------------------------------------------------------------------------
(* The ascending enumeration of a set of numbers. *)
IsAscending(s, ids) ==
  /\ s \in [1..Cardinality(ids) -> ids]
  /\ \A i, j \in DOMAIN s : i < j => s[i] < s[j]

(***************************************************************************)
(* A set of numbers can be listed in ascending order (induction on its     *)
(* bound).                                                                 *)
(***************************************************************************)
LEMMA AscendingExists ==
  ASSUME NEW N \in Nat, NEW ids \in SUBSET (1..N)
  PROVE  /\ IsFiniteSet(ids) /\ Cardinality(ids) \in Nat
         /\ \E s : IsAscending(s, ids) /\ \A x \in ids : \E i \in DOMAIN s : s[i] = x
<1> DEFINE Upto(n) == ids \cap (1..n)
           Fine(s, x) == IsAscending(s, x) /\ \A y \in x : \E i \in DOMAIN s : s[i] = y
           P == {n \in Nat : \E s : Fine(s, Upto(n))}
<1>1. \A n \in Nat : IsFiniteSet(Upto(n)) /\ Cardinality(Upto(n)) \in Nat /\ n + 1 \notin Upto(n)
  <2> TAKE n \in Nat
  <2>1. IsFiniteSet(1..n) /\ Upto(n) \subseteq 1..n
    BY FS_Interval, 1 \in Int
  <2> QED
    BY <2>1, FS_Subset, FS_CardinalityType
<1>2. 0 \in P
  <2>1. Upto(0) = {} /\ Cardinality({}) = 0
    BY FS_EmptySet
  <2>2. Fine(<<>>, {})
    BY <2>1 DEF IsAscending
  <2> QED
    BY <2>1, <2>2
<1>3. ASSUME NEW n \in Nat, n \in P PROVE n + 1 \in P
  <2>1. PICK s : Fine(s, Upto(n))
    BY <1>3
  <2>2. CASE n + 1 \notin ids
    <3>1. Upto(n + 1) = Upto(n)
      BY <2>2
    <3> QED
      BY <2>1, <3>1
  <2>3. CASE n + 1 \in ids
    <3> DEFINE old == Upto(n)
               len == Cardinality(old)
               new == old \cup {n + 1}
               t == [i \in 1..(len + 1) |-> IF i = len + 1 THEN n + 1 ELSE s[i]]
    <3>1. Upto(n + 1) = new
      BY <2>3
    <3>2. /\ IsFiniteSet(old) /\ len \in Nat /\ n + 1 \notin old
          /\ \A x \in old : x \in Int /\ x <= n
      BY <1>1
    <3>3. /\ s \in [1..len -> old] /\ \A i, j \in 1..len : i < j => s[i] < s[j]
          /\ \A y \in old : \E i \in 1..len : s[i] = y
      BY <2>1 DEF IsAscending
    <3>4. Cardinality(new) = len + 1
      <4> HIDE DEF old
      <4> QED
        BY <3>2, FS_AddElement
    <3> HIDE DEF old, len
    <3>5. t \in [1..(len + 1) -> new]
      BY <3>2, <3>3
    <3>6. \A i, j \in 1..(len + 1) : i < j => t[i] < t[j]
      <4> SUFFICES ASSUME NEW i \in 1..(len + 1), NEW j \in 1..(len + 1), i < j PROVE t[i] < t[j]
        OBVIOUS
      <4>1. i \in 1..len /\ t[i] = s[i] /\ s[i] \in old
        BY <3>2, <3>3
      <4>2. CASE j = len + 1
        BY <3>2, <4>1, <4>2
      <4>3. CASE j # len + 1
        <5>1. j \in 1..len /\ t[j] = s[j]
          BY <3>2, <4>3
        <5> QED
          BY <3>3, <4>1, <5>1
      <4> QED
        BY <4>2, <4>3
    <3>7. \A y \in new : \E i \in 1..(len + 1) : t[i] = y
      <4> TAKE y \in new
      <4>1. CASE y = n + 1
        <5>1. len + 1 \in 1..(len + 1) /\ t[len + 1] = n + 1
          BY <3>2
        <5> QED
          BY <4>1, <5>1
      <4>2. CASE y \in old
        <5>1. PICK i \in 1..len : s[i] = y
          BY <3>3, <4>2
        <5>2. i \in 1..(len + 1) /\ t[i] = s[i]
          BY <3>2, <5>1
        <5> QED
          BY <5>1, <5>2
      <4> QED
        BY <4>1, <4>2
    <3>8. DOMAIN t = 1..(len + 1)
      OBVIOUS
    <3> HIDE DEF t, new
    <3>9. Fine(t, new)
      BY <3>4, <3>5, <3>6, <3>7, <3>8 DEF IsAscending
    <3>10. \E u : Fine(u, Upto(n + 1))
      <4> HIDE DEF Fine, Upto
      <4> QED
        BY <3>1, <3>9
    <3> HIDE DEF Fine, Upto
    <3> QED
      BY <3>10
  <2> QED
    BY <2>2, <2>3
<1>4. N \in P
  <2> HIDE DEF P
  <2> QED
    BY <1>2, <1>3, NaturalInduction
<1>5. Upto(N) = ids
  OBVIOUS
<1> QED
  BY <1>1, <1>4, <1>5

(***************************************************************************)
(* So the list the requests are numbered by exists, and names every member *)
(* of the set.                                                             *)
(***************************************************************************)
LEMMA AscendingLists ==
  ASSUME NEW N \in Nat, NEW ids \in SUBSET (1..N)
  PROVE  /\ Cardinality(ids) \in Nat /\ (Cardinality(ids) = 0 <=> ids = {})
         /\ Ascending(ids) \in [1..Cardinality(ids) -> ids]
         /\ \A x \in ids : \E i \in 1..Cardinality(ids) : Ascending(ids)[i] = x
<1> DEFINE n == Cardinality(ids)
           B == Bijection(1..n, ids)
<1>1. PICK s : IsAscending(s, ids) /\ \A x \in ids : \E i \in DOMAIN s : s[i] = x
  BY AscendingExists
<1>2. IsFiniteSet(ids) /\ n \in Nat
  BY AscendingExists
<1>3. \A i, j \in 1..n : i # j => s[i] # s[j]
  <2> SUFFICES ASSUME NEW i \in 1..n, NEW j \in 1..n, i # j, s[i] = s[j] PROVE FALSE
    OBVIOUS
  <2>1. s \in [1..n -> ids] /\ DOMAIN s = 1..n
    BY <1>1 DEF IsAscending
  <2>3. s[i] \in 1..N /\ s[j] \in 1..N
    BY <2>1
  <2>2. i < j \/ j < i
    BY <1>2
  <2> QED
    BY <1>1, <2>1, <2>2, <2>3 DEF IsAscending
<1> HIDE DEF n
<1>4. s \in B /\ \A i, j \in DOMAIN s : i < j => s[i] < s[j]
  <2>1. s \in [1..n -> ids] /\ DOMAIN s = 1..n
    BY <1>1 DEF IsAscending, n
  <2>2. IsInjective(s)
    BY <1>3, <2>1 DEF IsInjective
  <2> QED
    BY <1>1, <2>1, <2>2 DEF IsAscending, Bijection, Injection, Surjection
<1>5. Ascending(ids) \in B
  <2>1. Ascending(ids) = CHOOSE a \in B : \A i, j \in DOMAIN a : i < j => a[i] < a[j]
    BY DEF Ascending, n
  <2> HIDE DEF B
  <2> QED
    BY <1>4, <2>1
<1> QED
  BY <1>2, <1>5, FS_EmptySet DEF n, Bijection, Injection, Surjection

-----------------------------------------------------------------------------
(***************************************************************************)
(* The fields of a request, by its kind.                                   *)
(***************************************************************************)
LEMMA RequestFields ==
  ASSUME NEW r \in Requests
  PROVE  r.rid \in Nat /\ r.kind \in {"order", "cancel"}
         /\ (r.kind = "order" => r.side \in {1, -1} /\ r.qty \in Nat \ {0})
         /\ (r.kind = "cancel" => r.id \in Nat)
BY DEF Requests, Orders, Cancels

(* Every way of queueing numbers its requests on. *)
Consecutive(requests) ==
  requests \in Seq(Requests) /\ \A i \in DOMAIN requests : requests[i].rid = nextRequest + i - 1

(***************************************************************************)
(* Every way of queueing numbers its requests on from the next number,     *)
(* which keeps the run of numbers whole and leaves what already waits      *)
(* where it was.                                                           *)
(***************************************************************************)
LEMMA QueueingKeepsNumbers ==
  ASSUME HostInv, NEW requests, Consecutive(requests), Enqueue(requests)
  PROVE  /\ Numbered' /\ nextRequest' \in Nat \ {0} /\ inbox' \in Seq(Requests)
         /\ nextRequest' >= nextRequest
         /\ UNCHANGED <<outcomes, placed, holding>>
         /\ Len(inbox') = Len(inbox) + Len(requests)
         /\ \A i \in DOMAIN inbox : i \in DOMAIN inbox' /\ inbox'[i] = inbox[i]
         /\ \A i \in DOMAIN requests : Len(inbox) + i \in DOMAIN inbox'
                                       /\ inbox'[Len(inbox) + i] = requests[i]
         /\ \A i \in DOMAIN inbox' : \/ i \in DOMAIN inbox
                                     \/ i - Len(inbox) \in DOMAIN requests
                                        /\ inbox'[i] = requests[i - Len(inbox)]
<1> DEFINE n == Len(inbox)
           k == Len(requests)
<1>1. /\ inbox \in Seq(Requests) /\ requests \in Seq(Requests) /\ nextRequest \in Nat \ {0}
      /\ inbox' = inbox \o requests /\ nextRequest' = nextRequest + k
      /\ UNCHANGED <<outcomes, placed, holding>>
      /\ outcomes \in Seq(Outcomes)
  BY DEF HostInv, HostTypeOK, Consecutive, Enqueue
<1>2. /\ inbox' \in Seq(Requests) /\ Len(inbox') = n + k /\ n \in Nat /\ k \in Nat
      /\ DOMAIN inbox = 1..n /\ DOMAIN requests = 1..k /\ DOMAIN inbox' = 1..(n + k)
      /\ \A i \in 1..(n + k) : inbox'[i] = IF i <= n THEN inbox[i] ELSE requests[i - n]
  <2>1. n \in Nat /\ k \in Nat /\ DOMAIN inbox = 1..n /\ DOMAIN requests = 1..k
    BY <1>1
  <2>2. /\ inbox' \in Seq(Requests) /\ Len(inbox') = n + k
        /\ \A i \in 1..(n + k) : inbox'[i] = IF i <= n THEN inbox[i] ELSE requests[i - n]
    BY <1>1, ConcatProperties
  <2>3. DOMAIN inbox' = 1..(n + k)
    BY <2>2
  <2> QED
    BY <2>1, <2>2, <2>3
<1>3. Len(outcomes) \in Nat
  BY <1>1
<1> HIDE DEF n, k
<1>4. \A i \in DOMAIN inbox : i \in DOMAIN inbox' /\ inbox'[i] = inbox[i]
  BY <1>2
<1>5. \A i \in DOMAIN requests : n + i \in DOMAIN inbox' /\ inbox'[n + i] = requests[i]
  <2> TAKE i \in DOMAIN requests
  <2>1. n + i \in 1..(n + k) /\ ~(n + i <= n) /\ (n + i) - n = i
    BY <1>2
  <2> QED
    BY <1>2, <2>1
<1>6. \A i \in DOMAIN inbox' : i \in DOMAIN inbox
                               \/ (i - n \in DOMAIN requests /\ inbox'[i] = requests[i - n])
  <2> TAKE i \in DOMAIN inbox'
  <2>1. i \in 1..(n + k) /\ inbox'[i] = IF i <= n THEN inbox[i] ELSE requests[i - n]
    BY <1>2
  <2>2. CASE i <= n
    <3>1. i \in 1..n
      BY <1>2, <2>1, <2>2
    <3> QED
      BY <1>2, <3>1
  <2>3. CASE ~(i <= n)
    <3>1. i - n \in 1..k /\ inbox'[i] = requests[i - n]
      BY <1>2, <2>1, <2>3
    <3> QED
      BY <1>2, <3>1
  <2> QED
    BY <2>2, <2>3
<1>7. \A i \in DOMAIN inbox' : inbox'[i].rid = nextRequest' - (n + k) + i - 1
  <2> TAKE i \in DOMAIN inbox'
  <2>1. CASE i \in DOMAIN inbox
    <3>1. inbox'[i] = inbox[i] /\ inbox[i].rid = nextRequest - n + i - 1
      BY <1>4, <2>1 DEF HostInv, Numbered, n
    <3> QED
      BY <1>1, <1>2, <2>1, <3>1
  <2>2. CASE i - n \in DOMAIN requests /\ inbox'[i] = requests[i - n]
    <3>1. requests[i - n].rid = nextRequest + (i - n) - 1
      BY <2>2 DEF Consecutive
    <3> QED
      BY <1>1, <1>2, <2>2, <3>1
  <2> QED
    BY <1>6, <2>1, <2>2
<1>8. nextRequest' - Len(inbox') = nextRequest - n
  BY <1>1, <1>2
<1>9. Numbered'
  <2>1. FirstKept' = FirstKept
    BY <1>1, <1>8 DEF n, FirstKept
  <2>2. \A i \in DOMAIN inbox' : inbox'[i].rid = nextRequest' - Len(inbox') + i - 1
    BY <1>2, <1>7
  <2> QED
    BY <1>1, <2>1, <2>2 DEF HostInv, Numbered
<1>10. nextRequest' \in Nat \ {0} /\ nextRequest' >= nextRequest
  BY <1>1, <1>2
<1> QED
  BY <1>1, <1>2, <1>4, <1>5, <1>6, <1>9, <1>10 DEF n, k

(* New requests have numbers of their own, so a flatten on its way stays so. *)
LEMMA QueueingKeepsFlatten ==
  ASSUME HostInv, NEW requests, Consecutive(requests), Enqueue(requests), flattened' = flattened
  PROVE  HostInv'
<1>1. /\ Numbered' /\ nextRequest' \in Nat \ {0} /\ inbox' \in Seq(Requests)
      /\ nextRequest' >= nextRequest
      /\ UNCHANGED <<outcomes, placed, holding>>
      /\ \A i \in DOMAIN inbox : i \in DOMAIN inbox' /\ inbox'[i] = inbox[i]
      /\ \A i \in DOMAIN inbox' : \/ i \in DOMAIN inbox
                                  \/ i - Len(inbox) \in DOMAIN requests
                                     /\ inbox'[i] = requests[i - Len(inbox)]
  BY QueueingKeepsNumbers
<1>2. HostTypeOK'
  BY <1>1 DEF HostInv, HostTypeOK
<1>3. flattened.closing \in Nat /\ nextRequest \in Nat /\ flattened.closing < nextRequest
  BY DEF HostInv, HostTypeOK, FlattenOnItsWay
<1>4. \A i \in DOMAIN inbox' : inbox'[i].rid = flattened.closing => i \in DOMAIN inbox
  <2> SUFFICES ASSUME NEW i \in DOMAIN inbox', i - Len(inbox) \in DOMAIN requests,
                      inbox'[i] = requests[i - Len(inbox)]
               PROVE  inbox'[i].rid # flattened.closing
    BY <1>1
  <2>1. i - Len(inbox) \in Nat \ {0}
    <3>1. DOMAIN requests = 1..Len(requests) /\ Len(requests) \in Nat
      BY DEF Consecutive
    <3> QED
      BY <3>1
  <2>2. inbox'[i].rid = nextRequest + (i - Len(inbox)) - 1
    BY DEF Consecutive
  <2> QED
    BY <1>3, <2>1, <2>2
<1>5. FlattenOnItsWay'
  <2>1. flattened.closing < nextRequest'
    BY <1>1, <1>3
  <2>2. \A id \in flattened.working : placed[id].left > 0 =>
          \E i \in DOMAIN inbox' :
            inbox'[i].kind = "cancel" /\ inbox'[i].id = id /\ inbox'[i].rid \in flattened.requests
    BY <1>1 DEF HostInv, FlattenOnItsWay
  <2>3. \A i \in DOMAIN inbox' : inbox'[i].rid = flattened.closing =>
          /\ inbox'[i].kind = "order" /\ flattened.order = 0
          /\ holding = flattened.owed - inbox'[i].side * inbox'[i].qty
    BY <1>1, <1>4 DEF HostInv, FlattenOnItsWay
  <2> QED
    BY <1>1, <2>1, <2>2, <2>3 DEF HostInv, FlattenOnItsWay
<1> QED
  BY <1>1, <1>2, <1>5 DEF HostInv

(***************************************************************************)
(* The cancels made for the working orders are numbered on, and name every *)
(* one of them.                                                            *)
(***************************************************************************)
LEMMA WorkingListed ==
  ASSUME HostInv
  PROVE  /\ DOMAIN placed = 1..Len(placed) /\ Len(placed) \in Nat /\ Working \in SUBSET (1..Len(placed))
         /\ Consecutive(CancelsFor(Working)) /\ Len(CancelsFor(Working)) = Cardinality(Working)
         /\ \A id \in Working : \E i \in DOMAIN CancelsFor(Working) :
              CancelsFor(Working)[i].kind = "cancel" /\ CancelsFor(Working)[i].id = id
         /\ \A i \in DOMAIN CancelsFor(Working) : CancelsFor(Working)[i].kind = "cancel"
<1> DEFINE n == Cardinality(Working)
           a == Ascending(Working)
           requests == CancelsFor(Working)
<1>1. DOMAIN placed = 1..Len(placed) /\ Len(placed) \in Nat
  BY DEF HostInv, HostTypeOK
<1>2. Working \in SUBSET (1..Len(placed))
  BY <1>1 DEF Working
<1>3. n \in Nat /\ a \in [1..n -> Working] /\ \A x \in Working : \E i \in 1..n : a[i] = x
  BY <1>1, <1>2, AscendingLists
<1>4. requests = [i \in 1..n |-> CancelAs(nextRequest + i - 1, a[i])]
  BY DEF CancelsFor
<1>5. nextRequest \in Nat \ {0}
  BY DEF HostInv, HostTypeOK
<1> HIDE DEF n, a, requests
<1>6. \A i \in 1..n : /\ CancelAs(nextRequest + i - 1, a[i]) \in Requests
                      /\ CancelAs(nextRequest + i - 1, a[i]).rid = nextRequest + i - 1
                      /\ CancelAs(nextRequest + i - 1, a[i]).kind = "cancel"
                      /\ CancelAs(nextRequest + i - 1, a[i]).id = a[i]
  <2> TAKE i \in 1..n
  <2> DEFINE rid == nextRequest + i - 1
  <2>1. rid \in Nat /\ a[i] \in Nat
    <3>1. rid \in Nat
      BY <1>3, <1>5
    <3>2. a[i] \in 1..Len(placed)
      BY <1>2, <1>3
    <3> QED
      BY <1>1, <3>1, <3>2
  <2> HIDE DEF rid
  <2>2. CancelAs(rid, a[i]) \in Cancels /\ CancelAs(rid, a[i]).rid = rid
        /\ CancelAs(rid, a[i]).kind = "cancel" /\ CancelAs(rid, a[i]).id = a[i]
    BY <2>1 DEF CancelAs, Cancels
  <2> QED
    BY <2>2 DEF rid, Requests
<1>7. requests \in Seq(Requests) /\ Len(requests) = n /\ DOMAIN requests = 1..n
  <2>1. requests \in [1..n -> Requests]
    BY <1>4, <1>6
  <2> QED
    BY <1>3, <2>1
<1>8. Consecutive(requests)
  BY <1>4, <1>6, <1>7 DEF Consecutive
<1>9. \A id \in Working : \E i \in DOMAIN requests : requests[i].kind = "cancel" /\ requests[i].id = id
  BY <1>3, <1>4, <1>6, <1>7
<1>10. \A i \in DOMAIN requests : requests[i].kind = "cancel"
  BY <1>4, <1>6, <1>7
<1> QED
  BY <1>1, <1>2, <1>7, <1>8, <1>9, <1>10 DEF requests, n

(***************************************************************************)
(* Where in the inbox the request with a given number stands.              *)
(***************************************************************************)
LEMMA PlaceOfNumber ==
  ASSUME NEW next \in Nat, NEW a \in Nat, NEW b \in Nat, NEW i \in Int,
         next - a + i - 1 = next + b
  PROVE  i = a + b + 1
OBVIOUS

(***************************************************************************)
(* enqueue_flatten: a cancel waits for every order working, and the        *)
(* closing order asks for exactly what is held.                            *)
(***************************************************************************)
LEMMA StepEnqueueFlatten == ASSUME HostInv, EnqueueFlatten PROVE HostInv'
<1> DEFINE first == CancelsFor(Working)
           rid == nextRequest + Len(first)
           last == Closing(rid)
           requests == first \o last
           flat == [requests |-> {requests[i].rid : i \in 1..Len(requests)},
                    closing |-> IF holding = 0 THEN 0 ELSE requests[Len(requests)].rid,
                    working |-> Working, order |-> 0, owed |-> 0]
<1>1. Enqueue(requests) /\ flattened' = flat
  BY DEF EnqueueFlatten, CancelsFirst
<1>2. /\ DOMAIN placed = 1..Len(placed) /\ Len(placed) \in Nat /\ Working \in SUBSET (1..Len(placed))
      /\ Consecutive(first)
      /\ \A id \in Working : \E i \in DOMAIN first : first[i].kind = "cancel" /\ first[i].id = id
      /\ \A i \in DOMAIN first : first[i].kind = "cancel"
  BY WorkingListed
<1>3. /\ first \in Seq(Requests) /\ Len(first) \in Nat /\ rid \in Nat \ {0} /\ holding \in Int
      /\ DOMAIN first = 1..Len(first) /\ nextRequest \in Nat \ {0}
      /\ \A i \in DOMAIN first : first[i].rid = nextRequest + i - 1
  <2>1. first \in Seq(Requests) /\ nextRequest \in Nat \ {0} /\ holding \in Int
    BY <1>2 DEF HostInv, HostTypeOK, Consecutive
  <2> HIDE DEF first
  <2> QED
    BY <1>2, <2>1 DEF Consecutive
<1> DEFINE closing == [rid |-> rid, kind |-> "order", side |-> IF holding > 0 THEN -1 ELSE 1,
                       qty |-> IF holding > 0 THEN holding ELSE -holding]
<1> HIDE DEF first, rid
<1>4. last = IF holding = 0 THEN <<>> ELSE <<closing>>
  BY DEF Closing
<1>5. holding # 0 => /\ closing \in Requests /\ closing.rid = rid /\ closing.kind = "order"
                     /\ holding = -(closing.side * closing.qty)
  <2> SUFFICES ASSUME holding # 0
               PROVE  /\ closing \in Requests /\ closing.rid = rid /\ closing.kind = "order"
                      /\ holding = -(closing.side * closing.qty)
    OBVIOUS
  <2>1. closing \in Orders
    BY <1>3 DEF Orders
  <2>2. holding = -(closing.side * closing.qty)
    BY <1>3
  <2> QED
    BY <2>1, <2>2 DEF Requests
<1> HIDE DEF closing, last
<1>6. /\ requests \in Seq(Requests)
      /\ Len(requests) = Len(first) + (IF holding = 0 THEN 0 ELSE 1)
      /\ \A i \in DOMAIN first : i \in DOMAIN requests /\ requests[i] = first[i]
      /\ \A i \in DOMAIN requests : i \in DOMAIN first \/ (holding # 0 /\ i = Len(first) + 1)
      /\ holding # 0 => requests[Len(first) + 1] = closing
  <2>1. CASE holding = 0
    <3>1. last = <<>>
      BY <1>4, <2>1
    <3>2. requests = first
      BY <1>3, <3>1
    <3> QED
      BY <1>3, <2>1, <3>2
  <2>2. CASE holding # 0
    <3>1. last = <<closing>> /\ closing \in Requests
      BY <1>4, <1>5, <2>2
    <3>2. requests = Append(first, closing)
      BY <1>3, <3>1
    <3>3. /\ Append(first, closing) \in Seq(Requests) /\ Len(Append(first, closing)) = Len(first) + 1
          /\ DOMAIN Append(first, closing) = 1..(Len(first) + 1)
          /\ \A i \in 1..Len(first) : Append(first, closing)[i] = first[i]
          /\ Append(first, closing)[Len(first) + 1] = closing
      BY <1>3, <3>1
    <3> QED
      BY <1>3, <2>2, <3>2, <3>3
  <2> QED
    BY <2>1, <2>2
<1> HIDE DEF requests
<1>7. Consecutive(requests)
  <2> SUFFICES ASSUME NEW i \in DOMAIN requests PROVE requests[i].rid = nextRequest + i - 1
    BY <1>6 DEF Consecutive
  <2>1. CASE i \in DOMAIN first
    BY <1>3, <1>6, <2>1
  <2>2. CASE holding # 0 /\ i = Len(first) + 1
    BY <1>3, <1>5, <1>6, <2>2 DEF rid
  <2> QED
    BY <1>6, <2>1, <2>2
<1>8. /\ Numbered' /\ nextRequest' \in Nat \ {0} /\ inbox' \in Seq(Requests)
      /\ nextRequest' >= nextRequest
      /\ UNCHANGED <<outcomes, placed, holding>>
      /\ \A i \in DOMAIN inbox : i \in DOMAIN inbox' /\ inbox'[i] = inbox[i]
      /\ \A i \in DOMAIN requests : Len(inbox) + i \in DOMAIN inbox'
                                    /\ inbox'[Len(inbox) + i] = requests[i]
      /\ \A i \in DOMAIN inbox' : \/ i \in DOMAIN inbox
                                  \/ i - Len(inbox) \in DOMAIN requests
                                     /\ inbox'[i] = requests[i - Len(inbox)]
      /\ Len(inbox') = Len(inbox) + Len(requests)
  BY <1>1, <1>7, QueueingKeepsNumbers
<1>9. /\ Len(requests) \in Nat /\ DOMAIN requests = 1..Len(requests)
      /\ Len(inbox) \in Nat /\ DOMAIN inbox = 1..Len(inbox)
  BY <1>6 DEF HostInv, HostTypeOK
<1>10. /\ \A i \in DOMAIN requests : requests[i].rid \in flat.requests
       /\ flat.requests \subseteq Nat /\ flat.closing \in Nat
       /\ flat.closing = IF holding = 0 THEN 0 ELSE rid
       /\ flat.working = Working /\ flat.order = 0 /\ flat.owed = 0
  <2>1. \A i \in 1..Len(requests) : requests[i].rid \in Nat
    BY <1>6, <1>9, RequestFields
  <2>2. holding # 0 => requests[Len(requests)].rid = rid
    BY <1>3, <1>5, <1>6
  <2> QED
    BY <1>3, <1>9, <2>1, <2>2
<1>11. flat \in [requests: SUBSET Nat, closing: Nat, working: SUBSET Nat, order: Nat, owed: Int]
  <2>1. Working \in SUBSET Nat
    BY <1>2
  <2> QED
    BY <1>10, <2>1
<1> HIDE DEF flat
<1>12. HostTypeOK'
  BY <1>1, <1>8, <1>11 DEF HostInv, HostTypeOK
<1>13. flat.closing < nextRequest'
  <2>1. nextRequest' = nextRequest + Len(requests)
    BY <1>1 DEF Enqueue
  <2> QED
    BY <1>3, <1>6, <1>10, <2>1 DEF rid
<1>14. \A id \in flat.working : placed[id].left > 0 =>
         \E i \in DOMAIN inbox' :
           inbox'[i].kind = "cancel" /\ inbox'[i].id = id /\ inbox'[i].rid \in flat.requests
  <2> SUFFICES ASSUME NEW id \in Working
               PROVE  \E i \in DOMAIN inbox' :
                        inbox'[i].kind = "cancel" /\ inbox'[i].id = id /\ inbox'[i].rid \in flat.requests
    BY <1>10
  <2>1. PICK j \in DOMAIN first : first[j].kind = "cancel" /\ first[j].id = id
    BY <1>2
  <2>2. j \in DOMAIN requests /\ requests[j] = first[j] /\ requests[j].rid \in flat.requests
    BY <1>6, <1>10, <2>1
  <2> QED
    BY <1>8, <2>1, <2>2
<1>15. \A i \in DOMAIN inbox' : inbox'[i].rid = flat.closing =>
         /\ inbox'[i].kind = "order" /\ flat.order = 0
         /\ holding = flat.owed - inbox'[i].side * inbox'[i].qty
  <2> SUFFICES ASSUME NEW i \in DOMAIN inbox', inbox'[i].rid = flat.closing
               PROVE  /\ inbox'[i].kind = "order"
                      /\ holding = 0 - inbox'[i].side * inbox'[i].qty
    BY <1>10
  <2>1. i \in 1..(Len(inbox) + Len(requests)) /\ i \in Int
    BY <1>8, <1>9
  <2>2. inbox'[i].rid = nextRequest' - Len(inbox') + i - 1
    BY <1>8 DEF Numbered
  <2>3. nextRequest' = nextRequest + Len(requests) /\ nextRequest \in Nat \ {0}
    BY <1>1, <1>3 DEF Enqueue
  <2>4. inbox'[i].rid = nextRequest - Len(inbox) + i - 1
    <3>1. Len(inbox') = Len(inbox) + Len(requests)
      BY <1>8
    <3> DEFINE a == Len(inbox)
               b == Len(requests)
    <3>2. a \in Nat /\ b \in Nat /\ i \in Int /\ nextRequest \in Nat
      BY <1>9, <2>1, <2>3
    <3>3. inbox'[i].rid = nextRequest + b - (a + b) + i - 1
      BY <2>2, <2>3, <3>1
    <3> HIDE DEF a, b
    <3>4. nextRequest + b - (a + b) + i - 1 = nextRequest - a + i - 1
      BY <3>2
    <3> QED
      BY <3>3, <3>4 DEF a
  <2>5. inbox'[i].rid # 0
    <3>1. nextRequest - Len(inbox) - Len(outcomes) >= 1 /\ Len(outcomes) \in Nat
      BY DEF HostInv, HostTypeOK, Numbered, FirstKept
    <3> QED
      BY <1>9, <2>1, <2>3, <2>4, <3>1
  <2>6. holding # 0 /\ inbox'[i].rid = rid
    <3>1. flat.closing # 0
      BY <2>5
    <3>2. holding # 0
      BY <1>10, <3>1
    <3>3. flat.closing = rid
      BY <1>10, <3>2
    <3> QED
      BY <3>2, <3>3
  <2>7. i = Len(inbox) + Len(first) + 1
    <3> DEFINE a == Len(inbox)
               b == Len(first)
    <3>1. a \in Nat /\ b \in Nat /\ i \in Int /\ nextRequest \in Nat
      BY <1>3, <1>9, <2>1, <2>3
    <3>2. nextRequest - a + i - 1 = nextRequest + b
      <4> DEFINE c == inbox'[i].rid
      <4>1. c = nextRequest - a + i - 1
        BY <2>4
      <4>2. c = nextRequest + b
        BY <2>6 DEF rid
      <4> HIDE DEF a, b, c
      <4> QED
        BY <4>1, <4>2
    <3> HIDE DEF a, b
    <3>3. i = a + b + 1
      BY <3>1, <3>2, PlaceOfNumber
    <3> QED
      BY <3>3 DEF a, b
  <2>8. Len(first) + 1 \in DOMAIN requests /\ inbox'[i] = requests[Len(first) + 1]
    <3>1. Len(first) + 1 \in DOMAIN requests
      BY <1>3, <1>6, <1>9, <2>6
    <3>2. Len(inbox) + (Len(first) + 1) = i
      BY <1>3, <1>9, <2>7
    <3> QED
      BY <1>8, <3>1, <3>2
  <2>9. inbox'[i] = closing
    BY <1>6, <2>6, <2>8
  <2>10. closing.side * closing.qty \in Int /\ holding = -(closing.side * closing.qty)
    <3>1. closing \in Requests /\ closing.kind = "order"
      BY <1>5, <2>6
    <3> QED
      BY <1>5, <2>6, <3>1, RequestFields
  <2> DEFINE c == closing.side * closing.qty
  <2> HIDE DEF c
  <2>11. holding = 0 - c
    BY <2>10 DEF c
  <2> QED
    BY <1>5, <2>6, <2>9, <2>11 DEF c
<1>16. FlattenOnItsWay'
  <2>1. flat.working \subseteq DOMAIN placed /\ flat.order <= Len(placed) /\ flat.order = 0
    BY <1>2, <1>10
  <2> QED
    BY <1>1, <1>8, <1>13, <1>14, <1>15, <2>1 DEF FlattenOnItsWay
<1> QED
  BY <1>8, <1>12, <1>16 DEF HostInv

-----------------------------------------------------------------------------
(* Taking the first waiting request and recording its outcome. *)
LEMMA RecordedKeepsNumbers ==
  ASSUME HostInv, inbox # <<>>, inbox' = Tail(inbox), nextRequest' = nextRequest,
         NEW o \in Outcomes, o.rid = inbox[1].rid, outcomes' = Recorded(o)
  PROVE  /\ Numbered' /\ inbox' \in Seq(Requests) /\ outcomes' \in Seq(Outcomes)
         /\ inbox[1] \in Requests /\ 1 \in DOMAIN inbox
         /\ \A i \in DOMAIN inbox' : i + 1 \in DOMAIN inbox /\ inbox'[i] = inbox[i + 1]
                                     /\ i + 1 # 1
         /\ \A i \in DOMAIN inbox : i = 1 \/ (i - 1 \in DOMAIN inbox' /\ inbox'[i - 1] = inbox[i])
<1> DEFINE n == Len(inbox)
           k == Len(outcomes)
           all == Append(outcomes, o)
<1>1. /\ inbox \in Seq(Requests) /\ outcomes \in Seq(Outcomes) /\ nextRequest \in Nat \ {0}
      /\ KeptOutcomes \in Nat \ {0}
  BY HostBounds DEF HostInv, HostTypeOK
<1>2. /\ n \in Nat \ {0} /\ DOMAIN inbox = 1..n /\ inbox[1] \in Requests
      /\ inbox' \in Seq(Requests) /\ Len(inbox') = n - 1 /\ DOMAIN inbox' = 1..(n - 1)
      /\ \A i \in 1..(n - 1) : inbox'[i] = inbox[i + 1]
  BY <1>1
<1>3. /\ k \in Nat /\ DOMAIN outcomes = 1..k
      /\ all \in Seq(Outcomes) /\ Len(all) = k + 1 /\ DOMAIN all = 1..(k + 1)
      /\ all[k + 1] = o /\ \A i \in 1..k : all[i] = outcomes[i]
  BY <1>1
<1> HIDE DEF all
<1>4. /\ FirstKept = nextRequest - n - k /\ FirstKept \in Int
      /\ FirstKept >= 1 /\ k <= KeptOutcomes /\ (FirstKept > 1 => k = KeptOutcomes)
      /\ \A i \in 1..k : outcomes[i].rid = FirstKept + i - 1
      /\ \A i \in 1..n : inbox[i].rid = nextRequest - n + i - 1
  <2>1. FirstKept = nextRequest - n - k
    BY DEF FirstKept
  <2>2. /\ FirstKept >= 1 /\ k <= KeptOutcomes /\ (FirstKept > 1 => k = KeptOutcomes)
        /\ \A i \in DOMAIN outcomes : outcomes[i].rid = FirstKept + i - 1
        /\ \A i \in DOMAIN inbox : inbox[i].rid = nextRequest - n + i - 1
    BY DEF HostInv, Numbered
  <2> HIDE DEF n, k
  <2>3. FirstKept \in Int
    BY <1>1, <1>2, <1>3, <2>1
  <2> QED
    BY <1>2, <1>3, <2>1, <2>2, <2>3
<1>5. /\ outcomes' = IF Len(all) > KeptOutcomes THEN Tail(all) ELSE all
      /\ FirstKept' = nextRequest' - Len(inbox') - Len(outcomes')
  BY DEF Recorded, FirstKept, all
<1> DEFINE first == FirstKept
<1> HIDE DEF n, k, first
<1>4a. /\ first = nextRequest - n - k /\ first \in Int
       /\ first >= 1 /\ k <= KeptOutcomes /\ (first > 1 => k = KeptOutcomes)
       /\ \A i \in 1..k : outcomes[i].rid = first + i - 1
  BY <1>4 DEF first
<1>6. /\ \A i \in 1..(k + 1) : all[i].rid = first + i - 1
      /\ \A i \in 1..(n - 1) : inbox'[i].rid = nextRequest - (n - 1) + i - 1
  <2>0. inbox[1].rid = nextRequest - n + 1 - 1
    BY <1>2, <1>4
  <2>1. o.rid = first + (k + 1) - 1
    BY <1>1, <1>2, <1>3, <1>4a, <2>0
  <2>2. \A i \in 1..(k + 1) : all[i].rid = first + i - 1
    <3> TAKE i \in 1..(k + 1)
    <3>1. CASE i = k + 1
      BY <1>3, <2>1, <3>1
    <3>2. CASE i # k + 1
      <4>1. i \in 1..k
        BY <1>3, <3>2
      <4> QED
        BY <1>3, <1>4a, <4>1
    <3> QED
      BY <3>1, <3>2
  <2>3. \A i \in 1..(n - 1) : inbox'[i].rid = nextRequest - (n - 1) + i - 1
    <3> TAKE i \in 1..(n - 1)
    <3>1. i + 1 \in 1..n /\ inbox'[i] = inbox[i + 1]
      BY <1>2
    <3>2. inbox[i + 1].rid = nextRequest - n + (i + 1) - 1
      BY <1>4, <3>1
    <3> QED
      BY <1>1, <1>2, <3>1, <3>2
  <2> QED
    BY <2>2, <2>3
<1>6a. \A i \in DOMAIN inbox' : inbox'[i].rid = nextRequest' - Len(inbox') + i - 1
  BY <1>2, <1>6
<1>7. Numbered' /\ outcomes' \in Seq(Outcomes)
  <2>1. CASE k + 1 > KeptOutcomes
    <3>1. /\ outcomes' = Tail(all) /\ outcomes' \in Seq(Outcomes) /\ Len(outcomes') = k
          /\ DOMAIN outcomes' = 1..k /\ \A i \in 1..k : outcomes'[i] = all[i + 1]
      BY <1>3, <1>5, <2>1
    <3>2. k = KeptOutcomes
      BY <1>1, <1>3, <1>4a, <2>1
    <3>3. FirstKept' = first + 1 /\ first + 1 >= 1
      <4>1. FirstKept' = nextRequest - (n - 1) - k
        BY <1>2, <1>5, <3>1
      <4> QED
        BY <1>1, <1>2, <1>3, <1>4a, <4>1
    <3>4. \A i \in 1..k : outcomes'[i].rid = (first + 1) + i - 1
      <4> TAKE i \in 1..k
      <4>1. i + 1 \in 1..(k + 1) /\ outcomes'[i] = all[i + 1]
        BY <1>3, <3>1
      <4>2. all[i + 1].rid = first + (i + 1) - 1
        BY <1>6, <4>1
      <4> QED
        BY <1>3, <1>4a, <4>1, <4>2
    <3>5. \A i \in DOMAIN outcomes' : outcomes'[i].rid = FirstKept' + i - 1
      BY <3>1, <3>3, <3>4
    <3>6. Len(outcomes') <= KeptOutcomes /\ Len(outcomes') = KeptOutcomes
      BY <1>1, <3>1, <3>2
    <3>7. FirstKept' >= 1
      BY <3>3
    <3> QED
      BY <1>6a, <3>1, <3>5, <3>6, <3>7 DEF Numbered
  <2>2. CASE ~(k + 1 > KeptOutcomes)
    <3>1. outcomes' = all /\ Len(outcomes') = k + 1 /\ DOMAIN outcomes' = 1..(k + 1)
      BY <1>3, <1>5, <2>2
    <3>2. first = 1 /\ k + 1 <= KeptOutcomes
      BY <1>1, <1>3, <1>4a, <2>2
    <3>3. FirstKept' = 1
      <4>1. FirstKept' = nextRequest - (n - 1) - (k + 1)
        BY <1>2, <1>5, <3>1
      <4> QED
        BY <1>1, <1>2, <1>3, <1>4a, <3>2, <4>1
    <3>4. \A i \in DOMAIN outcomes' : outcomes'[i].rid = FirstKept' + i - 1
      BY <1>6, <3>1, <3>2, <3>3
    <3>5. FirstKept' >= 1 /\ ~(FirstKept' > 1) /\ Len(outcomes') <= KeptOutcomes
      BY <3>1, <3>2, <3>3
    <3> QED
      BY <1>3, <1>6a, <3>1, <3>4, <3>5 DEF Numbered
  <2> QED
    BY <2>1, <2>2
<1>8. \A i \in DOMAIN inbox : i = 1 \/ (i - 1 \in DOMAIN inbox' /\ inbox'[i - 1] = inbox[i])
  <2> SUFFICES ASSUME NEW i \in 1..n, i # 1 PROVE i - 1 \in 1..(n - 1) /\ inbox'[i - 1] = inbox[i]
    BY <1>2
  <2>1. i - 1 \in 1..(n - 1) /\ (i - 1) + 1 = i
    BY <1>2
  <2> QED
    BY <1>2, <2>1
<1>9. \A i \in DOMAIN inbox' : i + 1 \in DOMAIN inbox /\ inbox'[i] = inbox[i + 1] /\ i + 1 # 1
  BY <1>2
<1>10. 1 \in DOMAIN inbox
  BY <1>2
<1> QED
  BY <1>2, <1>7, <1>8, <1>9, <1>10

(* No two waiting requests share a number. *)
LEMMA NumbersDiffer ==
  ASSUME HostInv, NEW i \in DOMAIN inbox, NEW j \in DOMAIN inbox, inbox[i].rid = inbox[j].rid
  PROVE  i = j
<1>1. /\ inbox[i].rid = nextRequest - Len(inbox) + i - 1 /\ inbox[j].rid = nextRequest - Len(inbox) + j - 1
  BY DEF HostInv, Numbered
<1> DEFINE n == Len(inbox)
           a == inbox[i].rid
<1>2. nextRequest \in Int /\ n \in Int /\ i \in Int /\ j \in Int
  BY DEF HostInv, HostTypeOK
<1>3. a = nextRequest - n + i - 1 /\ a = nextRequest - n + j - 1
  BY <1>1
<1> HIDE DEF a, n
<1> QED
  BY <1>2, <1>3

(***************************************************************************)
(* A cancel is drained: its order is finished afterwards, as far as it was *)
(* working, so nothing depends on the request any more.                    *)
(***************************************************************************)
LEMMA StepDrainCancel ==
  ASSUME HostInv, inbox # <<>>, inbox' = Tail(inbox), UNCHANGED <<nextRequest, holding>>,
         inbox[1].kind = "cancel", DrainCancel(inbox[1])
  PROVE  HostInv'
<1> DEFINE r == inbox[1]
           o == [rid |-> r.rid, id |-> r.id, accepted |-> r.id \in Working]
<1>1. inbox \in Seq(Requests) /\ r \in Requests /\ 1 \in DOMAIN inbox
  BY DEF HostInv, HostTypeOK
<1>2. o \in Outcomes /\ o.rid = r.rid
  <2>1. r.rid \in Nat /\ r.id \in Nat
    BY <1>1, RequestFields
  <2> HIDE DEF r
  <2> QED
    BY <2>1 DEF Outcomes
<1>3. outcomes' = Recorded(o) /\ flattened' = flattened
  BY DEF DrainCancel
<1> HIDE DEF o
<1>4. /\ Numbered' /\ inbox' \in Seq(Requests) /\ outcomes' \in Seq(Outcomes)
      /\ \A i \in DOMAIN inbox' : i + 1 \in DOMAIN inbox /\ inbox'[i] = inbox[i + 1] /\ i + 1 # 1
      /\ \A i \in DOMAIN inbox : i = 1 \/ (i - 1 \in DOMAIN inbox' /\ inbox'[i - 1] = inbox[i])
  BY <1>2, <1>3, RecordedKeepsNumbers
<1>5. /\ placed \in Seq(Placed) /\ DOMAIN placed = 1..Len(placed) /\ Len(placed) \in Nat
      /\ \A id \in DOMAIN placed : placed[id] \in Placed
  <2>1. placed \in Seq(Placed)
    BY DEF HostInv, HostTypeOK
  <2> QED
    BY <2>1
<1>6. /\ placed' \in Seq(Placed) /\ DOMAIN placed' = DOMAIN placed /\ Len(placed') = Len(placed)
      /\ \A id \in DOMAIN placed :
           \/ placed'[id] = placed[id]
           \/ id = r.id /\ placed'[id].left = 0 /\ placed'[id].cancelled
      /\ r.id \in DOMAIN placed => placed'[r.id].left = 0
  <2>1. CASE r.id \in Working
    <3> DEFINE p == placed[r.id]
               q == [p EXCEPT !.left = 0, !.cancelled = TRUE]
    <3>1. r.id \in DOMAIN placed /\ p \in Placed
      BY <1>5, <2>1 DEF Working
    <3> HIDE DEF p
    <3>2. q \in Placed /\ q.left = 0 /\ q.cancelled
      BY <3>1 DEF Placed
    <3>3. placed' = [placed EXCEPT ![r.id] = q]
      BY <2>1 DEF DrainCancel, p
    <3> HIDE DEF q, r
    <3>4. DOMAIN placed' = DOMAIN placed /\ placed'[r.id] = q
          /\ \A id \in DOMAIN placed \ {r.id} : placed'[id] = placed[id]
      BY <1>5, <3>1, <3>3
    <3>5. placed' \in Seq(Placed) /\ Len(placed') = Len(placed)
      BY <1>5, <3>1, <3>2, <3>3
    <3> QED
      BY <3>2, <3>4, <3>5
  <2>2. CASE r.id \notin Working
    <3>1. placed' = placed
      BY <2>2 DEF DrainCancel
    <3>2. r.id \in DOMAIN placed => placed[r.id].left = 0
      <4> HIDE DEF r
      <4>1. r.id \in DOMAIN placed => placed[r.id].left \in Nat
        BY <1>5 DEF Placed
      <4> QED
        BY <2>2, <4>1 DEF Working
    <3> QED
      BY <1>5, <3>1, <3>2
  <2> QED
    BY <2>1, <2>2
<1>7. HostTypeOK'
  BY <1>3, <1>4, <1>6 DEF HostInv, HostTypeOK
<1>8. \A id \in flattened.working : placed'[id].left > 0 =>
        \E i \in DOMAIN inbox' :
          inbox'[i].kind = "cancel" /\ inbox'[i].id = id /\ inbox'[i].rid \in flattened.requests
  <2> SUFFICES ASSUME NEW id \in flattened.working, placed'[id].left > 0
               PROVE  \E i \in DOMAIN inbox' :
                        inbox'[i].kind = "cancel" /\ inbox'[i].id = id /\ inbox'[i].rid \in flattened.requests
    OBVIOUS
  <2>1. id \in DOMAIN placed
    BY DEF HostInv, FlattenOnItsWay
  <2>2. id # r.id /\ placed'[id] = placed[id]
    BY <1>6, <2>1
  <2>3. PICK i \in DOMAIN inbox :
          inbox[i].kind = "cancel" /\ inbox[i].id = id /\ inbox[i].rid \in flattened.requests
    BY <2>2 DEF HostInv, FlattenOnItsWay
  <2>4. i - 1 \in DOMAIN inbox' /\ inbox'[i - 1] = inbox[i]
    <3>1. i # 1
      <4>1. CASE i = 1
        <5>1. inbox[1].id = id /\ r.id # id
          BY <2>2, <2>3, <4>1
        <5> QED
          BY <5>1
      <4> QED
        BY <4>1
    <3> QED
      BY <1>4, <2>3, <3>1
  <2> QED
    BY <2>2, <2>3, <2>4
<1>9. \A i \in DOMAIN inbox' : inbox'[i].rid = flattened.closing =>
        /\ inbox'[i].kind = "order" /\ flattened.order = 0
        /\ holding = flattened.owed - inbox'[i].side * inbox'[i].qty
  BY <1>4 DEF HostInv, FlattenOnItsWay
<1>10. flattened.order # 0 /\ ~placed'[flattened.order].cancelled =>
         holding = flattened.owed - placed'[flattened.order].side * placed'[flattened.order].left
  <2> SUFFICES ASSUME flattened.order # 0, ~placed'[flattened.order].cancelled
               PROVE  holding = flattened.owed - placed'[flattened.order].side * placed'[flattened.order].left
    OBVIOUS
  <2>1. flattened.order \in DOMAIN placed
    BY <1>5 DEF HostInv, HostTypeOK, FlattenOnItsWay
  <2>2. placed'[flattened.order] = placed[flattened.order]
    BY <1>6, <2>1
  <2> QED
    BY <2>2 DEF HostInv, FlattenOnItsWay
<1> QED
  BY <1>3, <1>4, <1>6, <1>7, <1>8, <1>9, <1>10 DEF HostInv, FlattenOnItsWay

-----------------------------------------------------------------------------
(* Sending an order puts it behind those the OMS knows, which it leaves alone. *)
LEMMA PlacingLeavesTheRest ==
  ASSUME HostInv, NEW side \in {1, -1}, NEW qty \in Nat, NEW approved \in BOOLEAN,
         Place(side, qty, approved)
  PROVE  /\ placed' \in Seq(Placed) /\ Len(placed) \in Nat /\ Len(placed') = Len(placed) + 1
         /\ DOMAIN placed = 1..Len(placed) /\ DOMAIN placed' = 1..(Len(placed) + 1)
         /\ \A id \in DOMAIN placed : placed'[id] = placed[id]
         /\ placed'[Len(placed')].side = side
         /\ placed'[Len(placed')].left = (IF approved THEN qty ELSE 0)
<1> DEFINE p == [side |-> side, left |-> IF approved THEN qty ELSE 0, cancelled |-> FALSE]
<1>1. placed \in Seq(Placed) /\ placed' = Append(placed, p)
  BY DEF HostInv, HostTypeOK, Place
<1>2. p \in Placed /\ p.side = side /\ p.left = IF approved THEN qty ELSE 0
  <2> DEFINE left == IF approved THEN qty ELSE 0
             none == FALSE
  <2>1. left \in Nat /\ none \in BOOLEAN
    OBVIOUS
  <2> HIDE DEF left, none
  <2>2. [side |-> side, left |-> left, cancelled |-> none] \in Placed
    BY <2>1 DEF Placed
  <2> QED
    BY <2>2 DEF left, none
<1> HIDE DEF p
<1> QED
  BY <1>1, <1>2

(***************************************************************************)
(* A manual order is drained: it joins the orders of the OMS, and if it    *)
(* was the closing order of the flatten it takes over what that owed.      *)
(***************************************************************************)
LEMMA StepDrainOrder ==
  ASSUME HostInv, inbox # <<>>, inbox' = Tail(inbox), UNCHANGED <<nextRequest, holding>>,
         inbox[1].kind = "order", NEW approved \in BOOLEAN, DrainOrder(inbox[1], approved)
  PROVE  HostInv'
<1> DEFINE r == inbox[1]
           id == IF approved THEN Len(placed') ELSE 0
           o == [rid |-> r.rid, id |-> id, accepted |-> approved]
           flat == [flattened EXCEPT !.order = Len(placed')]
           hit == approved /\ r.rid = flattened.closing
<1>1. inbox \in Seq(Requests) /\ r \in Requests /\ 1 \in DOMAIN inbox
  BY DEF HostInv, HostTypeOK
<1>2. r.rid \in Nat /\ r.side \in {1, -1} /\ r.qty \in Nat \ {0}
  BY <1>1, RequestFields
<1>3. /\ Place(r.side, r.qty, approved) /\ outcomes' = Recorded(o)
      /\ flattened' = IF hit THEN flat ELSE flattened
  BY DEF DrainOrder
<1>4. /\ placed' \in Seq(Placed) /\ Len(placed) \in Nat /\ Len(placed') = Len(placed) + 1
      /\ DOMAIN placed = 1..Len(placed) /\ DOMAIN placed' = 1..(Len(placed) + 1)
      /\ \A i \in DOMAIN placed : placed'[i] = placed[i]
      /\ placed'[Len(placed')].side = r.side
      /\ placed'[Len(placed')].left = (IF approved THEN r.qty ELSE 0)
  <2>1. r.qty \in Nat
    BY <1>2
  <2> QED
    BY <1>2, <1>3, <2>1, PlacingLeavesTheRest
<1>5. o \in Outcomes /\ o.rid = r.rid
  <2>1. id \in Nat
    BY <1>4
  <2> HIDE DEF id, r
  <2> QED
    BY <1>2, <2>1 DEF Outcomes
<1> HIDE DEF o
<1>6. /\ Numbered' /\ inbox' \in Seq(Requests) /\ outcomes' \in Seq(Outcomes)
      /\ \A i \in DOMAIN inbox' : i + 1 \in DOMAIN inbox /\ inbox'[i] = inbox[i + 1] /\ i + 1 # 1
      /\ \A i \in DOMAIN inbox : i = 1 \/ (i - 1 \in DOMAIN inbox' /\ inbox'[i - 1] = inbox[i])
  BY <1>3, <1>5, RecordedKeepsNumbers
<1>7. /\ flattened \in [requests: SUBSET Nat, closing: Nat, working: SUBSET Nat, order: Nat, owed: Int]
      /\ flattened.order <= Len(placed) /\ flattened.order \in Nat
      /\ flattened.working \subseteq DOMAIN placed
  BY DEF HostInv, HostTypeOK, FlattenOnItsWay
<1>8. /\ flattened' \in [requests: SUBSET Nat, closing: Nat, working: SUBSET Nat, order: Nat, owed: Int]
      /\ flattened'.requests = flattened.requests /\ flattened'.closing = flattened.closing
      /\ flattened'.working = flattened.working /\ flattened'.owed = flattened.owed
      /\ flattened'.order = IF hit THEN Len(placed') ELSE flattened.order
  <2> DEFINE last == Len(placed')
  <2>1. last \in Nat
    BY <1>4
  <2> HIDE DEF last, hit
  <2>2. flattened' = IF hit THEN [flattened EXCEPT !.order = last] ELSE flattened
    BY <1>3 DEF last
  <2>3. CASE hit
    BY <1>7, <2>1, <2>2, <2>3 DEF last
  <2>4. CASE ~hit
    BY <1>7, <2>2, <2>4
  <2> QED
    BY <2>3, <2>4
<1>9. HostTypeOK'
  BY <1>4, <1>6, <1>8 DEF HostInv, HostTypeOK
<1>10. \A i \in flattened.working : placed'[i].left > 0 =>
         \E j \in DOMAIN inbox' :
           inbox'[j].kind = "cancel" /\ inbox'[j].id = i /\ inbox'[j].rid \in flattened.requests
  <2> SUFFICES ASSUME NEW i \in flattened.working, placed'[i].left > 0
               PROVE  \E j \in DOMAIN inbox' :
                        inbox'[j].kind = "cancel" /\ inbox'[j].id = i /\ inbox'[j].rid \in flattened.requests
    OBVIOUS
  <2>1. placed'[i] = placed[i]
    BY <1>4, <1>7
  <2>2. PICK j \in DOMAIN inbox :
          inbox[j].kind = "cancel" /\ inbox[j].id = i /\ inbox[j].rid \in flattened.requests
    BY <2>1 DEF HostInv, FlattenOnItsWay
  <2>3. j # 1
    BY <2>2
  <2>4. j - 1 \in DOMAIN inbox' /\ inbox'[j - 1] = inbox[j]
    BY <1>6, <2>3
  <2> QED
    BY <2>2, <2>4
<1>11. \A i \in DOMAIN inbox' : inbox'[i].rid = flattened.closing =>
         /\ inbox'[i].kind = "order" /\ flattened'.order = 0
         /\ holding = flattened.owed - inbox'[i].side * inbox'[i].qty
  <2> SUFFICES ASSUME NEW i \in DOMAIN inbox', inbox'[i].rid = flattened.closing
               PROVE  /\ inbox'[i].kind = "order" /\ flattened'.order = 0
                      /\ holding = flattened.owed - inbox'[i].side * inbox'[i].qty
    OBVIOUS
  <2>1. i + 1 \in DOMAIN inbox /\ inbox'[i] = inbox[i + 1] /\ i + 1 # 1
    BY <1>6
  <2>2. r.rid # flattened.closing
    BY <1>1, <2>1, NumbersDiffer
  <2> QED
    BY <1>8, <2>1, <2>2 DEF HostInv, FlattenOnItsWay
<1>12. flattened'.order <= Len(placed')
  BY <1>4, <1>7, <1>8
<1>13. flattened'.order # 0 /\ ~placed'[flattened'.order].cancelled =>
         holding = flattened.owed - placed'[flattened'.order].side * placed'[flattened'.order].left
  <2> SUFFICES ASSUME flattened'.order # 0, ~placed'[flattened'.order].cancelled
               PROVE  holding = flattened.owed - placed'[flattened'.order].side * placed'[flattened'.order].left
    OBVIOUS
  <2>1. CASE hit
    <3>1. holding = flattened.owed - r.side * r.qty
      BY <1>1, <2>1 DEF HostInv, FlattenOnItsWay
    <3>2. flattened'.order = Len(placed') /\ approved
      BY <1>8, <2>1
    <3>3. placed'[flattened'.order].side = r.side /\ placed'[flattened'.order].left = r.qty
      BY <1>4, <3>2
    <3> QED
      BY <3>1, <3>3
  <2>2. CASE ~hit
    <3>1. flattened'.order = flattened.order /\ flattened.order \in DOMAIN placed
      BY <1>4, <1>7, <1>8, <2>2
    <3>2. placed'[flattened'.order] = placed[flattened.order]
      BY <1>4, <3>1
    <3> QED
      BY <3>1, <3>2 DEF HostInv, FlattenOnItsWay
  <2> QED
    BY <2>1, <2>2
<1>14. flattened.working \subseteq DOMAIN placed' /\ flattened.closing < nextRequest'
  <2>1. flattened.closing < nextRequest'
    BY DEF HostInv, FlattenOnItsWay
  <2> QED
    BY <1>4, <1>7, <2>1
<1>15. FlattenOnItsWay'
  BY <1>8, <1>10, <1>11, <1>12, <1>13, <1>14 DEF FlattenOnItsWay
<1> QED
  BY <1>6, <1>9, <1>15 DEF HostInv

(***************************************************************************)
(* A fill of the closing order moves the position and its remainder        *)
(* together; any other fill moves the position and what is owed.           *)
(***************************************************************************)
LEMMA StepFillAtVenue ==
  ASSUME HostInv, NEW id \in Working, NEW q \in 1..placed[id].left, FillAtVenue(id, q)
  PROVE  HostInv'
<1> DEFINE p == placed[id]
           n == [p EXCEPT !.left = p.left - q]
           s == p.side * q
<1>1. /\ placed \in Seq(Placed) /\ holding \in Int /\ DOMAIN placed = 1..Len(placed)
      /\ Len(placed) \in Nat
      /\ flattened \in [requests: SUBSET Nat, closing: Nat, working: SUBSET Nat, order: Nat, owed: Int]
      /\ flattened.order <= Len(placed) /\ flattened.working \subseteq DOMAIN placed
  BY DEF HostInv, HostTypeOK, FlattenOnItsWay
<1>2. id \in DOMAIN placed /\ p \in Placed /\ id # 0
  BY <1>1 DEF Working
<1>3. p.side \in {1, -1} /\ p.left \in Nat /\ q \in Nat /\ q <= p.left
  <2>1. p.side \in {1, -1} /\ p.left \in Nat
    BY <1>2 DEF Placed
  <2> HIDE DEF p
  <2>2. q \in 1..p.left
    BY DEF p
  <2> QED
    BY <2>1, <2>2
<1>4. s \in Int /\ (p.side = 1 => s = q) /\ (p.side = -1 => s = -q)
  <2> HIDE DEF p
  <2> QED
    BY <1>3
<1>5. n \in Placed /\ n.left = p.left - q /\ n.side = p.side /\ n.cancelled = p.cancelled
  <2> DEFINE left == p.left - q
  <2> HIDE DEF p
  <2>1. left \in Nat
    BY <1>3
  <2> HIDE DEF left
  <2>2. [p EXCEPT !.left = left] \in Placed /\ [p EXCEPT !.left = left].left = left
        /\ [p EXCEPT !.left = left].side = p.side /\ [p EXCEPT !.left = left].cancelled = p.cancelled
    BY <1>2, <2>1 DEF Placed
  <2> QED
    BY <2>2 DEF left
<1>6. /\ placed' = [placed EXCEPT ![id] = n] /\ holding' = holding + s
      /\ flattened' = IF id # flattened.order THEN [flattened EXCEPT !.owed = flattened.owed + s]
                      ELSE flattened
      /\ UNCHANGED <<nextRequest, inbox, outcomes>>
  BY DEF FillAtVenue, OwedAfter
<1> HIDE DEF n, s, p
<1>7. /\ placed' \in Seq(Placed) /\ Len(placed') = Len(placed) /\ DOMAIN placed' = DOMAIN placed
      /\ placed'[id] = n /\ \A i \in DOMAIN placed \ {id} : placed'[i] = placed[i]
  BY <1>1, <1>2, <1>5, <1>6
<1>8. /\ flattened' \in [requests: SUBSET Nat, closing: Nat, working: SUBSET Nat, order: Nat, owed: Int]
      /\ flattened'.requests = flattened.requests /\ flattened'.closing = flattened.closing
      /\ flattened'.working = flattened.working /\ flattened'.order = flattened.order
      /\ flattened'.owed = IF id # flattened.order THEN flattened.owed + s ELSE flattened.owed
      /\ flattened.owed \in Int
  <2> DEFINE owed == flattened.owed + s
  <2>1. owed \in Int /\ flattened.owed \in Int
    BY <1>1, <1>4
  <2> HIDE DEF owed
  <2>2. flattened' = IF id # flattened.order THEN [flattened EXCEPT !.owed = owed] ELSE flattened
    BY <1>6 DEF owed
  <2>3. CASE id # flattened.order
    BY <1>1, <2>1, <2>2, <2>3 DEF owed
  <2>4. CASE id = flattened.order
    BY <1>1, <2>1, <2>2, <2>4
  <2> QED
    BY <2>3, <2>4
<1>9. HostTypeOK'
  <2>1. holding' \in Int
    BY <1>1, <1>4, <1>6
  <2> QED
    BY <1>6, <1>7, <1>8, <2>1 DEF HostInv, HostTypeOK
<1>10. Numbered'
  BY <1>6 DEF HostInv, Numbered, FirstKept
<1>11. \A i \in flattened.working : placed'[i].left > 0 =>
         \E j \in DOMAIN inbox :
           inbox[j].kind = "cancel" /\ inbox[j].id = i /\ inbox[j].rid \in flattened.requests
  <2> SUFFICES ASSUME NEW i \in flattened.working, placed'[i].left > 0 PROVE placed[i].left > 0
    BY DEF HostInv, FlattenOnItsWay
  <2>1. CASE i = id
    BY <2>1 DEF Working
  <2>2. CASE i # id
    BY <1>1, <1>7, <2>2
  <2> QED
    BY <2>1, <2>2
<1>12. \A i \in DOMAIN inbox : inbox[i].rid = flattened.closing =>
         /\ inbox[i].kind = "order" /\ flattened.order = 0
         /\ holding' = flattened'.owed - inbox[i].side * inbox[i].qty
  <2> SUFFICES ASSUME NEW i \in DOMAIN inbox, inbox[i].rid = flattened.closing
               PROVE  /\ inbox[i].kind = "order" /\ flattened.order = 0
                      /\ holding' = flattened'.owed - inbox[i].side * inbox[i].qty
    OBVIOUS
  <2> DEFINE c == inbox[i].side * inbox[i].qty
  <2>1. inbox[i].kind = "order" /\ flattened.order = 0 /\ holding = flattened.owed - c
    BY DEF HostInv, FlattenOnItsWay
  <2>2. c \in Int
    <3>1. inbox[i] \in Requests
      BY DEF HostInv, HostTypeOK
    <3> QED
      BY <2>1, <3>1, RequestFields
  <2>3. flattened'.owed = flattened.owed + s
    BY <1>2, <1>8, <2>1
  <2> HIDE DEF c
  <2>4. holding' = flattened'.owed - c
    BY <1>1, <1>4, <1>6, <1>8, <2>1, <2>2, <2>3
  <2> QED
    BY <2>1, <2>4 DEF c
<1>13. flattened.order # 0 /\ ~placed'[flattened.order].cancelled =>
         holding' = flattened'.owed - placed'[flattened.order].side * placed'[flattened.order].left
  <2> SUFFICES ASSUME flattened.order # 0, ~placed'[flattened.order].cancelled
               PROVE  holding' = flattened'.owed - placed'[flattened.order].side * placed'[flattened.order].left
    OBVIOUS
  <2>1. CASE id = flattened.order
    <3>1. placed'[flattened.order] = n /\ ~p.cancelled /\ flattened'.owed = flattened.owed
      BY <1>5, <1>7, <1>8, <2>1
    <3>2. holding = flattened.owed - p.side * p.left
      BY <2>1, <3>1 DEF HostInv, FlattenOnItsWay, p
    <3> DEFINE before == p.side * p.left
               after == n.side * n.left
    <3>3. before \in Int /\ after \in Int /\ after = before - s
      <4>1. n.side = p.side /\ n.left = p.left - q /\ n.left \in Int
        BY <1>3, <1>5
      <4>2. CASE p.side = 1
        <5>1. before = p.left /\ after = n.left /\ s = q
          BY <1>3, <1>4, <4>1, <4>2
        <5> QED
          BY <1>3, <4>1, <5>1
      <4>3. CASE p.side = -1
        <5>1. before = -p.left /\ after = -n.left /\ s = -q
          BY <1>3, <1>4, <4>1, <4>3
        <5> HIDE DEF before, after
        <5> QED
          BY <1>3, <4>1, <5>1
      <4> QED
        BY <1>3, <4>2, <4>3
    <3>4. placed'[flattened.order].side * placed'[flattened.order].left = after
      BY <3>1
    <3>5. holding = flattened.owed - before
      BY <3>2
    <3> HIDE DEF before, after
    <3> QED
      BY <1>1, <1>4, <1>6, <1>8, <3>1, <3>3, <3>4, <3>5
  <2>2. CASE id # flattened.order
    <3> DEFINE f == placed[flattened.order]
               c == f.side * f.left
    <3>1. flattened.order \in DOMAIN placed /\ placed'[flattened.order] = f
      BY <1>1, <1>7, <2>2
    <3>2. holding = flattened.owed - c
      BY <3>1 DEF HostInv, FlattenOnItsWay
    <3>3. c \in Int
      <4>1. f \in Placed
        BY <1>1, <3>1
      <4>2. f.side \in {1, -1} /\ f.left \in Nat
        BY <4>1 DEF Placed
      <4> HIDE DEF f
      <4> QED
        BY <4>2
    <3>4. flattened'.owed = flattened.owed + s
      BY <1>8, <2>2
    <3> HIDE DEF c
    <3>5. holding' = flattened'.owed - c
      BY <1>1, <1>4, <1>6, <1>8, <3>2, <3>3, <3>4
    <3> QED
      BY <3>1, <3>5 DEF c
  <2> QED
    BY <2>1, <2>2
<1>14. FlattenOnItsWay'
  <2>1. flattened.closing < nextRequest'
    BY <1>6 DEF HostInv, FlattenOnItsWay
  <2> QED
    BY <1>1, <1>6, <1>7, <1>8, <1>11, <1>12, <1>13, <2>1 DEF FlattenOnItsWay
<1> QED
  BY <1>9, <1>10, <1>14 DEF HostInv

(* The strategy's own order, like the steps that touch neither inbox nor book,
   leaves a flatten on its way. *)
LEMMA StepPlaced ==
  ASSUME HostInv, UNCHANGED <<nextRequest, inbox, outcomes, holding, flattened>>,
         NEW side \in {1, -1}, NEW qty \in Nat, NEW approved \in BOOLEAN,
         Place(side, qty, approved)
  PROVE  HostInv'
<1>1. /\ placed' \in Seq(Placed) /\ Len(placed) \in Nat /\ Len(placed') = Len(placed) + 1
      /\ DOMAIN placed = 1..Len(placed) /\ DOMAIN placed' = 1..(Len(placed) + 1)
      /\ \A i \in DOMAIN placed : placed'[i] = placed[i]
  BY PlacingLeavesTheRest
<1>2. flattened.order \in Nat /\ flattened.order <= Len(placed) /\ flattened.working \subseteq DOMAIN placed
  BY DEF HostInv, HostTypeOK, FlattenOnItsWay
<1>3. HostTypeOK' /\ Numbered'
  BY <1>1 DEF HostInv, HostTypeOK, Numbered, FirstKept
<1>4. \A id \in flattened.working : placed'[id].left > 0 =>
        \E i \in DOMAIN inbox :
          inbox[i].kind = "cancel" /\ inbox[i].id = id /\ inbox[i].rid \in flattened.requests
  BY <1>1, <1>2 DEF HostInv, FlattenOnItsWay
<1>5. flattened.order # 0 /\ ~placed'[flattened.order].cancelled =>
        holding = flattened.owed - placed'[flattened.order].side * placed'[flattened.order].left
  <2> SUFFICES ASSUME flattened.order # 0, ~placed'[flattened.order].cancelled
               PROVE  holding = flattened.owed - placed'[flattened.order].side * placed'[flattened.order].left
    OBVIOUS
  <2>1. placed'[flattened.order] = placed[flattened.order]
    BY <1>1, <1>2
  <2> QED
    BY <2>1 DEF HostInv, FlattenOnItsWay
<1>6. \A i \in DOMAIN inbox : inbox[i].rid = flattened.closing =>
        /\ inbox[i].kind = "order" /\ flattened.order = 0
        /\ holding = flattened.owed - inbox[i].side * inbox[i].qty
  BY DEF HostInv, FlattenOnItsWay
<1>7. flattened.closing < nextRequest /\ flattened.order <= Len(placed')
      /\ flattened.working \subseteq DOMAIN placed'
  BY <1>1, <1>2 DEF HostInv, FlattenOnItsWay
<1>8. FlattenOnItsWay'
  BY <1>4, <1>5, <1>6, <1>7 DEF FlattenOnItsWay
<1> QED
  BY <1>3, <1>8 DEF HostInv

(***************************************************************************)
(* A session that has just been made has nothing queued and nothing held.  *)
(***************************************************************************)
LEMMA EmptyImplKeepsInv ==
  ASSUME nextRequest = 1, inbox = <<>>, outcomes = <<>>, placed = <<>>, holding = 0,
         flattened = NotFlattened
  PROVE  HostInv
<1>1. HostTypeOK
  <2>1. NotFlattened \in [requests: SUBSET Nat, closing: Nat, working: SUBSET Nat, order: Nat, owed: Int]
    BY DEF NotFlattened
  <2> QED
    BY <2>1 DEF HostTypeOK
<1>2. Numbered
  <2>1. FirstKept = 1
    BY DEF FirstKept
  <2> QED
    BY <2>1, HostBounds DEF Numbered
<1>3. FlattenOnItsWay
  BY DEF FlattenOnItsWay, NotFlattened
<1> QED
  BY <1>1, <1>2, <1>3 DEF HostInv

(***************************************************************************)
(* Single orders, single cancels and the cancel of everything that works.  *)
(***************************************************************************)
LEMMA StepQueued ==
  ASSUME HostInv, EnqueueOrder \/ EnqueueCancel \/ EnqueueCancelAll
  PROVE  HostInv'
<1>1. ASSUME NEW r \in Requests, r.rid = nextRequest PROVE Consecutive(<<r>>)
  <2>1. nextRequest \in Nat \ {0}
    BY DEF HostInv, HostTypeOK
  <2> QED
    BY <1>1, <2>1 DEF Consecutive
<1>2. nextRequest \in Nat
  BY DEF HostInv, HostTypeOK
<1>3. CASE EnqueueOrder
  <2>1. PICK side \in {1, -1}, q \in ManualQty : Enqueue(<<RequestOf(side, q)>>)
    BY <1>3 DEF EnqueueOrder
  <2>2. flattened' = flattened
    BY <1>3 DEF EnqueueOrder
  <2>3. RequestOf(side, q) \in Requests /\ RequestOf(side, q).rid = nextRequest
    <3>1. q \in Nat \ {0}
      BY HostBounds
    <3> QED
      BY <1>2, <3>1 DEF RequestOf, Requests, Orders
  <2>4. Consecutive(<<RequestOf(side, q)>>)
    BY <1>1, <2>3
  <2> HIDE <1>3
  <2> QED
    BY <2>1, <2>2, <2>4, QueueingKeepsFlatten
<1>4. CASE EnqueueCancel
  <2>1. PICK id \in DOMAIN placed : Enqueue(<<CancelAs(nextRequest, id)>>)
    BY <1>4 DEF EnqueueCancel
  <2>2. flattened' = flattened
    BY <1>4 DEF EnqueueCancel
  <2>3. CancelAs(nextRequest, id) \in Requests /\ CancelAs(nextRequest, id).rid = nextRequest
    <3>1. id \in Nat
      BY WorkingListed
    <3> QED
      BY <1>2, <3>1 DEF CancelAs, Requests, Cancels
  <2>4. Consecutive(<<CancelAs(nextRequest, id)>>)
    BY <1>1, <2>3
  <2> QED
    BY <2>1, <2>2, <2>4, QueueingKeepsFlatten
<1>5. CASE EnqueueCancelAll
  <2>1. Enqueue(CancelsFor(Working)) /\ flattened' = flattened
    BY <1>5 DEF EnqueueCancelAll
  <2>2. Consecutive(CancelsFor(Working))
    BY WorkingListed
  <2> QED
    BY <2>1, <2>2, QueueingKeepsFlatten
<1> QED
  BY <1>3, <1>4, <1>5

(***************************************************************************)
(* One request of the inbox is drained.                                    *)
(***************************************************************************)
LEMMA StepDrained == ASSUME HostInv, DrainOne PROVE HostInv'
<1>1. /\ inbox # <<>> /\ inbox' = Tail(inbox) /\ UNCHANGED <<nextRequest, holding>>
      /\ \/ inbox[1].kind = "cancel" /\ DrainCancel(inbox[1])
         \/ inbox[1].kind = "order" /\ \E approved \in BOOLEAN : DrainOrder(inbox[1], approved)
  BY DEF DrainOne
<1>2. CASE inbox[1].kind = "cancel" /\ DrainCancel(inbox[1])
  BY <1>1, <1>2, StepDrainCancel
<1>3. CASE inbox[1].kind = "order" /\ \E approved \in BOOLEAN : DrainOrder(inbox[1], approved)
  <2>1. PICK approved \in BOOLEAN : DrainOrder(inbox[1], approved)
    BY <1>3
  <2> QED
    BY <1>1, <1>3, <2>1, StepDrainOrder
<1> QED
  BY <1>1, <1>2, <1>3

(***************************************************************************)
(* The strategy's own signal after the drain.                              *)
(***************************************************************************)
LEMMA StepSignalled == ASSUME HostInv, StrategyActs PROVE HostInv'
<1>1. UNCHANGED <<nextRequest, inbox, outcomes, holding, flattened>>
  BY DEF StrategyActs
<1>2. CASE UNCHANGED placed
  BY <1>1, <1>2 DEF HostInv, HostTypeOK, Numbered, FirstKept, FlattenOnItsWay
<1>3. CASE Signals
  <2>1. PICK approved \in BOOLEAN : Place(IF holding > 0 THEN -1 ELSE 1, AutoQty, approved)
    BY <1>3 DEF StrategyActs
  <2> DEFINE side == IF holding > 0 THEN -1 ELSE 1
  <2>2. side \in {1, -1} /\ AutoQty \in Nat
    BY HostBounds
  <2> HIDE DEF side
  <2>3. Place(side, AutoQty, approved)
    BY <2>1 DEF side
  <2> QED
    BY <1>1, <2>2, <2>3, StepPlaced
<1> QED
  BY <1>2, <1>3 DEF StrategyActs

(***************************************************************************)
(* Every step of the host keeps the invariant.                             *)
(***************************************************************************)
LEMMA HostStep == ASSUME HostInv, [HostInboxNext]_hostInboxVars PROVE HostInv'
<1>1. CASE EnqueueOrder \/ EnqueueCancel \/ EnqueueCancelAll
  BY <1>1, StepQueued
<1>2. CASE EnqueueFlatten
  BY <1>2, StepEnqueueFlatten
<1>3. CASE \E id \in Working : \E q \in 1..placed[id].left : FillAtVenue(id, q)
  <2>1. PICK id \in Working : \E q \in 1..placed[id].left : FillAtVenue(id, q)
    BY <1>3
  <2>2. PICK q \in 1..placed[id].left : FillAtVenue(id, q)
    BY <2>1
  <2> QED
    BY <2>2, StepFillAtVenue
<1>4. CASE DrainOne
  BY <1>4, StepDrained
<1>5. CASE StrategyActs
  BY <1>5, StepSignalled
<1>6. CASE UNCHANGED <<nextRequest, inbox, outcomes, placed, holding, flattened>>
  BY <1>6 DEF HostInv, HostTypeOK, Numbered, FirstKept, FlattenOnItsWay
<1>7. CASE EmptyImpl
  <2>1. /\ nextRequest' = 1 /\ inbox' = <<>> /\ outcomes' = <<>> /\ placed' = <<>> /\ holding' = 0
        /\ flattened' = NotFlattened
    BY <1>7 DEF EmptyImpl
  <2>2. HostTypeOK'
    <3>1. NotFlattened \in [requests: SUBSET Nat, closing: Nat, working: SUBSET Nat, order: Nat, owed: Int]
      BY DEF NotFlattened
    <3> QED
      BY <2>1, <3>1 DEF HostTypeOK
  <2>3. Numbered'
    <3>1. FirstKept' = 1
      BY <2>1 DEF FirstKept
    <3> QED
      BY <2>1, <3>1, HostBounds DEF Numbered
  <2>4. FlattenOnItsWay'
    BY <2>1 DEF FlattenOnItsWay, NotFlattened
  <2> QED
    BY <2>2, <2>3, <2>4 DEF HostInv
<1>8. SetHalted \/ BarArrives \/ FillsEnd \/ HostStepFails
      => UNCHANGED <<nextRequest, inbox, outcomes, placed, holding, flattened>>
  BY DEF SetHalted, BarArrives, FillsEnd, HostStepFails, inboxVars
<1>9. StartHost \/ StopHost
      => EmptyImpl \/ UNCHANGED <<nextRequest, inbox, outcomes, placed, holding, flattened>>
  BY DEF StartHost, StopHost, inboxVars
<1>10. UNCHANGED hostInboxVars => UNCHANGED <<nextRequest, inbox, outcomes, placed, holding, flattened>>
  BY DEF hostInboxVars, inboxVars
<1> QED
  BY <1>1, <1>2, <1>3, <1>4, <1>5, <1>6, <1>7, <1>8, <1>9, <1>10 DEF HostInboxNext

(* Outcomes followed by what waits: one run of numbers, up to the next one. *)
LEMMA NumberedAnswersOnce == HostInv => RequestsAnsweredOnce
<1> SUFFICES ASSUME HostInv PROVE RequestsAnsweredOnce
  OBVIOUS
<1> DEFINE n == Len(inbox)
           k == Len(outcomes)
           a == [i \in 1..k |-> outcomes[i].rid]
           b == [i \in 1..n |-> inbox[i].rid]
           ids == a \o b
           first == IF ids = <<>> THEN nextRequest ELSE ids[1]
<1>1. /\ inbox \in Seq(Requests) /\ outcomes \in Seq(Outcomes) /\ nextRequest \in Nat \ {0}
      /\ n \in Nat /\ k \in Nat /\ DOMAIN inbox = 1..n /\ DOMAIN outcomes = 1..k
  BY DEF HostInv, HostTypeOK
<1>2. /\ FirstKept = nextRequest - n - k /\ FirstKept \in Int
      /\ FirstKept >= 1 /\ (FirstKept > 1 => k = KeptOutcomes)
      /\ \A i \in 1..k : outcomes[i].rid = FirstKept + i - 1
      /\ \A i \in 1..n : inbox[i].rid = nextRequest - n + i - 1
  <2>1. FirstKept = nextRequest - n - k
    BY DEF FirstKept
  <2>2. /\ FirstKept >= 1 /\ (FirstKept > 1 => k = KeptOutcomes)
        /\ \A i \in DOMAIN outcomes : outcomes[i].rid = FirstKept + i - 1
        /\ \A i \in DOMAIN inbox : inbox[i].rid = nextRequest - n + i - 1
    BY DEF HostInv, Numbered
  <2> HIDE DEF n, k
  <2>3. FirstKept \in Int
    BY <1>1, <2>1
  <2> QED
    BY <1>1, <2>1, <2>2, <2>3
<1> HIDE DEF n, k
<1>3. \A i \in 1..k : a[i] = FirstKept + i - 1 /\ a[i] \in Int
  BY <1>1, <1>2
<1>4. \A i \in 1..n : b[i] = nextRequest - n + i - 1 /\ b[i] \in Int
  BY <1>1, <1>2
<1>5. a \in Seq(Int) /\ Len(a) = k /\ b \in Seq(Int) /\ Len(b) = n
  <2>1. a \in [1..k -> Int] /\ b \in [1..n -> Int]
    BY <1>3, <1>4
  <2> QED
    BY <1>1, <2>1
<1> HIDE DEF a, b
<1>6. /\ ids \in Seq(Int) /\ Len(ids) = k + n
      /\ \A i \in 1..(k + n) : ids[i] = IF i <= k THEN a[i] ELSE b[i - k]
  BY <1>5, ConcatProperties
<1> HIDE DEF ids
<1>7. \A i \in 1..(k + n) : ids[i] = FirstKept + i - 1
  <2> TAKE i \in 1..(k + n)
  <2>1. CASE i <= k
    <3>1. i \in 1..k
      BY <1>1, <2>1
    <3> QED
      BY <1>3, <1>6, <2>1, <3>1
  <2>2. CASE ~(i <= k)
    <3>1. i - k \in 1..n
      BY <1>1, <2>2
    <3>2. b[i - k] = nextRequest - n + (i - k) - 1
      BY <1>4, <3>1
    <3> QED
      BY <1>1, <1>2, <1>6, <2>2, <3>2
  <2> QED
    BY <2>1, <2>2
<1>8. first = FirstKept
  <2>1. CASE k + n = 0
    <3>1. ids = <<>> /\ k = 0 /\ n = 0
      BY <1>1, <1>6, <2>1
    <3> QED
      BY <1>1, <1>2, <3>1
  <2>2. CASE k + n # 0
    <3>1. 1 \in 1..(k + n) /\ ids # <<>>
      BY <1>1, <1>6, <2>2
    <3>2. ids[1] = FirstKept + 1 - 1
      BY <1>7, <3>1
    <3> QED
      BY <1>2, <3>1, <3>2
  <2> QED
    BY <2>1, <2>2
<1> HIDE DEF first
<1>9. ids = [i \in 1..Len(ids) |-> first + i - 1]
  BY <1>6, <1>7, <1>8
<1>10. first + Len(ids) = nextRequest
  BY <1>1, <1>2, <1>6, <1>8
<1>11. first > 1 => Len(outcomes) = KeptOutcomes
  BY <1>2, <1>8 DEF k
<1> QED
  BY <1>9, <1>10, <1>11 DEF RequestsAnsweredOnce, first, ids, a, b, n, k

(***************************************************************************)
(* With none of its requests waiting, a flatten on its way has kept its    *)
(* word.                                                                   *)
(***************************************************************************)
LEMMA OnItsWayKeepsWord == HostInv => FlattenKeepsItsWord
<1> SUFFICES ASSUME HostInv, FlattenDrained
             PROVE  /\ flattened.working \cap Working = {}
                    /\ flattened.order # 0 /\ placed[flattened.order].left = 0
                         /\ ~placed[flattened.order].cancelled => holding = flattened.owed
  BY DEF FlattenKeepsItsWord
<1>1. DOMAIN inbox = 1..Len(inbox)
  BY DEF HostInv, HostTypeOK
<1>2. flattened.working \cap Working = {}
  <2> SUFFICES ASSUME NEW id \in flattened.working, id \in Working PROVE FALSE
    OBVIOUS
  <2>1. PICK i \in DOMAIN inbox :
          inbox[i].kind = "cancel" /\ inbox[i].id = id /\ inbox[i].rid \in flattened.requests
    BY DEF HostInv, FlattenOnItsWay, Working
  <2> QED
    BY <1>1, <2>1 DEF FlattenDrained
<1>3. ASSUME flattened.order # 0, placed[flattened.order].left = 0,
             ~placed[flattened.order].cancelled
      PROVE  holding = flattened.owed
  <2> DEFINE p == placed[flattened.order]
  <2>1. holding = flattened.owed - p.side * p.left
    BY <1>3 DEF HostInv, FlattenOnItsWay
  <2>2. p.side \in {1, -1} /\ flattened.owed \in Int /\ p.left = 0
    <3>1. flattened.order \in DOMAIN placed /\ placed \in Seq(Placed)
      BY <1>3 DEF HostInv, HostTypeOK, FlattenOnItsWay
    <3>2. p \in Placed
      BY <3>1
    <3>3. flattened.owed \in Int
      BY DEF HostInv, HostTypeOK
    <3> QED
      BY <1>3, <3>2, <3>3 DEF Placed
  <2> HIDE DEF p
  <2> QED
    BY <2>1, <2>2
<1> QED
  BY <1>2, <1>3

(***************************************************************************)
(* Every request the host accepted is waiting or has its one outcome in    *)
(* order, and a flatten whose requests are drained leaves neither an order *)
(* it found working nor a share of the position it found.                  *)
(***************************************************************************)
THEOREM HostIsTrueToItsClients == HostInboxSpec => []HostKeepsItsWord
<1>1. HostInboxInit => HostInv
  BY EmptyImplKeepsInv DEF HostInboxInit
<1>2. HostInv /\ [HostInboxNext]_hostInboxVars => HostInv'
  BY HostStep
<1>3. HostInv => HostKeepsItsWord
  BY NumberedAnswersOnce, OnItsWayKeepsWord DEF HostKeepsItsWord
<1> QED
  BY <1>1, <1>2, <1>3, PTL DEF HostInboxSpec
=============================================================================
