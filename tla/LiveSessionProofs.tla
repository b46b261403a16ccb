------------------------- MODULE LiveSessionProofs --------------------------
(***************************************************************************)
(* Proofs about LiveSession for every number of orders, messages, events,  *)
(* saves and processes.                                                    *)
(*                                                                         *)
(* That a fill is booked once rests on the filter of the connection: what  *)
(* is booked, or waits in the batch, is at or below the watermark, or is   *)
(* remembered by its fill id.  That it is not booked again after a restart *)
(* rests on the watermark never being behind the one on disk while a       *)
(* message can still arrive.                                               *)
(***************************************************************************)
EXTENDS LiveSession, SumLemmas, SequenceTheorems

MessageKinds == {"quote", "account", "accepted", "rejected", "replaced", "cancelled"} \cup FillKinds

\* A venue message speaks of an order it knows, and closes only what is done.
LogSound ==
  /\ log \in Seq([kind : MessageKinds, o : Nat, q : Int, ahead : BOOLEAN])
  /\ Len(log) <= MaxLog
  /\ \A i \in DOMAIN log :
       /\ log[i].kind \notin {"quote", "account"} => log[i].o \in DOMAIN orders
       /\ log[i].kind \in FillKinds => log[i].q \in 1..(Lots + 1)
       /\ log[i].kind \in {"rejected", "cancelled", "fill"} => orders[log[i].o].state = "done"

\* A message that is booked or about to be handled will not be taken again.
Remembered(i) ==
  /\ i \in DOMAIN log
  /\ sequenced => i <= lastSeq
  /\ ~sequenced /\ log[i].kind \in FillKinds => i \in recent

BatchSound ==
  /\ batch \in Seq(Nat)
  /\ batch # <<>> => at = "handle"
  /\ \A k \in DOMAIN batch :
       /\ Remembered(batch[k])
       /\ sequenced => batch[k] > disk.watermark
       /\ log[batch[k]].kind \in FillKinds => batch[k] \notin booked
       /\ \A j \in DOMAIN batch : batch[j] = batch[k] => j = k

BookedSound == \A i \in booked : Remembered(i) /\ log[i].kind \in FillKinds

\* While the venue can be heard, or will be without another recovery, nothing
\* on disk is ahead of the connection.
Audible == isOpen \/ conn \in {"Ready", "Degraded"} \/ phase # "Halted"

WatermarkKept ==
  /\ phase \notin {"Created"} \cup Terminal /\ Audible => disk.watermark <= lastSeq
  /\ sequenced \in BOOLEAN

\* The ids of this process are those its order book has given out.
OrdersOwned ==
  /\ nextId \in Nat \ {0} /\ life \in Nat
  /\ \A o \in DOMAIN orders :
       orders[o].life <= life /\ (orders[o].life = life => orders[o].id < nextId)

DiskTyped ==
  disk \in [sequence : Nat, events : Nat, watermark : 0..MaxLog, tracked : SUBSET Ids]

CountersTyped == sequence \in Nat /\ events \in Nat

PhasesSound ==
  /\ phase = "Created" => /\ booked = {} /\ batch = <<>> /\ nextId = 1 /\ lastSeq = 0
                          /\ ~isOpen /\ conn = "Disconnected" /\ at = "idle"
  /\ phase \in Terminal => at = "idle"

\* The second half of LiveOrdersRemembered.
Memory ==
  \A o \in DOMAIN orders :
    orders[o].life = life /\ orders[o].state # "done" /\ OwnId(o)
      => IdOf(o) \in working /\ IdOf(o) \in tracked

LiveInv ==
  /\ LiveTypeOK /\ Memory /\ LogSound /\ BatchSound /\ BookedSound /\ WatermarkKept
  /\ OrdersOwned /\ DiskTyped /\ CountersTyped /\ PhasesSound

-----------------------------------------------------------------------------
(* The connection.                                                         *)

(***************************************************************************)
(* A set of naturals below a bound has a maximum, and Max is it.           *)
(***************************************************************************)
LEMMA MaxFacts ==
  ASSUME NEW N \in Nat, NEW S, S \subseteq 0..N, S # {}
  PROVE  Max(S) \in S /\ \A y \in S : y <= Max(S)
<1> DEFINE Below == {n \in Nat : \E x \in S : x + n = N}
           R == OpToRel(<, Nat)
<1>1. Below # {} /\ Below \subseteq Nat
  <2>1. PICK x \in S : TRUE
    OBVIOUS
  <2>2. N - x \in Below
    OBVIOUS
  <2> QED
    BY <2>2
<1>2. PICK n \in Below : \A m \in Below : ~(<<m, n>> \in R)
  BY <1>1, NatLessThanWellFounded, WFMin
<1>3. PICK x \in S : x + n = N
  OBVIOUS
<1>4. ASSUME NEW y \in S PROVE x >= y
  <2>1. N - y \in Below
    OBVIOUS
  <2>2. ~(N - y < n)
    BY <1>2, <2>1 DEF OpToRel
  <2> QED
    BY <1>3, <2>2
<1>5. \E z \in S : \A y \in S : z >= y
  BY <1>4
<1>6. Max(S) \in S /\ \A y \in S : Max(S) >= y
  BY <1>5 DEF Max
<1> QED
  BY <1>6

(***************************************************************************)
(* InOrder enumerates a finite set of naturals, each element once: as many *)
(* ranks as elements, so each rank is taken.                               *)
(***************************************************************************)
LEMMA InOrderFacts ==
  ASSUME NEW S, S \subseteq Nat, IsFiniteSet(S)
  PROVE  /\ InOrder(S) \in Seq(S) /\ DOMAIN InOrder(S) = 1..Cardinality(S)
         /\ \A k, j \in DOMAIN InOrder(S) : InOrder(S)[k] = InOrder(S)[j] => k = j
<1> DEFINE n == Cardinality(S)
           Lower(i) == {j \in S : j < i}
           rank == [i \in S |-> Cardinality(Lower(i)) + 1]
<1>1. n \in Nat /\ \A i \in S : IsFiniteSet(Lower(i)) /\ Cardinality(Lower(i)) \in Nat
  <2>1. \A i \in S : Lower(i) \subseteq S
    OBVIOUS
  <2> HIDE DEF Lower
  <2> QED
    BY <2>1, FS_Subset, FS_CardinalityType
<1>2. \A i \in S : rank[i] \in 1..n
  <2> SUFFICES ASSUME NEW i \in S PROVE rank[i] \in 1..n
    OBVIOUS
  <2>1. Lower(i) \subseteq S /\ Lower(i) # S
    OBVIOUS
  <2>2. Cardinality(Lower(i)) <= n /\ Cardinality(Lower(i)) # n
    BY <2>1, FS_Subset
  <2> HIDE DEF Lower, n
  <2> QED
    BY <1>1, <2>2
<1>3. ASSUME NEW i \in S, NEW j \in S, i < j PROVE rank[i] < rank[j]
  <2>1. Lower(i) \subseteq Lower(j) /\ Lower(i) # Lower(j)
    <3>1. \A k \in S : k \in Nat /\ (k < i => k < j)
      BY <1>3
    <3>2. i \in Lower(j) /\ i \notin Lower(i)
      BY <1>3
    <3> QED
      BY <3>1, <3>2
  <2>2. Cardinality(Lower(i)) <= Cardinality(Lower(j)) /\ Cardinality(Lower(i)) # Cardinality(Lower(j))
    BY <1>1, <2>1, FS_Subset
  <2> HIDE DEF Lower
  <2> QED
    BY <1>1, <2>2
<1>4. rank \in Injection(S, 1..n)
  <2>1. rank \in [S -> 1..n]
    BY <1>2
  <2>2. \A i, j \in S : rank[i] = rank[j] => i = j
    <3>1. \A i, j \in S : i < j \/ j < i \/ i = j
      OBVIOUS
    <3>2. \A i \in S : rank[i] \in Int
      BY <1>2
    <3> HIDE DEF rank
    <3> QED
      BY <1>3, <3>1, <3>2
  <2> HIDE DEF rank
  <2> QED
    BY <2>1, <2>2 DEF Injection, IsInjective
<1>5. rank \in Surjection(S, 1..n)
  <2>1. IsFiniteSet(1..n) /\ Cardinality(1..n) = n
    BY <1>1, FS_Interval
  <2> HIDE DEF rank, n
  <2> QED
    BY <1>4, <2>1, FS_Injection DEF n
<1>6. \A k \in 1..n : \E i \in S : Cardinality(Lower(i)) = k - 1
  <2>1. \A k \in 1..n : \E i \in S : rank[i] = k
    <3> HIDE DEF rank, n
    <3> QED
      BY <1>5 DEF Surjection
  <2>2. \A i \in S : rank[i] = Cardinality(Lower(i)) + 1
    OBVIOUS
  <2>3. n \in Nat /\ \A i \in S : Cardinality(Lower(i)) \in Nat
    BY <1>1
  <2> HIDE DEF rank, n, Lower
  <2>4. ASSUME NEW k \in 1..n PROVE \E i \in S : Cardinality(Lower(i)) = k - 1
    <3>1. PICK i \in S : rank[i] = k
      BY <2>1
    <3>2. Cardinality(Lower(i)) = k - 1
      BY <2>2, <2>3, <3>1
    <3> QED
      BY <3>2
  <2> QED
    BY <2>4
<1>7. \A k \in 1..n : InOrder(S)[k] \in S /\ Cardinality(Lower(InOrder(S)[k])) = k - 1
  <2>1. \A k \in 1..n : InOrder(S)[k] = CHOOSE i \in S : Cardinality(Lower(i)) = k - 1
    BY DEF InOrder
  <2> HIDE DEF Lower, n
  <2> QED
    BY <1>6, <2>1
<1>8. DOMAIN InOrder(S) = 1..n
  BY DEF InOrder
<1>9. InOrder(S) \in [1..n -> S]
  BY <1>7 DEF InOrder
<1>10. InOrder(S) \in Seq(S)
  BY <1>1, <1>9, IsASeq
<1>11. \A k, j \in 1..n : InOrder(S)[k] = InOrder(S)[j] => k = j
  <2> HIDE DEF Lower, n
  <2> QED
    BY <1>1, <1>7
<1> QED
  BY <1>8, <1>10, <1>11

\* What was taken from the connection: in the log, not seen before, seen now.
Taken(taken) ==
  /\ taken \in Seq(Nat)
  /\ \A k \in DOMAIN taken :
       /\ isOpen /\ taken[k] \in DOMAIN log
       /\ sequenced => taken[k] > lastSeq /\ taken[k] <= lastSeq'
       /\ ~sequenced /\ log[taken[k]].kind \in FillKinds
            => taken[k] \notin recent /\ taken[k] \in recent'
       /\ \A j \in DOMAIN taken : taken[j] = taken[k] => j = k

\* The connection's memory only grows.
LinkGrows ==
  /\ lastSeq' \in 0..MaxLog /\ lastSeq <= lastSeq'
  /\ recent \subseteq recent' /\ recent' \subseteq 1..MaxLog
  /\ next' \in 1..(MaxLog + 1) /\ silence' \in 0..2
  /\ UNCHANGED <<conn, isOpen, sequenced, log>>

(***************************************************************************)
(* The positions that have arrived are a finite set within the log.        *)
(***************************************************************************)
LEMMA ArrivedFacts ==
  ASSUME LiveInv
  PROVE  /\ Len(log) \in Nat /\ DOMAIN log = 1..Len(log) /\ 1..Len(log) \subseteq 1..MaxLog
         /\ MaxLog \in Nat
         /\ \A S : S \subseteq Arrived => S \subseteq DOMAIN log /\ IsFiniteSet(S)
<1>1. Len(log) \in Nat /\ DOMAIN log = 1..Len(log) /\ Len(log) <= MaxLog /\ MaxLog \in Nat
  BY LogBound DEF LiveInv, LogSound
<1>2. next \in Nat \ {0}
  BY <1>1 DEF LiveInv, LiveTypeOK
<1>3. Arrived \subseteq 1..Len(log)
  BY <1>1, <1>2 DEF Arrived
<1>4. IsFiniteSet(1..Len(log))
  BY <1>1, FS_Interval
<1>5. \A S : S \subseteq Arrived => S \subseteq DOMAIN log /\ IsFiniteSet(S)
  BY <1>1, <1>3, <1>4, FS_Subset
<1> QED
  BY <1>1, <1>5

(***************************************************************************)
(* poll(): everything new is taken once and remembered.                    *)
(***************************************************************************)
LEMMA PolledFacts ==
  ASSUME LiveInv, NEW taken, Polled(taken)
  PROVE  Taken(taken) /\ LinkGrows
<1> DEFINE fresh == Fresh(Arrived)
           kept == {i \in fresh : ~log[i].ahead}
<1>1. PICK beat \in BOOLEAN : Poll(taken, beat)
  BY DEF Polled
<1>2. UNCHANGED <<conn, isOpen, sequenced, log>>
  BY DEF Polled
<1>3. /\ Len(log) \in Nat /\ DOMAIN log = 1..Len(log) /\ 1..Len(log) \subseteq 1..MaxLog
      /\ MaxLog \in Nat
  BY ArrivedFacts
<1>4. fresh \subseteq Arrived /\ kept \subseteq fresh
  BY DEF Fresh
<1>5. fresh \subseteq DOMAIN log /\ IsFiniteSet(fresh) /\ kept \subseteq Nat /\ IsFiniteSet(kept)
  <2> HIDE DEF fresh, kept
  <2>1. kept \subseteq Arrived
    BY <1>4
  <2>2. fresh \subseteq DOMAIN log /\ IsFiniteSet(fresh) /\ kept \subseteq DOMAIN log /\ IsFiniteSet(kept)
    BY <1>4, <2>1, ArrivedFacts
  <2> QED
    BY <1>3, <2>2
<1>6. \A i \in fresh : isOpen
  BY DEF Fresh, Arrived
<1>7. \A i \in fresh : IF sequenced THEN i > lastSeq ELSE log[i].kind \in FillKinds => i \notin recent
  BY DEF Fresh
<1>8. /\ taken = InOrder(kept)
      /\ lastSeq' = IF sequenced THEN Max({lastSeq} \cup fresh) ELSE lastSeq
      /\ recent' = IF sequenced THEN recent ELSE recent \cup {i \in fresh : log[i].kind \in FillKinds}
      /\ next' = IF isOpen THEN Len(log) + 1 ELSE next
      /\ silence' = IF isOpen /\ (beat \/ Arrived # {}) THEN 0 ELSE silence
  BY <1>1 DEF Poll
<1> HIDE DEF fresh, kept
<1>9. /\ lastSeq \in 0..MaxLog /\ recent \subseteq 1..MaxLog /\ silence \in 0..2
      /\ next \in 1..(MaxLog + 1)
  BY DEF LiveInv, LiveTypeOK
<1>10. /\ lastSeq' \in 0..MaxLog /\ lastSeq <= lastSeq'
       /\ sequenced => \A i \in fresh : i <= lastSeq'
  <2>1. {lastSeq} \cup fresh \subseteq 0..MaxLog /\ {lastSeq} \cup fresh # {}
    BY <1>3, <1>5, <1>9
  <2>2. /\ Max({lastSeq} \cup fresh) \in {lastSeq} \cup fresh
        /\ \A y \in {lastSeq} \cup fresh : y <= Max({lastSeq} \cup fresh)
    BY <1>3, <2>1, MaxFacts
  <2> DEFINE top == Max({lastSeq} \cup fresh)
  <2>3. top \in 0..MaxLog /\ lastSeq <= top /\ \A i \in fresh : i <= top
    BY <2>1, <2>2
  <2>4. lastSeq' = IF sequenced THEN top ELSE lastSeq
    BY <1>8
  <2> HIDE DEF top
  <2> QED
    BY <1>9, <2>3, <2>4
<1>11. LinkGrows
  <2>1. recent \subseteq recent' /\ recent' \subseteq 1..MaxLog
    BY <1>3, <1>5, <1>8, <1>9
  <2>2. next' \in 1..(MaxLog + 1)
    <3>1. Len(log) <= MaxLog
      BY DEF LiveInv, LogSound
    <3> QED
      BY <1>3, <1>8, <1>9, <3>1
  <2>3. silence' \in 0..2
    BY <1>8, <1>9
  <2> QED
    BY <1>2, <1>10, <2>1, <2>2, <2>3 DEF LinkGrows
<1>12. /\ taken \in Seq(kept) /\ DOMAIN taken = 1..Len(taken) /\ Len(taken) \in Nat
       /\ \A k, j \in DOMAIN taken : taken[k] = taken[j] => k = j
  <2>1. /\ taken \in Seq(kept)
        /\ \A k, j \in DOMAIN taken : taken[k] = taken[j] => k = j
    BY <1>5, <1>8, InOrderFacts
  <2> QED
    BY <2>1
<1>13. \A k \in DOMAIN taken : taken[k] \in kept
  BY <1>12
<1>14. taken \in Seq(Nat)
  BY <1>5, <1>12, <1>13, SeqMonotonic
<1>15. Taken(taken)
  BY <1>4, <1>5, <1>6, <1>7, <1>8, <1>10, <1>12, <1>13, <1>14 DEF Taken
<1> QED
  BY <1>11, <1>15

-----------------------------------------------------------------------------
(* What steps that are about something else keep.                          *)

(***************************************************************************)
(* Nothing has been sent: the invariant holds of the first process.        *)
(***************************************************************************)
LEMMA InitLiveInv == LiveInit => LiveInv
<1> SUFFICES ASSUME LiveInit PROVE LiveInv
  OBVIOUS
<1>1. /\ orders = <<>> /\ log = <<>> /\ batch = <<>> /\ booked = {} /\ phase = "Created"
      /\ at = "idle" /\ DOMAIN orders = {} /\ DOMAIN log = {} /\ DOMAIN batch = {}
      /\ lastSeq = 0 /\ recent = {} /\ isOpen = FALSE /\ next = 1 /\ nextId = 1 /\ life = 1
      /\ disk = NoState /\ sequence = 0 /\ events = 0 /\ sequenced \in BOOLEAN
      /\ tracked = {} /\ working = {} /\ conn = "Disconnected" /\ silence = 0
  BY DEF LiveInit, LinkInit, EmptyBroker
<1>2. Len(orders) = 0 /\ Len(log) = 0
  BY <1>1
<1>3. MaxLog \in Nat /\ Lots \in Nat
  BY LogBound, BrokerBounds
<1>4. LiveTypeOK
  <2>1. venueOf \in [Ids -> 0..Len(orders)] /\ pending \in [Ids -> 0..Lots]
    BY <1>2, <1>3 DEF LiveInit, EmptyBroker
  <2>2. orders \in Seq(VenueOrder)
    BY <1>1
  <2>3. lastSeq \in 0..MaxLog /\ silence \in 0..2 /\ next \in 1..(MaxLog + 1)
    BY <1>1, <1>3
  <2>4. recent \subseteq 1..MaxLog /\ tracked \subseteq Ids /\ working \subseteq Ids /\ isOpen \in BOOLEAN
    BY <1>1
  <2>5. conn = "Disconnected" /\ phase \in Phases /\ at = "idle"
    BY <1>1 DEF Phases
  <2> QED
    BY <2>1, <2>2, <2>3, <2>4, <2>5 DEF LiveTypeOK
<1>5. Memory
  BY <1>1 DEF Memory
<1>6. LogSound
  BY <1>1, <1>2, <1>3 DEF LogSound
<1>7. BatchSound /\ BookedSound
  BY <1>1 DEF BatchSound, BookedSound
<1>8. WatermarkKept /\ PhasesSound
  BY <1>1 DEF WatermarkKept, PhasesSound, Terminal
<1>9. OrdersOwned /\ CountersTyped
  BY <1>1 DEF OrdersOwned, CountersTyped
<1>10. DiskTyped
  BY <1>1, <1>3 DEF DiskTyped, NoState
<1> QED
  BY <1>4, <1>5, <1>6, <1>7, <1>8, <1>9, <1>10 DEF LiveInv

(***************************************************************************)
(* Messages stay remembered while the connection's memory and the log      *)
(* grow.                                                                   *)
(***************************************************************************)
LEMMA RememberedKept ==
  ASSUME LiveInv, sequenced' = sequenced, lastSeq' \in Int, lastSeq <= lastSeq',
         recent \subseteq recent', DOMAIN log \subseteq DOMAIN log',
         \A i \in DOMAIN log : log'[i] = log[i]
  PROVE  \A i : Remembered(i) => Remembered(i)' /\ log'[i] = log[i]
<1>1. lastSeq \in Int /\ \A i \in DOMAIN log : i \in Int
  BY DEF LiveInv, LiveTypeOK, LogSound
<1> QED
  BY <1>1 DEF Remembered

(***************************************************************************)
(* A step outside of poll(), with nothing in hand, leaves what is booked   *)
(* as it is.                                                               *)
(***************************************************************************)
LEMMA BooksKept ==
  ASSUME LiveInv, batch' = <<>>, booked' = booked,
         sequenced' = sequenced, lastSeq' \in Int, lastSeq <= lastSeq',
         recent \subseteq recent', DOMAIN log \subseteq DOMAIN log',
         \A i \in DOMAIN log : log'[i] = log[i]
  PROVE  BatchSound' /\ BookedSound'
<1>1. \A i : Remembered(i) => Remembered(i)' /\ log'[i] = log[i]
  BY RememberedKept
<1>2. BookedSound'
  BY <1>1 DEF LiveInv, BookedSound
<1>3. BatchSound'
  BY DEF BatchSound
<1> QED
  BY <1>2, <1>3

(***************************************************************************)
(* Only poll() has messages in hand.                                       *)
(***************************************************************************)
LEMMA NothingInHand ==
  ASSUME LiveInv, at # "handle"
  PROVE  batch = <<>>
BY DEF LiveInv, BatchSound

(***************************************************************************)
(* A process that has given out no id has no orders at the venue.          *)
(***************************************************************************)
LEMMA NoOrdersYet ==
  ASSUME LiveInv, nextId = 1, NEW o \in DOMAIN orders
  PROVE  orders[o].life # life
<1>1. orders[o] \in VenueOrder
  BY DEF LiveInv, LiveTypeOK
<1>2. orders[o].id >= 1 /\ orders[o].id \in Nat
  BY <1>1 DEF VenueOrder, Ids
<1> QED
  BY <1>2 DEF LiveInv, OrdersOwned

(***************************************************************************)
(* The venue, the order book and the listener do not move.                 *)
(***************************************************************************)
LEMMA VenueStill ==
  ASSUME LiveInv, UNCHANGED <<orders, log, life, nextId>>,
         (working' = working /\ tracked' = tracked) \/ nextId = 1
  PROVE  LogSound' /\ OrdersOwned' /\ Memory'
<1>1. LogSound' /\ OrdersOwned'
  BY DEF LiveInv, LogSound, OrdersOwned
<1>2. Memory'
  <2>1. CASE working' = working /\ tracked' = tracked
    BY <2>1 DEF LiveInv, Memory, OwnId, IdOf
  <2>2. CASE nextId = 1
    BY <2>2, NoOrdersYet DEF Memory
  <2> QED
    BY <2>1, <2>2
<1> QED
  BY <1>1, <1>2

-----------------------------------------------------------------------------
(* start(), halt(), resume(), shutdown().                                  *)

(***************************************************************************)
(* start(): a process that has just begun has booked nothing and has given *)
(* out no id, so what recover() takes from disk contradicts nothing; the   *)
(* watermark is then the saved one.                                        *)
(***************************************************************************)
LEMMA StepStart == LiveInv /\ Start => LiveInv'
<1> SUFFICES ASSUME LiveInv, Start PROVE LiveInv'
  OBVIOUS
<1>1. /\ at = "idle" /\ phase = "Created" /\ phase' = "Running" /\ conn' = "Ready"
      /\ isOpen' = TRUE /\ silence' = 0 /\ next' \in Redelivery
      /\ Resumed
      /\ \/ UNCHANGED <<sequence, tracked>>
         \/ sequence' = disk.sequence /\ tracked' = disk.tracked
      /\ UNCHANGED <<recent, sequenced, log, working, venueOf, pending, account, batch,
                     nextId, booked, total, simulated, life, orders, at, events, buffer, disk>>
  BY DEF Start, Recover, Idle
<1>2. /\ booked = {} /\ batch = <<>> /\ nextId = 1 /\ lastSeq = 0
  BY <1>1 DEF LiveInv, PhasesSound
<1>3. lastSeq' = disk.watermark /\ disk.watermark \in 0..MaxLog
  BY <1>1, <1>2 DEF Resumed, NoState, LiveInv, DiskTyped
<1>4. /\ tracked' \subseteq Ids /\ sequence' \in Nat /\ events' \in Nat
  BY <1>1 DEF LiveInv, LiveTypeOK, DiskTyped, CountersTyped
<1>5. next' \in 1..(MaxLog + 1)
  BY <1>1, LogBound DEF Redelivery, LiveInv, LogSound
<1>6. LiveTypeOK'
  BY <1>1, <1>3, <1>4, <1>5 DEF LiveInv, LiveTypeOK, Phases
<1>7. LogSound' /\ OrdersOwned' /\ Memory'
  BY <1>1, <1>2, VenueStill
<1>8. BatchSound' /\ BookedSound'
  BY <1>1, <1>2, <1>3, BooksKept
<1>9. WatermarkKept' /\ PhasesSound'
  BY <1>1, <1>3 DEF LiveInv, WatermarkKept, PhasesSound, Terminal
<1>10. DiskTyped' /\ CountersTyped'
  BY <1>1, <1>4 DEF LiveInv, DiskTyped, CountersTyped
<1> QED
  BY <1>6, <1>7, <1>8, <1>9, <1>10 DEF LiveInv

(***************************************************************************)
(* start() fails: the session ends before it has sent or taken anything.   *)
(***************************************************************************)
LEMMA StepStartFails == LiveInv /\ StartFails => LiveInv'
<1> SUFFICES ASSUME LiveInv, StartFails PROVE LiveInv'
  OBVIOUS
<1>1. /\ at = "idle" /\ phase = "Created" /\ phase' = "Failed"
      /\ conn' \in {"Synchronizing", "Failed"} /\ isOpen' \in BOOLEAN
      /\ silence' \in {0, silence} /\ next' \in Redelivery \cup {next}
      /\ UNCHANGED <<lastSeq, recent, sequenced, log, brokerVars, life, orders,
                     at, sequence, events, buffer, disk>>
  BY DEF StartFails, Connect, Idle
<1>2. booked = {} /\ batch = <<>>
  BY <1>1 DEF LiveInv, PhasesSound
<1>3. next' \in 1..(MaxLog + 1)
  BY <1>1, LogBound DEF Redelivery, LiveInv, LogSound, LiveTypeOK
<1>4. LiveTypeOK'
  BY <1>1, <1>3 DEF LiveInv, LiveTypeOK, Phases, brokerVars
<1>5. LogSound' /\ OrdersOwned' /\ Memory'
  BY <1>1, VenueStill DEF brokerVars
<1>6. BatchSound' /\ BookedSound'
  BY <1>1, <1>2 DEF BatchSound, BookedSound, brokerVars
<1>7. WatermarkKept' /\ PhasesSound'
  BY <1>1 DEF LiveInv, WatermarkKept, PhasesSound, Terminal
<1>8. DiskTyped' /\ CountersTyped'
  BY <1>1 DEF LiveInv, DiskTyped, CountersTyped
<1> QED
  BY <1>4, <1>5, <1>6, <1>7, <1>8 DEF LiveInv

(***************************************************************************)
(* A step that moves only the phase and the place in step().               *)
(***************************************************************************)
LEMMA PhaseMoves ==
  ASSUME LiveInv, LinkAndBrokerUnchanged, UNCHANGED <<sequence, events, disk>>, batch = <<>>,
         phase' \in Phases \ {"Created"}, at' \in {"idle", "poll", "handle", "engine"},
         phase' \in Terminal => at' = "idle", WatermarkKept'
  PROVE  LiveInv'
<1>1. /\ UNCHANGED <<linkVars, sequenced, log, next, brokerVars, life, orders>>
      /\ UNCHANGED <<conn, silence, lastSeq, recent, isOpen>>
      /\ UNCHANGED <<tracked, working, venueOf, pending, account, batch, nextId, booked>>
  BY DEF LinkAndBrokerUnchanged, linkVars, brokerVars
<1>2. LiveTypeOK'
  BY <1>1 DEF LiveInv, LiveTypeOK
<1>3. LogSound' /\ OrdersOwned' /\ Memory'
  BY <1>1, VenueStill
<1>4. lastSeq \in Int
  BY DEF LiveInv, LiveTypeOK
<1>5. BatchSound' /\ BookedSound'
  BY <1>1, <1>4, BooksKept
<1>6. DiskTyped' /\ CountersTyped' /\ PhasesSound'
  BY DEF LiveInv, DiskTyped, CountersTyped, PhasesSound
<1> QED
  BY <1>2, <1>3, <1>5, <1>6 DEF LiveInv

(***************************************************************************)
(* halt(), resume(), the end of a step and an event the engine rejects     *)
(* move only the phase. A session halts on a connection it could hear, or  *)
(* one that only another recovery brings back.                             *)
(***************************************************************************)
LEMMA StepQuiet == LiveInv /\ (Halt \/ Resume \/ DispatchFails \/ StepEnd) => LiveInv'
<1> SUFFICES ASSUME LiveInv, Halt \/ Resume \/ DispatchFails \/ StepEnd PROVE LiveInv'
  OBVIOUS
<1>1. /\ LinkAndBrokerUnchanged /\ UNCHANGED <<sequence, events, disk>>
      /\ at # "handle" /\ at' \in {at, "idle"}
  BY DEF Halt, Resume, DispatchFails, StepEnd, Idle
<1>2. batch = <<>>
  BY <1>1, NothingInHand
<1>3. UNCHANGED <<lastSeq, isOpen, sequenced, conn>>
  BY <1>1 DEF LinkAndBrokerUnchanged, linkVars
<1>4. /\ phase' \in Phases \ {"Created"} /\ (phase' \in Terminal => at' = "idle")
      /\ WatermarkKept'
  <2>1. CASE Halt
    <3>1. phase' = "Halted" /\ phase \notin Terminal /\ disk' = disk
      BY <1>1, <2>1 DEF Halt
    <3>2. phase # "Created" /\ Audible => disk.watermark <= lastSeq
      BY <3>1 DEF LiveInv, WatermarkKept
    <3>3. Audible' => phase # "Created" /\ Audible
      BY <1>3, <3>1 DEF LiveInv, PhasesSound, Audible
    <3>4. Audible' => disk'.watermark <= lastSeq'
      BY <1>3, <3>1, <3>2, <3>3
    <3>5. WatermarkKept'
      BY <1>3, <3>4 DEF LiveInv, WatermarkKept
    <3> QED
      BY <3>1, <3>5 DEF Phases, Terminal
  <2>2. CASE Resume
    BY <1>1, <1>3, <2>2
       DEF Resume, PermitsTrading, LiveInv, WatermarkKept, Audible, Phases, Terminal
  <2>3. CASE DispatchFails
    BY <1>1, <1>3, <2>3 DEF DispatchFails, LiveInv, WatermarkKept, Audible, Phases, Terminal
  <2>4. CASE StepEnd
    BY <1>1, <1>3, <2>4 DEF StepEnd, LiveInv, LiveTypeOK, WatermarkKept, Audible, PhasesSound, Phases,
                               Terminal
  <2> QED
    BY <2>1, <2>2, <2>3, <2>4
<1>5. at' \in {"idle", "poll", "handle", "engine"}
  BY <1>1 DEF LiveInv, LiveTypeOK
<1> QED
  BY <1>1, <1>2, <1>4, <1>5, PhaseMoves

(***************************************************************************)
(* What is written to disk has the types read from it, and the watermark   *)
(* of the connection.                                                      *)
(***************************************************************************)
LEMMA PersistFacts ==
  ASSUME LiveInv, NEW ok \in BOOLEAN, NEW count \in Nat, Persist(ok, count)
  PROVE  /\ DiskTyped' /\ sequence' \in Nat
         /\ disk' = disk \/ disk'.watermark = lastSeq
<1>1. /\ sequence \in Nat /\ disk.events \in Nat /\ lastSeq \in 0..MaxLog /\ tracked \subseteq Ids
  BY DEF LiveInv, CountersTyped, DiskTyped, LiveTypeOK
<1>2. /\ Captured(count) \in [sequence : Nat, events : Nat, watermark : 0..MaxLog, tracked : SUBSET Ids]
      /\ Captured(count).watermark = lastSeq
  BY <1>1 DEF Captured
<1>3. sequence' = sequence + 1 /\ disk' = IF ok THEN Captured(count) ELSE disk
  BY DEF Persist
<1> QED
  BY <1>1, <1>2, <1>3 DEF LiveInv, DiskTyped

(***************************************************************************)
(* shutdown(): what is written is what the session knows, and it listens   *)
(* no more.                                                                *)
(***************************************************************************)
LEMMA StepShutdown == LiveInv /\ Shutdown => LiveInv'
<1> SUFFICES ASSUME LiveInv, Shutdown PROVE LiveInv'
  OBVIOUS
<1>1. /\ at = "idle" /\ phase' \in {"Stopped", "Failed"} /\ conn' \in {"Disconnected", conn}
      /\ isOpen' \in BOOLEAN
      /\ (\E ok \in BOOLEAN : Persist(ok, events)) \/ UNCHANGED <<sequence, disk>>
      /\ UNCHANGED <<silence, lastSeq, recent, sequenced, log, next, brokerVars, life, orders,
                     at, events, buffer>>
  BY DEF Shutdown, Idle, LiveInv, LiveTypeOK
<1>2. batch = <<>> /\ lastSeq \in Int
  BY <1>1, NothingInHand DEF LiveInv, LiveTypeOK
<1>3. events \in Nat /\ events' \in Nat
  BY <1>1 DEF LiveInv, CountersTyped
<1>4. DiskTyped' /\ CountersTyped'
  BY <1>1, <1>3, PersistFacts DEF LiveInv, DiskTyped, CountersTyped
<1>5. LiveTypeOK'
  BY <1>1 DEF LiveInv, LiveTypeOK, Phases, brokerVars
<1>6. LogSound' /\ OrdersOwned' /\ Memory'
  BY <1>1, VenueStill DEF brokerVars
<1>7. BatchSound' /\ BookedSound'
  BY <1>1, <1>2, BooksKept DEF brokerVars
<1>8. WatermarkKept' /\ PhasesSound'
  BY <1>1 DEF LiveInv, WatermarkKept, PhasesSound, Terminal
<1> QED
  BY <1>4, <1>5, <1>6, <1>7, <1>8 DEF LiveInv

-----------------------------------------------------------------------------
(* step().                                                                 *)

(***************************************************************************)
(* The health check of step(): a reconnect may make the venue deliver      *)
(* again, but forgets nothing the filter needs.                            *)
(***************************************************************************)
LEMMA StepStepBegin == LiveInv /\ StepBegin => LiveInv'
<1> SUFFICES ASSUME LiveInv, StepBegin PROVE LiveInv'
  OBVIOUS
<1>1. /\ at = "idle" /\ phase \in {"Running", "Halted", "Recovering"}
      /\ UNCHANGED <<lastSeq, recent, sequenced, log, brokerVars, life, orders,
                     sequence, events, buffer, disk>>
  BY DEF StepBegin, Idle
<1>2. batch = <<>> /\ lastSeq \in Int
  BY <1>1, NothingInHand DEF LiveInv, LiveTypeOK
<1>3. /\ conn' \in {"Disconnected", "Synchronizing", "Ready", "Degraded", "Reconnecting", "Failed"}
      /\ isOpen' \in BOOLEAN /\ silence' \in 0..2 /\ next' \in 1..(MaxLog + 1)
      /\ \/ phase' = phase /\ isOpen' = isOpen /\ at' = "poll" /\ (Audible' => Audible)
         \/ phase # "Halted" /\ phase' = "Running" /\ at' = "poll"
         \/ phase' = "Failed" /\ at' = "idle"
  <2>1. /\ conn \in {"Disconnected", "Synchronizing", "Ready", "Degraded", "Reconnecting", "Failed"}
        /\ silence \in 0..2 /\ isOpen \in BOOLEAN /\ next \in 1..(MaxLog + 1)
    BY DEF LiveInv, LiveTypeOK
  <2>2. CASE /\ PhaseAfterTick # "Recovering"
             /\ conn' = Ticked /\ phase' = PhaseAfterTick /\ at' = "poll"
             /\ UNCHANGED <<isOpen, silence, next>>
    <3>1. Ticked \in {conn, "Reconnecting", "Degraded", "Ready"}
      BY <2>1 DEF Ticked
    <3>2. PhaseAfterTick = phase
      BY <2>2 DEF PhaseAfterTick
    <3>3. Ticked \in {"Ready", "Degraded"} => conn \in {"Ready", "Degraded"}
      BY DEF Ticked
    <3>4. Audible' => Audible
      BY <2>2, <3>2, <3>3 DEF Audible
    <3> QED
      BY <2>1, <2>2, <3>1, <3>2, <3>4
  <2>3. CASE /\ PhaseAfterTick = "Recovering"
             /\ \E from \in Redelivery : isOpen' = TRUE /\ silence' = 0 /\ next' = from
             /\ conn' = "Ready" /\ phase' = "Running" /\ at' = "poll"
    <3>1. phase # "Halted"
      BY <2>3 DEF PhaseAfterTick
    <3>2. next' \in 1..(MaxLog + 1)
      BY <2>3, LogBound DEF Redelivery, LiveInv, LogSound
    <3>3. silence' = 0 /\ isOpen' \in BOOLEAN
      BY <2>3
    <3>4. conn' = "Ready" /\ phase' = "Running" /\ at' = "poll"
      BY <2>3
    <3> QED
      BY <3>1, <3>2, <3>3, <3>4
  <2>4. CASE /\ PhaseAfterTick = "Recovering"
             /\ conn' = "Failed" /\ isOpen' = FALSE
             /\ phase' = "Failed" /\ UNCHANGED <<silence, next, at>>
    BY <1>1, <2>1, <2>4
  <2> QED
    BY <2>2, <2>3, <2>4 DEF StepBegin
<1>4. LiveTypeOK'
  BY <1>1, <1>3 DEF LiveInv, LiveTypeOK, Phases, brokerVars
<1>5. LogSound' /\ OrdersOwned' /\ Memory'
  BY <1>1, VenueStill DEF brokerVars
<1>6. BatchSound' /\ BookedSound'
  BY <1>1, <1>2, BooksKept DEF brokerVars
<1>7. WatermarkKept' /\ PhasesSound'
  BY <1>1, <1>3 DEF LiveInv, WatermarkKept, PhasesSound, Terminal, Audible
<1>8. DiskTyped' /\ CountersTyped'
  BY <1>1 DEF LiveInv, DiskTyped, CountersTyped
<1> QED
  BY <1>4, <1>5, <1>6, <1>7, <1>8 DEF LiveInv

(***************************************************************************)
(* poll() takes only messages that are new to the filter, so none that is  *)
(* booked and none at or below the watermark on disk.                      *)
(***************************************************************************)
LEMMA StepBrokerPoll == LiveInv /\ BrokerPoll => LiveInv'
<1> SUFFICES ASSUME LiveInv, BrokerPoll PROVE LiveInv'
  OBVIOUS
<1>1. /\ at = "poll" /\ at' = "handle" /\ Polled(batch')
      /\ UNCHANGED <<tracked, working, venueOf, pending, account, nextId, life, orders,
                     booked, total, simulated, phase, sequence, events, buffer, disk>>
  BY DEF BrokerPoll
<1>2. Taken(batch') /\ LinkGrows
  BY <1>1, PolledFacts
<1>3. phase \notin {"Created"} \cup Terminal
  BY <1>1 DEF LiveInv, PhasesSound
<1>4. /\ disk.watermark \in Nat /\ lastSeq \in Nat /\ lastSeq' \in Nat
      /\ isOpen => disk.watermark <= lastSeq
  BY <1>2, <1>3 DEF LiveInv, WatermarkKept, Audible, DiskTyped, LiveTypeOK, LinkGrows
<1>5. \A i : Remembered(i) => Remembered(i)' /\ log'[i] = log[i]
  BY <1>2, <1>4, RememberedKept DEF LinkGrows
<1>6. BookedSound'
  BY <1>1, <1>2, <1>5 DEF LiveInv, BookedSound, LinkGrows
<1>7. BatchSound'
  <2>1. sequenced' = sequenced /\ log' = log /\ disk' = disk /\ booked' = booked
    BY <1>1, <1>2 DEF LinkGrows
  <2>2. /\ batch' \in Seq(Nat)
        /\ \A k, j \in DOMAIN batch' : batch'[j] = batch'[k] => j = k
    BY <1>2 DEF Taken
  <2>3. ASSUME NEW k \in DOMAIN batch', NEW i, i = batch'[k]
        PROVE  /\ Remembered(i)' /\ (sequenced => i > disk.watermark) /\ i \notin booked
    <3>1. /\ isOpen /\ i \in DOMAIN log /\ i \in Nat
          /\ sequenced => i > lastSeq /\ i <= lastSeq'
          /\ ~sequenced /\ log[i].kind \in FillKinds => i \notin recent /\ i \in recent'
      BY <1>2, <2>2, <2>3 DEF Taken
    <3>2. Remembered(i)'
      BY <2>1, <3>1 DEF Remembered
    <3>3. sequenced => i > disk.watermark
      BY <1>4, <3>1
    <3>4. i \in booked => Remembered(i) /\ log[i].kind \in FillKinds
      BY DEF LiveInv, BookedSound
    <3>5. i \notin booked
      BY <1>4, <3>1, <3>4 DEF Remembered
    <3> QED
      BY <3>2, <3>3, <3>5
  <2>4. \A k \in DOMAIN batch' :
          Remembered(batch[k])' /\ (sequenced => batch'[k] > disk.watermark) /\ batch'[k] \notin booked
    BY <2>3 DEF Remembered
  <2> QED
    BY <1>1, <2>1, <2>2, <2>4 DEF BatchSound
<1>8. LiveTypeOK'
  BY <1>1, <1>2 DEF LiveInv, LiveTypeOK, LinkGrows
<1>9. LogSound' /\ OrdersOwned' /\ Memory'
  BY <1>1, <1>2, VenueStill DEF LinkGrows
<1>10. WatermarkKept'
  BY <1>1, <1>2, <1>4 DEF LiveInv, WatermarkKept, Audible, LinkGrows
<1>11. PhasesSound' /\ DiskTyped' /\ CountersTyped'
  BY <1>1, <1>3 DEF LiveInv, PhasesSound, DiskTyped, CountersTyped
<1> QED
  BY <1>6, <1>7, <1>8, <1>9, <1>10, <1>11 DEF LiveInv

\* The messages after which the broker forgets an order.
Closing == {"rejected", "cancelled", "fill"}

(***************************************************************************)
(* What handling a message changes: the broker forgets no other order than *)
(* the one the message closes, and books no other message.                 *)
(***************************************************************************)
LEMMA HandleFacts ==
  ASSUME LiveInv, NEW i \in DOMAIN log, ~Refused(log[i]), Handle(i, log[i])
  PROVE  /\ venueOf' \in [Ids -> 0..Len(orders)] /\ pending' \in [Ids -> 0..Lots]
         /\ tracked' \subseteq tracked /\ working' \subseteq working
         /\ \A id : (id \in tracked /\ id \notin tracked') \/ (id \in working /\ id \notin working')
                      => log[i].kind \in Closing /\ id = IdOf(log[i].o)
         /\ \/ booked' = booked /\ total' = total
            \/ /\ booked' = booked \cup {i} /\ total' = total + log[i].q
               /\ log[i].kind \in FillKinds
<1> DEFINE m == log[i]
<1>1. /\ m.kind \in MessageKinds
      /\ m.kind \notin {"quote", "account"} => m.o \in DOMAIN orders
      /\ m.kind \in FillKinds => m.q \in 1..(Lots + 1)
  <2>1. log[i] \in [kind : MessageKinds, o : Nat, q : Int, ahead : BOOLEAN]
    <3> DEFINE M == [kind : MessageKinds, o : Nat, q : Int, ahead : BOOLEAN]
    <3>1. log \in Seq(M)
      BY DEF LiveInv, LogSound
    <3> HIDE DEF M
    <3>2. log[i] \in M
      BY <3>1
    <3> QED
      BY <3>2 DEF M
  <2> QED
    BY <2>1 DEF LiveInv, LogSound
<1>2. Lots \in Nat
  BY BrokerBounds
<1>3. ASSUME m.kind \notin {"quote", "account"} PROVE IdOf(m.o) \in Ids /\ m.o \in 0..Len(orders)
  <2>1. orders \in Seq(VenueOrder) /\ m.o \in DOMAIN orders
    BY <1>1, <1>3 DEF LiveInv, LiveTypeOK
  <2>2. orders[m.o] \in VenueOrder /\ m.o \in 1..Len(orders) /\ Len(orders) \in Nat
    BY <2>1
  <2> QED
    BY <2>2 DEF VenueOrder, IdOf
<1>4. /\ venueOf \in [Ids -> 0..Len(orders)] /\ pending \in [Ids -> 0..Lots]
  BY DEF LiveInv, LiveTypeOK
<1> HIDE DEF m
<1>5. CASE m.kind = "quote"
  BY <1>4, <1>5 DEF Handle, FillKinds, m
<1>6. CASE m.kind = "account"
  BY <1>4, <1>6 DEF Handle, OnAccount, FillKinds, m
<1>7. CASE m.kind \in {"accepted", "replaced"}
  <2>1. OnNamed(m)
    BY <1>7 DEF Handle, FillKinds, m
  <2>2. venueOf' \in [Ids -> 0..Len(orders)]
    BY <1>3, <1>4, <1>7, <2>1 DEF OnNamed
  <2> QED
    BY <1>4, <2>1, <2>2 DEF OnNamed
<1>8. CASE m.kind \in {"rejected", "cancelled"}
  <2>1. OnGone(m)
    BY <1>8 DEF Handle, FillKinds, m
  <2>2. pending' \in [Ids -> 0..Lots]
    <3>1. 0 \in 0..Lots
      BY <1>2
    <3> QED
      BY <1>4, <2>1, <3>1 DEF OnGone
  <2> QED
    BY <1>4, <1>8, <2>1, <2>2 DEF OnGone, Forget, Closing, m
<1>9. CASE m.kind \in FillKinds
  <2>1. OnFill(i, m)
    BY <1>9 DEF Handle, FillKinds, m
  <2>2. Ingestible(m) /\ IdOf(m.o) \in Ids
    BY <1>3, <1>9 DEF Refused, FillKinds, m
  <2>3. pending[IdOf(m.o)] - m.q \in 0..Lots
    BY <1>1, <1>2, <1>4, <1>9, <2>2 DEF Ingestible
  <2>4. pending' \in [Ids -> 0..Lots]
    BY <1>4, <2>1, <2>3 DEF OnFill
  <2>5. \/ m.kind = "fill" /\ tracked' = tracked \ {IdOf(m.o)} /\ working' = working \ {IdOf(m.o)}
        \/ UNCHANGED <<tracked, working>>
    BY <2>1 DEF OnFill, Forget
  <2>6. venueOf' = venueOf /\ booked' = booked \cup {i} /\ total' = total + m.q
    BY <2>1 DEF OnFill
  <2> QED
    BY <1>4, <1>9, <2>4, <2>5, <2>6 DEF Closing, m
<1> QED
  BY <1>1, <1>5, <1>6, <1>7, <1>8, <1>9 DEF MessageKinds

(***************************************************************************)
(* Only messages that close an order make the broker forget it, and the    *)
(* venue has done with an order it closed.                                 *)
(***************************************************************************)
LEMMA MemoryOnMessage ==
  ASSUME LiveInv, NEW i \in DOMAIN log, ~Refused(log[i]), Handle(i, log[i]),
         UNCHANGED <<orders, life>>
  PROVE  Memory'
<1> SUFFICES ASSUME NEW o \in DOMAIN orders,
                    orders[o].life = life, orders[o].state # "done", OwnId(o)
             PROVE  IdOf(o) \in working' /\ IdOf(o) \in tracked'
  BY DEF Memory, OwnId, IdOf
<1>1. IdOf(o) \in working /\ IdOf(o) \in tracked
  BY DEF LiveInv, Memory
<1>2. ASSUME log[i].kind \in Closing, IdOf(o) = IdOf(log[i].o) PROVE FALSE
  <2>1. log[i].o \in DOMAIN orders /\ orders[log[i].o].state = "done"
    BY <1>2 DEF LiveInv, LogSound, Closing
  <2>2. log[i].o = o
    BY <1>2, <2>1 DEF OwnId, IdOf
  <2> QED
    BY <2>1, <2>2
<1> QED
  BY <1>1, <1>2, HandleFacts

(***************************************************************************)
(* One message handled: the fill it books is the one taken, and the rest   *)
(* of the batch holds other messages.                                      *)
(***************************************************************************)
LEMMA StepHandleMessage == LiveInv /\ HandleMessage => LiveInv'
<1> SUFFICES ASSUME LiveInv, HandleMessage PROVE LiveInv'
  OBVIOUS
<1> DEFINE i == Head(batch)
<1>1. /\ at = "handle" /\ batch # <<>>
      /\ UNCHANGED <<linkVars, sequenced, log, next, nextId, simulated, life, orders,
                     phase, sequence, events, buffer, disk>>
      /\ \/ /\ Refused(log[i]) /\ batch' = <<>> /\ at' = "idle"
            /\ UNCHANGED <<tracked, working, venueOf, pending, account, booked, total>>
         \/ ~Refused(log[i]) /\ Handle(i, log[i]) /\ batch' = Tail(batch) /\ at' = at
  BY DEF HandleMessage
<1>2. /\ batch \in Seq(Nat) /\ batch[1] = i /\ 1 \in DOMAIN batch
      /\ Tail(batch) \in Seq(Nat)
      /\ \A k \in DOMAIN Tail(batch) : /\ k \in Nat /\ k + 1 \in DOMAIN batch
                                       /\ Tail(batch)[k] = batch[k + 1]
  BY <1>1 DEF LiveInv, BatchSound
<1>3. /\ i \in DOMAIN log /\ Remembered(i)
      /\ log[i].kind \in FillKinds => i \notin booked
      /\ \A k \in DOMAIN batch : batch[k] = i => k = 1
  BY <1>2 DEF LiveInv, BatchSound, Remembered
<1> HIDE DEF i
<1>4. phase \notin {"Created"} \cup Terminal
  BY <1>1 DEF LiveInv, PhasesSound
<1>5. UNCHANGED <<conn, silence, lastSeq, recent, isOpen, sequenced, log, next>>
  BY <1>1 DEF linkVars
<1>6. WatermarkKept' /\ DiskTyped' /\ CountersTyped' /\ OrdersOwned' /\ LogSound'
  BY <1>1, <1>5 DEF LiveInv, WatermarkKept, Audible, DiskTyped, CountersTyped, OrdersOwned, LogSound
<1>7. PhasesSound'
  BY <1>1, <1>4 DEF PhasesSound
<1>8. CASE /\ Refused(log[i]) /\ batch' = <<>> /\ at' = "idle"
           /\ UNCHANGED <<tracked, working, venueOf, pending, account, booked, total>>
  <2>1. LiveTypeOK'
    BY <1>1, <1>5, <1>8 DEF LiveInv, LiveTypeOK
  <2>2. Memory'
    BY <1>1, <1>8 DEF LiveInv, Memory, OwnId, IdOf
  <2>3. BatchSound' /\ BookedSound'
    BY <1>5, <1>8 DEF LiveInv, BatchSound, BookedSound, Remembered
  <2> QED
    BY <1>6, <1>7, <2>1, <2>2, <2>3 DEF LiveInv
<1>9. CASE ~Refused(log[i]) /\ Handle(i, log[i]) /\ batch' = Tail(batch) /\ at' = at
  <2>1. /\ venueOf' \in [Ids -> 0..Len(orders)] /\ pending' \in [Ids -> 0..Lots]
        /\ tracked' \subseteq tracked /\ working' \subseteq working
        /\ \/ booked' = booked
           \/ booked' = booked \cup {i} /\ log[i].kind \in FillKinds
    BY <1>3, <1>9, HandleFacts
  <2>2. LiveTypeOK'
    BY <1>1, <1>5, <1>9, <2>1 DEF LiveInv, LiveTypeOK
  <2>3. Memory'
    BY <1>1, <1>3, <1>9, MemoryOnMessage
  <2>4. \A j : Remembered(j)' <=> Remembered(j)
    BY <1>5 DEF Remembered
  <2>5. BookedSound'
    BY <1>3, <1>5, <2>1, <2>4 DEF LiveInv, BookedSound
  <2>6. ASSUME NEW k \in DOMAIN Tail(batch), NEW j, j = Tail(batch)[k]
        PROVE  /\ Remembered(j) /\ (sequenced => j > disk.watermark)
               /\ log[j].kind \in FillKinds => j \notin booked'
    <3>1. k + 1 \in DOMAIN batch /\ batch[k + 1] = j /\ k + 1 # 1
      BY <1>2, <2>6
    <3>2. j # i
      BY <1>3, <3>1
    <3> QED
      BY <2>1, <3>1, <3>2 DEF LiveInv, BatchSound
  <2>7. \A k, j \in DOMAIN Tail(batch) : Tail(batch)[j] = Tail(batch)[k] => j = k
    <3> SUFFICES ASSUME NEW k \in DOMAIN Tail(batch), NEW j \in DOMAIN Tail(batch),
                        Tail(batch)[j] = Tail(batch)[k]
                 PROVE  j = k
      OBVIOUS
    <3>1. j + 1 \in DOMAIN batch /\ k + 1 \in DOMAIN batch /\ batch[j + 1] = batch[k + 1]
      BY <1>2
    <3>2. j + 1 = k + 1
      BY <3>1 DEF LiveInv, BatchSound
    <3> QED
      BY <1>2, <3>2
  <2>8. BatchSound'
    <3>1. \A k \in DOMAIN batch' :
            /\ Remembered(batch[k])' /\ (sequenced => batch'[k] > disk.watermark)
            /\ log[batch'[k]].kind \in FillKinds => batch'[k] \notin booked'
      BY <1>5, <1>9, <2>6 DEF Remembered
    <3>2. batch' \in Seq(Nat) /\ at' = "handle" /\ disk' = disk
      BY <1>1, <1>2, <1>9
    <3>3. \A k, j \in DOMAIN batch' : batch'[j] = batch'[k] => j = k
      BY <1>9, <2>7
    <3> QED
      BY <1>5, <3>1, <3>2, <3>3 DEF BatchSound
  <2> QED
    BY <1>6, <1>7, <2>2, <2>3, <2>5, <2>8 DEF LiveInv
<1> QED
  BY <1>1, <1>8, <1>9

(***************************************************************************)
(* The market-data pump polls the same connection: what it takes is gone   *)
(* for the broker, but nothing is booked.                                  *)
(***************************************************************************)
LEMMA StepPump == LiveInv /\ Pump => LiveInv'
<1> SUFFICES ASSUME LiveInv, Pump PROVE LiveInv'
  OBVIOUS
<1>1. /\ at = "handle" /\ batch = <<>> /\ at' = "engine"
      /\ \E taken : Polled(taken)
      /\ UNCHANGED <<brokerVars, life, orders, phase, sequence, events, disk>>
  BY DEF Pump
<1>2. LinkGrows
  BY <1>1, PolledFacts
<1>3. phase \notin {"Created"} \cup Terminal
  BY <1>1 DEF LiveInv, PhasesSound
<1>4. /\ disk.watermark \in Nat /\ lastSeq \in Nat /\ lastSeq' \in Nat
  BY <1>2 DEF LiveInv, DiskTyped, LiveTypeOK, LinkGrows
<1>5. LiveTypeOK'
  BY <1>1, <1>2 DEF LiveInv, LiveTypeOK, LinkGrows, brokerVars
<1>6. LogSound' /\ OrdersOwned' /\ Memory'
  BY <1>1, <1>2, VenueStill DEF LinkGrows, brokerVars
<1>7. BatchSound' /\ BookedSound'
  BY <1>1, <1>2, <1>4, BooksKept DEF LinkGrows, brokerVars
<1>8. WatermarkKept'
  BY <1>1, <1>2, <1>4 DEF LiveInv, WatermarkKept, Audible, LinkGrows
<1>9. PhasesSound' /\ DiskTyped' /\ CountersTyped'
  BY <1>1, <1>3 DEF LiveInv, PhasesSound, DiskTyped, CountersTyped
<1> QED
  BY <1>5, <1>6, <1>7, <1>8, <1>9 DEF LiveInv

(***************************************************************************)
(* An event for the engine: persist() writes the watermark of the          *)
(* connection, which is not ahead of it.                                   *)
(***************************************************************************)
LEMMA StepDispatch ==
  \A take \in [Ids -> 0..(Lots + 1)] : LiveInv /\ Dispatch(take) => LiveInv'
<1> SUFFICES ASSUME NEW take \in [Ids -> 0..(Lots + 1)], LiveInv, Dispatch(take) PROVE LiveInv'
  OBVIOUS
<1>1. /\ at = "engine" /\ at' \in {"engine", "idle"} /\ phase' \in {phase, "Halted"}
      /\ events' = events + 1
      /\ \A id \in Ids : take[id] <= pending[id]
      /\ pending' = [id \in Ids |-> pending[id] - take[id]]
      /\ (\E ok \in BOOLEAN : Persist(ok, events + 1)) \/ UNCHANGED <<sequence, disk>>
      /\ UNCHANGED <<linkVars, sequenced, log, next, tracked, working, venueOf, account, batch,
                     nextId, booked, total, life, orders>>
  BY DEF Dispatch
<1>2. UNCHANGED <<conn, silence, lastSeq, recent, isOpen>>
  BY <1>1 DEF linkVars
<1>3. batch = <<>> /\ phase \notin {"Created"} \cup Terminal /\ lastSeq \in Int
  BY <1>1, NothingInHand DEF LiveInv, PhasesSound, LiveTypeOK
<1>4. events + 1 \in Nat /\ events' \in Nat
  BY <1>1 DEF LiveInv, CountersTyped
<1>5. DiskTyped' /\ CountersTyped' /\ (disk' = disk \/ disk'.watermark = lastSeq)
  BY <1>1, <1>4, PersistFacts DEF LiveInv, DiskTyped, CountersTyped
<1>6. pending' \in [Ids -> 0..Lots]
  <2>1. Lots \in Nat /\ pending \in [Ids -> 0..Lots]
    BY BrokerBounds DEF LiveInv, LiveTypeOK
  <2>2. \A id \in Ids : pending[id] \in 0..Lots /\ take[id] \in 0..(Lots + 1)
    BY <2>1
  <2>3. \A id \in Ids : pending[id] - take[id] \in 0..Lots
    BY <1>1, <2>1, <2>2
  <2> QED
    BY <1>1, <2>3
<1>7. LiveTypeOK'
  BY <1>1, <1>2, <1>6 DEF LiveInv, LiveTypeOK, Phases
<1>8. LogSound' /\ OrdersOwned' /\ Memory'
  BY <1>1, VenueStill
<1>9. BatchSound' /\ BookedSound'
  BY <1>1, <1>2, <1>3, BooksKept
<1>10. WatermarkKept'
  BY <1>1, <1>2, <1>3, <1>5 DEF LiveInv, WatermarkKept, Audible
<1>11. PhasesSound'
  BY <1>1, <1>3 DEF PhasesSound, Terminal
<1> QED
  BY <1>5, <1>7, <1>8, <1>9, <1>10, <1>11 DEF LiveInv

-----------------------------------------------------------------------------
(* The caller's orders and requests.                                       *)

(***************************************************************************)
(* A call on the broker leaves the connection and the session alone.       *)
(***************************************************************************)
CallFrame == UNCHANGED <<linkVars, sequenced, log, next, life, sessionVars>>

(***************************************************************************)
(* Between steps nothing is in hand, so a call on the broker disturbs      *)
(* neither the batch nor the books nor what is on disk.                    *)
(***************************************************************************)
LEMMA CallKeeps ==
  ASSUME LiveInv, CallFrame, at = "idle", phase # "Created", UNCHANGED <<batch, booked>>
  PROVE  BatchSound' /\ BookedSound' /\ WatermarkKept' /\ DiskTyped' /\ CountersTyped' /\ PhasesSound'
<1>1. /\ UNCHANGED <<conn, silence, lastSeq, recent, isOpen, sequenced, log, next, life>>
      /\ UNCHANGED <<phase, at, sequence, events, buffer, disk>>
  BY DEF CallFrame, linkVars, sessionVars
<1>2. batch = <<>> /\ lastSeq \in Int
  BY NothingInHand DEF LiveInv, LiveTypeOK
<1>3. BatchSound' /\ BookedSound'
  BY <1>1, <1>2, BooksKept
<1>4. WatermarkKept'
  BY <1>1 DEF LiveInv, WatermarkKept, Audible
<1>5. DiskTyped' /\ CountersTyped' /\ PhasesSound'
  BY <1>1 DEF LiveInv, DiskTyped, CountersTyped, PhasesSound
<1> QED
  BY <1>3, <1>4, <1>5

(***************************************************************************)
(* submit(): the new order has an id no other order of this process has,   *)
(* and is registered before it is sent.                                    *)
(***************************************************************************)
LEMMA StepOrder == \A sent \in BOOLEAN : LiveInv /\ Order(sent) => LiveInv'
<1> SUFFICES ASSUME NEW sent \in BOOLEAN, LiveInv, Order(sent) PROVE LiveInv'
  OBVIOUS
<1> DEFINE id == nextId
           new == [id |-> id, life |-> life, left |-> Lots, state |-> "new", asked |-> "nothing"]
<1>1. CallFrame /\ at = "idle" /\ phase # "Created" /\ id \in Ids
  BY DEF Order, CallFrame, Idle, Started, Submit
<1>2. /\ nextId' = id + 1
      /\ pending' = [pending EXCEPT ![id] = IF sent THEN Lots ELSE 0]
      /\ tracked' = IF sent THEN tracked \cup {id} ELSE tracked \ {id}
      /\ working' = IF sent THEN working \cup {id} ELSE working
      /\ orders' = IF sent THEN Append(orders, new) ELSE orders
      /\ UNCHANGED <<venueOf, account, batch, booked, total, simulated>>
  BY DEF Order, Submit
<1>3. /\ UNCHANGED <<conn, silence, lastSeq, recent, isOpen, sequenced, log, next, life, phase, at>>
  BY <1>1 DEF CallFrame, linkVars, sessionVars
<1>4. id \in Nat /\ life \in Nat /\ Lots \in Nat
  BY BrokerBounds DEF LiveInv, OrdersOwned
<1>5. new \in VenueOrder /\ new.id = id /\ new.life = life
  BY <1>1, <1>4 DEF VenueOrder
<1> HIDE DEF new
<1>6. orders \in Seq(VenueOrder) /\ DOMAIN orders = 1..Len(orders) /\ Len(orders) \in Nat
  BY DEF LiveInv, LiveTypeOK
<1>7. /\ orders' \in Seq(VenueOrder) /\ Len(orders) <= Len(orders') /\ Len(orders') \in Nat
      /\ DOMAIN orders \subseteq DOMAIN orders' /\ \A o \in DOMAIN orders : orders'[o] = orders[o]
      /\ \A o \in DOMAIN orders' : o \in DOMAIN orders \/ (sent /\ orders'[o] = new)
  <2>1. CASE sent
    <3>1. orders' = Append(orders, new)
      BY <1>2, <2>1
    <3>2. Len(orders') = Len(orders) + 1 /\ orders' \in Seq(VenueOrder)
      BY <1>5, <1>6, <3>1
    <3>3. DOMAIN orders' = 1..(Len(orders) + 1)
      BY <1>6, <3>1, <3>2
    <3>4. /\ orders'[Len(orders) + 1] = new /\ \A o \in 1..Len(orders) : orders'[o] = orders[o]
      BY <1>6, <3>1
    <3> QED
      BY <1>6, <2>1, <3>2, <3>3, <3>4
  <2>2. CASE ~sent
    BY <1>2, <1>6, <2>2
  <2> QED
    BY <2>1, <2>2
<1>8. LiveTypeOK'
  <2>1. venueOf' \in [Ids -> 0..Len(orders')]
    <3>1. venueOf \in [Ids -> 0..Len(orders)]
      BY DEF LiveInv, LiveTypeOK
    <3>2. 0..Len(orders) \subseteq 0..Len(orders')
      BY <1>6, <1>7
    <3> QED
      BY <1>2, <3>1, <3>2
  <2>2. pending' \in [Ids -> 0..Lots]
    <3>1. 0 \in 0..Lots /\ Lots \in 0..Lots
      BY <1>4
    <3> QED
      BY <1>2, <3>1 DEF LiveInv, LiveTypeOK
  <2>3. tracked' \subseteq Ids /\ working' \subseteq Ids
    BY <1>1, <1>2 DEF LiveInv, LiveTypeOK
  <2> QED
    BY <1>3, <1>7, <2>1, <2>2, <2>3 DEF LiveInv, LiveTypeOK
<1>9. OrdersOwned'
  <2>1. nextId' \in Nat \ {0} /\ life' = life
    BY <1>2, <1>3, <1>4
  <2>2. \A o \in DOMAIN orders' :
          orders'[o].life <= life /\ (orders'[o].life = life => orders'[o].id < id + 1)
    <3> SUFFICES ASSUME NEW o \in DOMAIN orders'
                 PROVE  orders'[o].life <= life /\ (orders'[o].life = life => orders'[o].id < id + 1)
      OBVIOUS
    <3>1. CASE o \in DOMAIN orders
      <4>1. orders[o] \in VenueOrder
        BY <1>6, <3>1
      <4>2. orders[o].id \in Nat /\ orders[o].life \in Nat
        BY <4>1 DEF VenueOrder, Ids
      <4>3. orders[o].life <= life /\ (orders[o].life = life => orders[o].id < id)
        BY <3>1 DEF LiveInv, OrdersOwned
      <4> QED
        BY <1>4, <1>7, <3>1, <4>2, <4>3
    <3>2. CASE o \notin DOMAIN orders
      BY <1>4, <1>5, <1>7, <3>2
    <3> QED
      BY <3>1, <3>2
  <2> QED
    BY <1>2, <1>4, <2>1, <2>2 DEF OrdersOwned
<1>10. LogSound'
  BY <1>3, <1>7 DEF LiveInv, LogSound
<1>11. Memory'
  <2> SUFFICES ASSUME NEW o \in DOMAIN orders',
                      orders'[o].life = life', orders'[o].state # "done", OwnId(o)'
               PROVE  orders'[o].id \in working' /\ orders'[o].id \in tracked'
    BY DEF Memory, IdOf
  <2>1. CASE o \in DOMAIN orders
    <3>1. orders[o].life = life /\ orders[o].state # "done" /\ OwnId(o)
      BY <1>3, <1>7, <2>1 DEF OwnId
    <3>2. orders[o].id \in working /\ orders[o].id \in tracked
      BY <2>1, <3>1 DEF LiveInv, Memory, IdOf
    <3>3. orders[o].id \in Nat /\ orders[o].id < id
      <4>1. orders[o] \in VenueOrder
        BY <1>6, <2>1
      <4>2. orders[o].id \in Nat
        BY <4>1 DEF VenueOrder, Ids
      <4> QED
        BY <2>1, <3>1, <4>2 DEF LiveInv, OrdersOwned
    <3> QED
      BY <1>2, <1>4, <1>7, <2>1, <3>2, <3>3
  <2>2. CASE o \notin DOMAIN orders
    BY <1>2, <1>5, <1>7, <2>2
  <2> QED
    BY <2>1, <2>2
<1>12. BatchSound' /\ BookedSound' /\ WatermarkKept' /\ DiskTyped' /\ CountersTyped' /\ PhasesSound'
  BY <1>1, <1>2, CallKeeps
<1> QED
  BY <1>8, <1>9, <1>10, <1>11, <1>12 DEF LiveInv

(***************************************************************************)
(* What a change of one order at the venue leaves as it was.               *)
(***************************************************************************)
OrderChanged(o, r) ==
  /\ o \in DOMAIN orders /\ orders' = [orders EXCEPT ![o] = r]
  /\ r \in VenueOrder /\ r.id = orders[o].id /\ r.life = orders[o].life
  /\ orders[o].state = "done" => r.state = "done"

(***************************************************************************)
(* An order that changes at the venue keeps its id and its process, and    *)
(* never comes back once it is done.                                       *)
(***************************************************************************)
LEMMA OrderChangedKeeps ==
  ASSUME LiveInv, NEW o, NEW r, OrderChanged(o, r),
         UNCHANGED <<life, nextId, working, tracked>>
  PROVE  /\ orders' \in Seq(VenueOrder) /\ Len(orders') = Len(orders)
         /\ DOMAIN orders' = DOMAIN orders
         /\ \A p \in DOMAIN orders : orders[p].state = "done" => orders'[p].state = "done"
         /\ OrdersOwned' /\ Memory'
<1>1. orders \in Seq(VenueOrder)
  BY DEF LiveInv, LiveTypeOK
<1>2. /\ orders' \in Seq(VenueOrder) /\ Len(orders') = Len(orders) /\ DOMAIN orders' = DOMAIN orders
  BY <1>1, ExceptSeq DEF OrderChanged
<1>3. /\ orders'[o] = r /\ \A p \in DOMAIN orders : p # o => orders'[p] = orders[p]
  BY <1>1 DEF OrderChanged
<1>4. \A p \in DOMAIN orders :
        /\ orders'[p].id = orders[p].id /\ orders'[p].life = orders[p].life
        /\ orders[p].state = "done" => orders'[p].state = "done"
  BY <1>3 DEF OrderChanged
<1>5. OrdersOwned'
  BY <1>2, <1>4 DEF LiveInv, OrdersOwned
<1>6. Memory'
  BY <1>2, <1>4 DEF LiveInv, Memory, OwnId, IdOf
<1> QED
  BY <1>2, <1>4, <1>5, <1>6

(***************************************************************************)
(* cancel() and replace() only ask: the order stays remembered until the   *)
(* venue answers.                                                          *)
(***************************************************************************)
LEMMA StepAsk ==
  \A id \in Ids, what \in {"cancel", "replace"} : LiveInv /\ Ask(id, what) => LiveInv'
<1> SUFFICES ASSUME NEW id \in Ids, NEW what \in {"cancel", "replace"}, LiveInv, Ask(id, what)
             PROVE  LiveInv'
  OBVIOUS
<1> DEFINE o == venueOf[id]
           r == [orders[o] EXCEPT !.asked = what]
<1>1. /\ CallFrame /\ at = "idle" /\ phase # "Created" /\ o # 0
      /\ orders' = [orders EXCEPT ![o].asked = what]
      /\ UNCHANGED <<working, tracked, venueOf, pending, account, batch, nextId, booked>>
  BY DEF Ask, CallFrame, Idle, Started, Request, Asked
<1>2. /\ UNCHANGED <<conn, silence, lastSeq, recent, isOpen, sequenced, log, next, life, phase, at>>
  BY <1>1 DEF CallFrame, linkVars, sessionVars
<1>3. orders \in Seq(VenueOrder) /\ o \in 0..Len(orders)
  BY DEF LiveInv, LiveTypeOK
<1>4. o \in DOMAIN orders
  BY <1>1, <1>3
<1>5. orders[o] \in VenueOrder
  BY <1>3, <1>4
<1>6. orders' = [orders EXCEPT ![o] = r]
  BY <1>1
<1>7. /\ r \in VenueOrder /\ r.id = orders[o].id /\ r.life = orders[o].life
      /\ r.state = orders[o].state
  BY <1>5 DEF VenueOrder
<1>8. OrderChanged(o, r)
  <2> HIDE DEF o, r
  <2> QED
    BY <1>4, <1>6, <1>7 DEF OrderChanged
<1> HIDE DEF o, r
<1>9. /\ orders' \in Seq(VenueOrder) /\ Len(orders') = Len(orders) /\ DOMAIN orders' = DOMAIN orders
      /\ \A p \in DOMAIN orders : orders[p].state = "done" => orders'[p].state = "done"
      /\ OrdersOwned' /\ Memory'
  BY <1>1, <1>2, <1>8, OrderChangedKeeps
<1>10. LiveTypeOK'
  BY <1>1, <1>2, <1>9 DEF LiveInv, LiveTypeOK
<1>11. LogSound'
  BY <1>2, <1>9 DEF LiveInv, LogSound
<1>12. BatchSound' /\ BookedSound' /\ WatermarkKept' /\ DiskTyped' /\ CountersTyped' /\ PhasesSound'
  BY <1>1, CallKeeps
<1> QED
  BY <1>9, <1>10, <1>11, <1>12 DEF LiveInv

-----------------------------------------------------------------------------
(* The venue, the clock and the next process.                              *)

(***************************************************************************)
(* What the venue says is added to the log; what it has said before stands.*)
(***************************************************************************)
LEMMA VenueKeeps ==
  ASSUME LiveInv, HereUnchanged, batch = <<>>, NEW m, Send(m),
         m \in [kind : MessageKinds, o : Nat, q : Int, ahead : BOOLEAN],
         m.kind \notin {"quote", "account"} => m.o \in DOMAIN orders,
         m.kind \in FillKinds => m.q \in 1..(Lots + 1),
         m.kind \in {"rejected", "cancelled", "fill"} => orders'[m.o].state = "done",
         orders' \in Seq(VenueOrder), Len(orders') = Len(orders), DOMAIN orders' = DOMAIN orders,
         \A p \in DOMAIN orders : orders[p].state = "done" => orders'[p].state = "done",
         OrdersOwned', Memory'
  PROVE  LiveInv'
<1>1. /\ UNCHANGED <<conn, silence, lastSeq, recent, isOpen, sequenced, next, life>>
      /\ UNCHANGED <<tracked, working, venueOf, pending, batch, booked>>
      /\ UNCHANGED <<phase, at, sequence, events, buffer, disk>>
  BY DEF HereUnchanged, linkVars, brokerVars, sessionVars
<1> DEFINE M == [kind : MessageKinds, o : Nat, q : Int, ahead : BOOLEAN]
<1>2. log \in Seq(M) /\ m \in M /\ log' = Append(log, m) /\ Len(log) < MaxLog /\ MaxLog \in Nat
  BY LogBound DEF LiveInv, LogSound, Send
<1> HIDE DEF M
<1>3. /\ log' \in Seq(M) /\ Len(log') <= MaxLog
      /\ DOMAIN log \subseteq DOMAIN log' /\ \A i \in DOMAIN log : log'[i] = log[i]
      /\ \A i \in DOMAIN log' : i \in DOMAIN log \/ log'[i] = m
  BY <1>2
<1>4. LogSound'
  <2>1. ASSUME NEW i \in DOMAIN log'
        PROVE  /\ log'[i].kind \notin {"quote", "account"} => log'[i].o \in DOMAIN orders'
               /\ log'[i].kind \in FillKinds => log'[i].q \in 1..(Lots + 1)
               /\ log'[i].kind \in {"rejected", "cancelled", "fill"} => orders'[log'[i].o].state = "done"
    <3>1. CASE i \in DOMAIN log
      <4>1. /\ log[i].kind \notin {"quote", "account"} => log[i].o \in DOMAIN orders
            /\ log[i].kind \in FillKinds => log[i].q \in 1..(Lots + 1)
            /\ log[i].kind \in {"rejected", "cancelled", "fill"} => orders[log[i].o].state = "done"
        BY <3>1 DEF LiveInv, LogSound
      <4> QED
        BY <1>3, <3>1, <4>1
    <3>2. CASE log'[i] = m
      BY <3>2
    <3> QED
      BY <1>3, <3>1, <3>2
  <2> QED
    BY <1>3, <2>1 DEF LogSound, M
<1>5. LiveTypeOK'
  BY <1>1 DEF LiveInv, LiveTypeOK
<1>6. BatchSound' /\ BookedSound'
  <2>1. lastSeq \in Int
    BY DEF LiveInv, LiveTypeOK
  <2> QED
    BY <1>1, <1>3, <2>1, BooksKept
<1>7. WatermarkKept' /\ DiskTyped' /\ CountersTyped' /\ PhasesSound'
  BY <1>1 DEF LiveInv, WatermarkKept, Audible, DiskTyped, CountersTyped, PhasesSound, HereUnchanged,
              brokerVars
<1> QED
  BY <1>4, <1>5, <1>6, <1>7 DEF LiveInv

(***************************************************************************)
(* What was reported so far has a total.                                   *)
(***************************************************************************)
LEMMA ReportedFacts ==
  ASSUME LiveInv
  PROVE  /\ DOMAIN Reported = {j \in DOMAIN log : log[j].kind \in FillKinds}
         /\ \A i \in DOMAIN Reported : Reported[i] = log[i].q /\ log[i].q \in 1..(Lots + 1)
         /\ Executed \in Int
<1>1. DOMAIN Reported = {j \in DOMAIN log : log[j].kind \in FillKinds}
  BY DEF Reported
<1>2. \A i \in DOMAIN Reported : Reported[i] = log[i].q /\ log[i].q \in 1..(Lots + 1)
  BY <1>1 DEF Reported, LiveInv, LogSound
<1>3. IsFiniteSet(DOMAIN Reported)
  <2>1. IsFiniteSet(1..Len(log)) /\ DOMAIN log = 1..Len(log)
    BY ArrivedFacts, FS_Interval
  <2> QED
    BY <1>1, <2>1, FS_Subset
<1>4. \A i \in DOMAIN Reported : Reported[i] \in Int
  BY <1>2
<1>5. Executed \in Int
  BY <1>3, <1>4, SumOfInts DEF Executed
<1> QED
  BY <1>1, <1>2, <1>5

\* The venue says m, and one of its orders becomes r.
VenueTells(o, r, m) ==
  /\ orders' = [orders EXCEPT ![o] = r] /\ r \in VenueOrder
  /\ r.id = orders[o].id /\ r.life = orders[o].life /\ orders[o].state # "done"
  /\ Send(m) /\ m.o = o
  /\ m \in [kind : MessageKinds, o : Nat, q : Int, ahead : BOOLEAN]
  /\ m.kind \in FillKinds => m.q \in 1..(Lots + 1)
  /\ m.kind \in Closing => r.state = "done"

(***************************************************************************)
(* The venue changes an order that it has not done with, and says so.      *)
(***************************************************************************)
LEMMA StepVenueTells ==
  ASSUME LiveInv, HereUnchanged, batch = <<>>, NEW o \in DOMAIN orders, NEW r, NEW m,
         VenueTells(o, r, m)
  PROVE  LiveInv'
<1>1. UNCHANGED <<life, nextId, working, tracked>>
  BY DEF HereUnchanged, brokerVars
<1>2. OrderChanged(o, r)
  BY DEF VenueTells, OrderChanged
<1>3. /\ orders' \in Seq(VenueOrder) /\ Len(orders') = Len(orders) /\ DOMAIN orders' = DOMAIN orders
      /\ \A p \in DOMAIN orders : orders[p].state = "done" => orders'[p].state = "done"
      /\ OrdersOwned' /\ Memory'
  BY <1>1, <1>2, OrderChangedKeeps
<1>4. orders'[o] = r
  BY DEF VenueTells, LiveInv, LiveTypeOK
<1> QED
  BY <1>3, <1>4, VenueKeeps DEF VenueTells, Closing

(***************************************************************************)
(* Whatever the venue does, it does to an order it has not done with, and  *)
(* it closes an order when it says so.                                     *)
(***************************************************************************)
LEMMA StepVenueStep == LiveInv /\ VenueStep => LiveInv'
<1> SUFFICES ASSUME LiveInv, VenueStep PROVE LiveInv'
  OBVIOUS
<1>1. HereUnchanged /\ batch = <<>>
  BY NothingInHand DEF VenueStep, Idle
<1>2. ASSUME NEW o \in DOMAIN orders
      PROVE  /\ orders[o] \in VenueOrder /\ o \in Nat
             /\ orders[o].id \in Ids /\ orders[o].life \in Nat /\ orders[o].left \in Nat
  <2>1. orders[o] \in VenueOrder /\ o \in Nat
    BY DEF LiveInv, LiveTypeOK
  <2> QED
    BY <2>1 DEF VenueOrder
<1>3. CASE \E o \in DOMAIN orders : VenueAnswers(o)
  <2>1. PICK o \in DOMAIN orders, yes \in BOOLEAN :
          /\ orders[o].state = "new"
          /\ orders' = [orders EXCEPT ![o].state = IF yes THEN "open" ELSE "done"]
          /\ Says(o, IF yes THEN "accepted" ELSE "rejected", 0, FALSE)
    BY <1>3 DEF VenueAnswers
  <2> DEFINE r == [orders[o] EXCEPT !.state = IF yes THEN "open" ELSE "done"]
             m == Message(IF yes THEN "accepted" ELSE "rejected", o, 0, FALSE)
  <2>2. /\ r \in VenueOrder /\ r.id = orders[o].id /\ r.life = orders[o].life
        /\ r.state = IF yes THEN "open" ELSE "done"
    BY <1>2 DEF VenueOrder
  <2>3. /\ m \in [kind : MessageKinds, o : Nat, q : Int, ahead : BOOLEAN] /\ m.o = o
        /\ m.kind = IF yes THEN "accepted" ELSE "rejected"
    BY <1>2 DEF Message, MessageKinds
  <2>4. Send(m) /\ orders' = [orders EXCEPT ![o] = r]
    BY <2>1 DEF Says
  <2> HIDE DEF r, m
  <2>5. VenueTells(o, r, m)
    BY <2>1, <2>2, <2>3, <2>4 DEF VenueTells, FillKinds, Closing
  <2> QED
    BY <1>1, <2>5, StepVenueTells
<1>4. CASE \E o \in DOMAIN orders : VenueCancels(o)
  <2>1. PICK o \in DOMAIN orders :
          /\ orders[o].state = "open"
          /\ orders' = [orders EXCEPT ![o].state = "done"]
          /\ Says(o, "cancelled", 0, FALSE)
    BY <1>4 DEF VenueCancels
  <2> DEFINE r == [orders[o] EXCEPT !.state = "done"]
             m == Message("cancelled", o, 0, FALSE)
  <2>2. /\ r \in VenueOrder /\ r.id = orders[o].id /\ r.life = orders[o].life /\ r.state = "done"
    BY <1>2 DEF VenueOrder
  <2>3. /\ m \in [kind : MessageKinds, o : Nat, q : Int, ahead : BOOLEAN] /\ m.o = o
        /\ m.kind = "cancelled"
    BY <1>2 DEF Message, MessageKinds
  <2>4. Send(m) /\ orders' = [orders EXCEPT ![o] = r]
    BY <2>1 DEF Says
  <2> HIDE DEF r, m
  <2>5. VenueTells(o, r, m)
    BY <2>1, <2>2, <2>3, <2>4 DEF VenueTells, FillKinds
  <2> QED
    BY <1>1, <2>5, StepVenueTells
<1>5. CASE \E o \in DOMAIN orders : VenueReplaces(o)
  <2>1. PICK o \in DOMAIN orders :
          /\ orders[o].state = "open"
          /\ orders' = [orders EXCEPT ![o].asked = "nothing", ![o].left = @ + 1]
          /\ Says(o, "replaced", 0, FALSE)
    BY <1>5 DEF VenueReplaces
  <2> DEFINE more == orders[o].left + 1
             r == [[orders[o] EXCEPT !.asked = "nothing"] EXCEPT !.left = more]
             m == Message("replaced", o, 0, FALSE)
  <2>2. /\ r \in VenueOrder /\ r.id = orders[o].id /\ r.life = orders[o].life
    <3>1. more \in Nat
      BY <1>2
    <3> HIDE DEF more
    <3> QED
      BY <1>2, <3>1 DEF VenueOrder
  <2>3. /\ m \in [kind : MessageKinds, o : Nat, q : Int, ahead : BOOLEAN] /\ m.o = o
        /\ m.kind = "replaced"
    BY <1>2 DEF Message, MessageKinds
  <2>4. Send(m) /\ orders' = [orders EXCEPT ![o] = r]
    <3>1. orders' = [orders EXCEPT ![o] = [[orders[o] EXCEPT !.asked = "nothing"] EXCEPT !.left = more]]
      BY <1>2, <2>1 DEF LiveInv, LiveTypeOK
    <3> QED
      BY <2>1, <3>1 DEF Says
  <2> HIDE DEF r, m
  <2>5. VenueTells(o, r, m)
    BY <2>1, <2>2, <2>3, <2>4 DEF VenueTells, FillKinds, Closing
  <2> QED
    BY <1>1, <2>5, StepVenueTells
<1>6. CASE \E o \in DOMAIN orders, q \in 1..(Lots + 1), ahead \in Ahead : VenueFills(o, q, ahead)
  <2>1. PICK o \in DOMAIN orders, q \in 1..(Lots + 1), ahead \in Ahead : VenueFills(o, q, ahead)
    BY <1>6
  <2>2. Lots \in Nat /\ q \in Nat /\ ahead \in BOOLEAN
    BY BrokerBounds, SessionBounds
  <2> DEFINE state == IF q = orders[o].left THEN "done" ELSE "open"
             kind == IF q = orders[o].left THEN "fill" ELSE "partial"
             left == orders[o].left - q
             r == [orders[o] EXCEPT !.left = left, !.state = state]
             m == Message(kind, o, q, ahead)
  <2>3. /\ q <= orders[o].left /\ orders[o].state = "open" /\ Send(m)
        /\ orders' = [orders EXCEPT ![o] = r]
    BY <2>1 DEF VenueFills, Says, LiveInv, LiveTypeOK
  <2>4. left \in Nat
    BY <1>2, <2>2, <2>3
  <2>5. /\ r \in VenueOrder /\ r.id = orders[o].id /\ r.life = orders[o].life /\ r.state = state
    <3> HIDE DEF left
    <3> QED
      BY <1>2, <2>4 DEF VenueOrder
  <2>6. kind \in MessageKinds /\ (kind \in Closing => state = "done")
    BY DEF MessageKinds, FillKinds, Closing
  <2>7. /\ m \in [kind : MessageKinds, o : Nat, q : Int, ahead : BOOLEAN]
        /\ m.o = o /\ m.q = q /\ m.kind = kind
    <3> HIDE DEF kind
    <3> QED
      BY <1>2, <2>2, <2>6 DEF Message
  <2> HIDE DEF r, m, state, kind
  <2>8. VenueTells(o, r, m)
    BY <2>2, <2>3, <2>5, <2>6, <2>7 DEF VenueTells
  <2> QED
    BY <1>1, <2>8, StepVenueTells
<1>7. ASSUME NEW m, Send(m), orders' = orders, m.kind \in {"account", "quote"},
             m \in [kind : MessageKinds, o : Nat, q : Int, ahead : BOOLEAN]
      PROVE  LiveInv'
  <2>1. UNCHANGED <<life, nextId, working, tracked>>
    BY <1>1 DEF HereUnchanged, brokerVars
  <2>2. OrdersOwned' /\ Memory'
    BY <1>7, <2>1 DEF LiveInv, OrdersOwned, Memory, OwnId, IdOf
  <2>3. /\ orders' \in Seq(VenueOrder) /\ Len(orders') = Len(orders) /\ DOMAIN orders' = DOMAIN orders
        /\ \A p \in DOMAIN orders : orders[p].state = "done" => orders'[p].state = "done"
    BY <1>7 DEF LiveInv, LiveTypeOK
  <2> QED
    BY <1>1, <1>7, <2>2, <2>3, VenueKeeps DEF FillKinds
<1>8. CASE VenueReports(Executed)
  <2> DEFINE q == Executed
             m == Message("account", 0, q, FALSE)
  <2>1. Send(m) /\ orders' = orders
    BY <1>8 DEF VenueReports, Says
  <2>2. q \in Int
    BY ReportedFacts
  <2> HIDE DEF q
  <2>3. m \in [kind : MessageKinds, o : Nat, q : Int, ahead : BOOLEAN] /\ m.kind = "account"
    BY <2>2 DEF Message, MessageKinds
  <2> HIDE DEF m
  <2> QED
    BY <1>7, <2>1, <2>3
<1>9. CASE VenueQuotes
  <2> DEFINE m == Message("quote", 0, 0, FALSE)
  <2>1. Send(m) /\ orders' = orders
    BY <1>9 DEF VenueQuotes, Says
  <2>2. m \in [kind : MessageKinds, o : Nat, q : Int, ahead : BOOLEAN] /\ m.kind = "quote"
    BY DEF Message, MessageKinds
  <2> HIDE DEF m
  <2> QED
    BY <1>7, <2>1, <2>2
<1> QED
  BY <1>3, <1>4, <1>5, <1>6, <1>8, <1>9 DEF VenueStep

(***************************************************************************)
(* Time without a message changes only how late the venue is.              *)
(***************************************************************************)
LEMMA StepSilence == LiveInv /\ Silence => LiveInv'
<1> SUFFICES ASSUME LiveInv, Silence PROVE LiveInv'
  OBVIOUS
<1>1. /\ at = "idle" /\ silence < 2 /\ silence' = silence + 1
      /\ UNCHANGED <<conn, lastSeq, recent, isOpen, sequenced, log, next, life, orders>>
      /\ UNCHANGED <<tracked, working, venueOf, pending, account, batch, nextId, booked>>
      /\ UNCHANGED <<phase, at, sequence, events, buffer, disk>>
  BY DEF Silence, Idle, brokerVars, sessionVars
<1>2. batch = <<>> /\ lastSeq \in Int
  BY <1>1, NothingInHand DEF LiveInv, LiveTypeOK
<1>3. LiveTypeOK'
  <2>1. silence' \in 0..2
    BY <1>1 DEF LiveInv, LiveTypeOK
  <2> QED
    BY <1>1, <2>1 DEF LiveInv, LiveTypeOK
<1>4. LogSound' /\ OrdersOwned' /\ Memory'
  BY <1>1, VenueStill
<1>5. BatchSound' /\ BookedSound'
  BY <1>1, <1>2, BooksKept
<1>6. WatermarkKept' /\ DiskTyped' /\ CountersTyped' /\ PhasesSound'
  BY <1>1 DEF LiveInv, WatermarkKept, Audible, DiskTyped, CountersTyped, PhasesSound
<1> QED
  BY <1>3, <1>4, <1>5, <1>6 DEF LiveInv

(***************************************************************************)
(* The next process knows no order of an earlier one for its own.          *)
(***************************************************************************)
LEMMA StepNewProcess == LiveInv /\ NewProcess => LiveInv'
<1> SUFFICES ASSUME LiveInv, NewProcess PROVE LiveInv'
  OBVIOUS
<1>1. /\ life' = life + 1 /\ conn' = "Disconnected" /\ silence' = 0 /\ lastSeq' = 0
      /\ recent' = {} /\ isOpen' = FALSE /\ tracked' = {} /\ working' = {}
      /\ venueOf' = [id \in Ids |-> 0] /\ pending' = [id \in Ids |-> 0] /\ batch' = <<>>
      /\ nextId' = 1 /\ booked' = {} /\ phase' = "Created" /\ at' = "idle"
      /\ sequence' = 0 /\ events' = 0 /\ next' = 1
      /\ UNCHANGED <<sequenced, log, orders, disk>>
  BY DEF NewProcess
<1>2. MaxLog \in Nat /\ Lots \in Nat /\ Len(orders) \in Nat
  BY LogBound, BrokerBounds DEF LiveInv, LiveTypeOK
<1>3. LiveTypeOK'
  <2>1. venueOf' \in [Ids -> 0..Len(orders')] /\ pending' \in [Ids -> 0..Lots]
    BY <1>1, <1>2
  <2>2. lastSeq' \in 0..MaxLog /\ silence' \in 0..2 /\ next' \in 1..(MaxLog + 1)
    BY <1>1, <1>2
  <2> QED
    BY <1>1, <2>1, <2>2 DEF LiveInv, LiveTypeOK, Phases
<1>4. \A o \in DOMAIN orders : orders[o].life < life' /\ orders[o].life <= life'
  <2> SUFFICES ASSUME NEW o \in DOMAIN orders PROVE orders[o].life < life' /\ orders[o].life <= life'
    OBVIOUS
  <2>1. orders[o] \in VenueOrder
    BY DEF LiveInv, LiveTypeOK
  <2>2. orders[o].life \in Nat
    BY <2>1 DEF VenueOrder
  <2>3. orders[o].life <= life /\ life \in Nat
    BY DEF LiveInv, OrdersOwned
  <2> QED
    BY <1>1, <2>2, <2>3
<1>5. life' \in Nat
  BY <1>1 DEF LiveInv, OrdersOwned
<1>6. \A o \in DOMAIN orders : orders[o].life # life'
  <2> SUFFICES ASSUME NEW o \in DOMAIN orders PROVE orders[o].life # life'
    OBVIOUS
  <2>1. orders[o] \in VenueOrder
    BY DEF LiveInv, LiveTypeOK
  <2>2. orders[o].life \in Nat
    BY <2>1 DEF VenueOrder
  <2> QED
    BY <1>4, <1>5, <2>2
<1>7. OrdersOwned' /\ Memory'
  BY <1>1, <1>4, <1>5, <1>6 DEF OrdersOwned, Memory
<1>8. LogSound' /\ BatchSound' /\ BookedSound'
  BY <1>1 DEF LiveInv, LogSound, BatchSound, BookedSound
<1>9. WatermarkKept' /\ DiskTyped' /\ CountersTyped' /\ PhasesSound'
  BY <1>1 DEF LiveInv, WatermarkKept, DiskTyped, CountersTyped, PhasesSound, Terminal
<1> QED
  BY <1>3, <1>7, <1>8, <1>9 DEF LiveInv

-----------------------------------------------------------------------------
(* The invariant, and what follows from it.                                *)

(***************************************************************************)
(* Every step of the session, the venue, the clock and the crash keeps the *)
(* invariant.                                                              *)
(***************************************************************************)
LEMMA StepLiveInv == LiveInv /\ [LiveNext]_liveVars => LiveInv'
<1> SUFFICES ASSUME LiveInv, [LiveNext]_liveVars PROVE LiveInv'
  OBVIOUS
<1>1. CASE UNCHANGED liveVars
  <2>1. /\ UNCHANGED <<conn, silence, lastSeq, recent, isOpen, sequenced, log, next, life, orders>>
        /\ UNCHANGED <<tracked, working, venueOf, pending, account, batch, nextId, booked>>
        /\ UNCHANGED <<phase, at, sequence, events, buffer, disk>>
    BY <1>1 DEF liveVars, linkVars, brokerVars, sessionVars
  <2>2. LiveTypeOK' /\ LogSound' /\ OrdersOwned' /\ Memory'
    BY <2>1, VenueStill DEF LiveInv, LiveTypeOK
  <2>3. BatchSound' /\ BookedSound'
    BY <2>1 DEF LiveInv, BatchSound, BookedSound, Remembered
  <2>4. WatermarkKept' /\ DiskTyped' /\ CountersTyped' /\ PhasesSound'
    BY <2>1 DEF LiveInv, WatermarkKept, Audible, DiskTyped, CountersTyped, PhasesSound
  <2> QED
    BY <2>2, <2>3, <2>4 DEF LiveInv
<1>2. CASE Start \/ StartFails \/ Halt \/ Resume \/ Shutdown
  BY <1>2, StepStart, StepStartFails, StepQuiet, StepShutdown
<1>3. CASE Step
  BY <1>3, StepStepBegin, StepBrokerPoll, StepHandleMessage, StepPump, StepDispatch, StepQuiet DEF Step
<1>4. CASE \/ \E sent \in BOOLEAN : Order(sent)
           \/ \E id \in Ids, what \in {"cancel", "replace"} : Ask(id, what)
  BY <1>4, StepOrder, StepAsk
<1>5. CASE VenueStep \/ Silence \/ NewProcess
  BY <1>5, StepVenueStep, StepSilence, StepNewProcess
<1> QED
  BY <1>1, <1>2, <1>3, <1>4, <1>5 DEF LiveNext

(***************************************************************************)
(* The invariant holds in every state of every run.                        *)
(***************************************************************************)
LEMMA LiveInvHolds == LiveSpec => []LiveInv
<1> QED
  BY InitLiveInv, StepLiveInv, PTL DEF LiveSpec

(***************************************************************************)
(* LiveBroker: an order of this process that lives at the venue is one the *)
(* broker still counts as working and still recognises, however messages   *)
(* are lost or delivered again and whatever is cancelled or replaced.      *)
(***************************************************************************)
THEOREM OrdersStayRemembered == LiveSpec => []LiveOrdersRemembered
<1>1. LiveInv => LiveOrdersRemembered
  BY DEF LiveInv, Memory, LiveOrdersRemembered
<1> QED
  BY <1>1, LiveInvHolds, PTL

-----------------------------------------------------------------------------
(* The broker books what the venue reported, once.                         *)

\* This step books the report i, which waits at the head of the batch.
BooksReport(i) ==
  /\ i \in DOMAIN log /\ i \notin booked /\ log[i].kind \in FillKinds
  /\ booked' = booked \cup {i} /\ total' = total + log[i].q /\ log' = log
  /\ sequenced => i > disk.watermark

(***************************************************************************)
(* A step books nothing, or the report at the head of the batch, or starts *)
(* a new process.                                                          *)
(***************************************************************************)
LEMMA WhatIsBooked ==
  ASSUME LiveInv, [LiveNext]_liveVars
  PROVE  \/ UNCHANGED <<booked, total>> /\ (log' = log \/ VenueStep)
         \/ \E i \in DOMAIN log : BooksReport(i)
         \/ booked' = {} /\ total' = 0 /\ log' = log
<1>1. CASE UNCHANGED liveVars
  BY <1>1 DEF liveVars, brokerVars
<1>2. CASE Start \/ StartFails \/ Halt \/ Resume \/ Shutdown
  BY <1>2 DEF Start, StartFails, Halt, Resume, Shutdown, LinkAndBrokerUnchanged, brokerVars
<1>3. CASE Step
  <2>1. CASE StepBegin \/ DispatchFails \/ StepEnd
    BY <2>1 DEF StepBegin, DispatchFails, StepEnd, LinkAndBrokerUnchanged, brokerVars
  <2>2. CASE BrokerPoll \/ Pump
    <3>1. UNCHANGED <<booked, total>>
      BY <2>2 DEF BrokerPoll, Pump, brokerVars
    <3>2. log' = log
      <4>1. \E taken : Polled(taken)
        BY <2>2 DEF BrokerPoll, Pump
      <4> QED
        BY <4>1 DEF Polled
    <3> QED
      BY <3>1, <3>2
  <2>3. CASE HandleMessage
    <3> DEFINE i == Head(batch)
    <3>1. /\ batch # <<>> /\ log' = log
          /\ UNCHANGED <<booked, total>> \/ (~Refused(log[i]) /\ Handle(i, log[i]))
      BY <2>3 DEF HandleMessage
    <3>2. batch \in Seq(Nat) /\ 1 \in DOMAIN batch /\ batch[1] = i
      BY <3>1 DEF LiveInv, BatchSound
    <3>3. /\ i \in DOMAIN log /\ (sequenced => i > disk.watermark)
          /\ log[i].kind \in FillKinds => i \notin booked
      BY <3>2 DEF LiveInv, BatchSound, Remembered
    <3> HIDE DEF i
    <3>4. CASE ~Refused(log[i]) /\ Handle(i, log[i])
      <4>1. \/ UNCHANGED <<booked, total>>
            \/ booked' = booked \cup {i} /\ total' = total + log[i].q /\ log[i].kind \in FillKinds
        BY <3>3, <3>4, HandleFacts
      <4> QED
        BY <3>1, <3>3, <4>1 DEF BooksReport
    <3> QED
      BY <3>1, <3>4
  <2>4. CASE \E take \in [Ids -> 0..(Lots + 1)] : Dispatch(take)
    BY <2>4 DEF Dispatch
  <2> QED
    BY <1>3, <2>1, <2>2, <2>3, <2>4 DEF Step
<1>4. CASE \/ \E sent \in BOOLEAN : Order(sent)
           \/ \E id \in Ids, what \in {"cancel", "replace"} : Ask(id, what)
  BY <1>4 DEF Order, Submit, Ask, Request
<1>5. CASE VenueStep
  BY <1>5 DEF VenueStep, HereUnchanged, brokerVars
<1>6. CASE Silence \/ NewProcess
  BY <1>6 DEF Silence, NewProcess, brokerVars
<1> QED
  BY <1>1, <1>2, <1>3, <1>4, <1>5, <1>6 DEF LiveNext

(***************************************************************************)
(* No process books a fill that the state it started from, or has saved    *)
(* since, counts as applied: recover() restores the watermark, and the     *)
(* connection drops what is at or below it.                                *)
(***************************************************************************)
THEOREM RestartBooksNothingAgain == LiveSpec => NotBookedAcrossRestart
<1>1. LiveInv /\ [LiveNext]_liveVars
        => [\A i \in booked' \ booked : sequenced => i > disk.watermark]_liveVars
  <2> SUFFICES ASSUME LiveInv, [LiveNext]_liveVars, NEW i \in booked' \ booked, sequenced
               PROVE  i > disk.watermark
    OBVIOUS
  <2> QED
    BY WhatIsBooked DEF BooksReport
<1> QED
  BY <1>1, LiveInvHolds, PTL DEF LiveSpec, NotBookedAcrossRestart

(***************************************************************************)
(* A message of the venue reports one more fill, or none.                  *)
(***************************************************************************)
LEMMA VenueReportsOnce ==
  ASSUME LiveInv, VenueStep
  PROVE  \/ Reported' = Reported
         \/ \E i \in 1..MaxLog, q \in 1..(Lots + 1) :
              /\ i \notin DOMAIN Reported
              /\ Reported' = [x \in DOMAIN Reported \cup {i} |-> IF x = i THEN q ELSE Reported[x]]
<1> DEFINE M == [kind : MessageKinds, o : Nat, q : Int, ahead : BOOLEAN]
           i == Len(log) + 1
<1>1. \E m : Send(m)
  BY DEF VenueStep, VenueAnswers, VenueCancels, VenueReplaces, VenueFills, VenueReports,
         VenueQuotes, Says
<1>2. PICK m : Send(m)
  BY <1>1
<1>3. log \in Seq(M) /\ Len(log) \in Nat /\ Len(log) < MaxLog /\ MaxLog \in Nat /\ log' = Append(log, m)
  BY <1>2, LogBound DEF Send, LiveInv, LogSound
<1>4. LiveInv'
  BY StepVenueStep
<1>5. /\ DOMAIN log' = DOMAIN log \cup {i} /\ i \notin DOMAIN log /\ i \in 1..MaxLog
      /\ log'[i] = m /\ \A j \in DOMAIN log : log'[j] = log[j]
  <2> HIDE DEF M
  <2> QED
    BY <1>3
<1>6. m.kind \in FillKinds => m.q \in 1..(Lots + 1)
  BY <1>4, <1>5 DEF LiveInv, LogSound
<1> HIDE DEF i
<1>7. /\ DOMAIN Reported = {j \in DOMAIN log : log[j].kind \in FillKinds}
      /\ \A j \in DOMAIN Reported : Reported[j] = log[j].q
      /\ Reported' = [j \in {k \in DOMAIN log' : log'[k].kind \in FillKinds} |-> log'[j].q]
      /\ Reported = [j \in DOMAIN Reported |-> Reported[j]]
  BY DEF Reported
<1>8. CASE m.kind \in FillKinds
  <2>1. {k \in DOMAIN log' : log'[k].kind \in FillKinds} = DOMAIN Reported \cup {i}
    BY <1>5, <1>7, <1>8
  <2>2. Reported' = [j \in DOMAIN Reported \cup {i} |-> log'[j].q]
    BY <1>7, <2>1
  <2>3. \A j \in DOMAIN Reported \cup {i} : log'[j].q = IF j = i THEN m.q ELSE Reported[j]
    BY <1>5, <1>7
  <2>4. Reported' = [x \in DOMAIN Reported \cup {i} |-> IF x = i THEN m.q ELSE Reported[x]]
    BY <2>2, <2>3
  <2>5. i \notin DOMAIN Reported
    BY <1>5, <1>7
  <2> QED
    BY <1>5, <1>6, <1>8, <2>4, <2>5
<1>9. CASE m.kind \notin FillKinds
  <2>1. {k \in DOMAIN log' : log'[k].kind \in FillKinds} = DOMAIN Reported
    BY <1>5, <1>7, <1>9
  <2>2. Reported' = [j \in DOMAIN Reported |-> log'[j].q]
    BY <1>7, <2>1
  <2>3. \A j \in DOMAIN Reported : log'[j].q = Reported[j]
    BY <1>5, <1>7
  <2> QED
    BY <1>7, <2>2, <2>3
<1> QED
  BY <1>8, <1>9

(***************************************************************************)
(* The broker implements the ledger: each report of the venue is booked at *)
(* most once by a process, and for the quantity the venue gave, whatever   *)
(* is delivered again after a reconnect.                                   *)
(***************************************************************************)
THEOREM BrokerImplementsLedger == LiveSpec => FillsBookedOnce
<1>1. LiveInit => Ledger!LedgerInit
  <2> SUFFICES ASSUME LiveInit PROVE Ledger!LedgerInit
    OBVIOUS
  <2>1. log = <<>> /\ booked = {} /\ total = 0
    BY DEF LiveInit, LinkInit, EmptyBroker
  <2>2. Reported = << >>
    BY <2>1 DEF Reported
  <2> QED
    BY <2>1, <2>2 DEF Ledger!LedgerInit
<1>2. LiveInv /\ [LiveNext]_liveVars => [Ledger!LedgerNext]_(Ledger!ledgerVars)
  <2> SUFFICES ASSUME LiveInv, [LiveNext]_liveVars
               PROVE  Ledger!LedgerNext \/ UNCHANGED <<Reported, booked, total>>
    BY DEF Ledger!ledgerVars
  <2>1. log' = log => Reported' = Reported
    BY DEF Reported
  <2>2. CASE UNCHANGED <<booked, total>> /\ log' = log
    BY <2>1, <2>2
  <2>3. CASE UNCHANGED <<booked, total>> /\ VenueStep
    <3>1. CASE Reported' = Reported
      BY <2>3, <3>1
    <3>2. CASE \E i \in 1..MaxLog, q \in 1..(Lots + 1) :
                 /\ i \notin DOMAIN Reported
                 /\ Reported' = [x \in DOMAIN Reported \cup {i} |-> IF x = i THEN q ELSE Reported[x]]
      BY <2>3, <3>2 DEF Ledger!LedgerNext, Ledger!Report
    <3> QED
      BY <2>3, <3>1, <3>2, VenueReportsOnce
  <2>4. CASE \E i \in DOMAIN log : BooksReport(i)
    <3>1. PICK i \in DOMAIN log : BooksReport(i)
      BY <2>4
    <3>2. i \in 1..MaxLog /\ i \in DOMAIN Reported /\ Reported[i] = log[i].q
      BY <3>1, ArrivedFacts, ReportedFacts DEF BooksReport
    <3>3. Ledger!Book(i)
      BY <2>1, <3>1, <3>2 DEF BooksReport, Ledger!Book
    <3> QED
      BY <3>2, <3>3 DEF Ledger!LedgerNext
  <2>5. CASE booked' = {} /\ total' = 0 /\ log' = log
    BY <2>1, <2>5 DEF Ledger!LedgerNext, Ledger!NewBook
  <2> QED
    BY <2>2, <2>3, <2>4, <2>5, WhatIsBooked
<1> QED
  BY <1>1, <1>2, LiveInvHolds, PTL DEF LiveSpec, FillsBookedOnce, Ledger!LedgerSpec

-----------------------------------------------------------------------------
(***************************************************************************)
(* Past its health check, a step of a running session is over a connection *)
(* that is ready and has not been silent for the limit.                    *)
(***************************************************************************)
Healthy == ~Idle /\ phase = "Running" => conn = "Ready" /\ silence < 2

(***************************************************************************)
(* The health check establishes it, the broker's poll and the pump only    *)
(* shorten the silence, and nothing else of a step touches the connection. *)
(***************************************************************************)
LEMMA StepHealthy == LiveTypeOK /\ Healthy /\ [LiveNext]_liveVars => Healthy'
<1> SUFFICES ASSUME LiveTypeOK, Healthy, [LiveNext]_liveVars PROVE Healthy'
  OBVIOUS
<1>1. CASE UNCHANGED liveVars
  BY <1>1 DEF Healthy, Idle, liveVars, linkVars, sessionVars
<1>2. CASE Start \/ StartFails \/ Halt \/ Resume \/ Shutdown \/ Silence \/ NewProcess
  BY <1>2 DEF Healthy, Start, StartFails, Halt, Resume, Shutdown, Silence, NewProcess, Idle,
              sessionVars
<1>3. CASE \/ \E sent \in BOOLEAN : Order(sent)
           \/ \E id \in Ids, what \in {"cancel", "replace"} : Ask(id, what)
           \/ VenueStep
  BY <1>3 DEF Healthy, Order, Ask, VenueStep, HereUnchanged, Idle, linkVars, sessionVars
<1>4. CASE StepBegin
  BY <1>4 DEF StepBegin, PhaseAfterTick, Ticked, Healthy, Idle, LiveTypeOK
<1>5. CASE BrokerPoll \/ Pump
  <2>1. \E taken : Polled(taken)
    BY <1>5 DEF BrokerPoll, Pump
  <2>2. UNCHANGED conn /\ silence' \in {0, silence}
    BY <2>1 DEF Polled, Poll
  <2>3. at \in {"poll", "handle"} /\ UNCHANGED phase
    BY <1>5 DEF BrokerPoll, Pump
  <2> QED
    BY <2>2, <2>3 DEF Healthy, Idle, LiveTypeOK
<1>6. CASE HandleMessage \/ StepEnd \/ DispatchFails \/ \E take \in [Ids -> 0..(Lots + 1)] : Dispatch(take)
  BY <1>6 DEF HandleMessage, StepEnd, DispatchFails, Dispatch, LinkAndBrokerUnchanged, linkVars,
              Healthy, Idle
<1> QED
  BY <1>1, <1>2, <1>3, <1>4, <1>5, <1>6 DEF LiveNext, Step

(***************************************************************************)
(* SilentVenueNoticed, for every number of orders, messages, events and    *)
(* processes: a running session hands the engine events only over a        *)
(* connection that was ready and heard from when the step began, and is    *)
(* never set running over one that is not ready.                           *)
(***************************************************************************)
THEOREM RunsOnALiveLink == LiveSpec => SilentVenueNoticed
<1>1. LiveInit => LiveInv /\ Healthy
  BY InitLiveInv DEF LiveInit, Healthy, Idle
<1>2. LiveInv /\ Healthy /\ [LiveNext]_liveVars => (LiveInv /\ Healthy)'
  <2>1. LiveInv => LiveTypeOK
    BY DEF LiveInv
  <2> QED
    BY <2>1, StepLiveInv, StepHealthy
<1>3. LiveInv /\ Healthy /\ [LiveNext]_liveVars
        => [/\ phase = "Running" /\ events' > events => conn = "Ready" /\ silence < 2
            /\ phase # "Running" /\ phase' = "Running" => conn' = "Ready"]_liveVars
  <2> SUFFICES ASSUME LiveInv, Healthy, LiveNext
               PROVE  /\ phase = "Running" /\ events' > events => conn = "Ready" /\ silence < 2
                      /\ phase # "Running" /\ phase' = "Running" => conn' = "Ready"
    OBVIOUS
  <2>1. LiveTypeOK /\ events \in Nat
    BY DEF LiveInv, CountersTyped
  <2>2. ASSUME phase = "Running", events' > events PROVE conn = "Ready" /\ silence < 2
    <3>1. \E take \in [Ids -> 0..(Lots + 1)] : Dispatch(take)
      BY <2>1, <2>2 DEF LiveNext, Step, Start, StartFails, Halt, Resume, Shutdown, Order, Ask,
         VenueStep, HereUnchanged, Silence, NewProcess, StepBegin, BrokerPoll, HandleMessage, Pump,
         DispatchFails, StepEnd, sessionVars
    <3> QED
      BY <2>2, <3>1 DEF Dispatch, Healthy, Idle
  <2>3. ASSUME phase # "Running", phase' = "Running" PROVE conn' = "Ready"
    <3>1. Start \/ Resume \/ StepBegin
      BY <2>3 DEF LiveNext, Step, StartFails, Halt, Shutdown, Order, Ask, VenueStep, HereUnchanged,
         Silence, NewProcess, BrokerPoll, HandleMessage, Pump, Dispatch, DispatchFails, StepEnd,
         sessionVars
    <3> QED
      BY <2>3, <3>1 DEF Start, Resume, StepBegin, PermitsTrading, PhaseAfterTick, LinkAndBrokerUnchanged,
         linkVars
  <2> QED
    BY <2>2, <2>3
<1> QED
  BY <1>1, <1>2, <1>3, PTL DEF LiveSpec, SilentVenueNoticed
=============================================================================
