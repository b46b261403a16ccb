------------------------ MODULE SessionDriverProofs -------------------------
(***************************************************************************)
(* Proofs about SessionDriver for every number of clients, driver threads  *)
(* and calls.                                                              *)
(*                                                                         *)
(* What the API reports about the host rests on the driver being alone:    *)
(* between a call of the host and the write of the state that follows it   *)
(* only the place of the one driver thread tells what the host is doing.   *)
(* That the scripts and the queue keep their types needs more: a command   *)
(* is answered to a client that still waits for it, because no client owns *)
(* two commands at a time.                                                 *)
(***************************************************************************)
EXTENDS SessionDriver, SequenceTheorems, TLAPS

Kinds == {"start", "stop", "trade"}

Command == [name : Kinds, owner : Clients \cup {Nobody}]

\* The thread has taken a command and has not answered it yet.
Holding(t) == dpc[t] \in {"taken", "starting", "started", "stopping", "stopped", "failing",
                          "applied", "raised"}

\* The client has passed its check and not yet queued its command.
Asking(place) == place \in {"ensuring", "probing", "clearing", "making", "launching", "queueing"}

\* What a client has left to do; in the middle of a request the first item is
\* the request, and once queued it is a command.
ScriptsTyped ==
  /\ script \in [Clients -> Seq(Kinds \cup {"force", "await", "halt"})]
  /\ \A c \in Clients :
       /\ cpc[c] # "ready" => script[c] # <<>>
       /\ Asking(cpc[c]) => Head(script[c]) \in Kinds

\* Each command in a thread's hands has its kind.
CurrentTyped ==
  /\ current \in [Threads -> [name : Kinds \cup {"none"}, owner : Clients \cup {Nobody}]]
  /\ \A t \in Threads : Holding(t) => current[t] \in Command

\* Whoever owns a command waits for its answer.
OwnersWait ==
  /\ \A i \in DOMAIN queue : queue[i].owner # Nobody => cpc[queue[i].owner] = "waiting"
  /\ \A t \in Threads : Holding(t) /\ current[t].owner # Nobody
                          => cpc[current[t].owner] = "waiting"

\* No client owns two commands.
OneCommandEach ==
  /\ \A i, j \in DOMAIN queue : queue[i].owner = queue[j].owner /\ queue[i].owner # Nobody => i = j
  /\ \A s, t \in Threads : Holding(s) /\ Holding(t) /\ current[s].owner = current[t].owner
                             /\ current[s].owner # Nobody => s = t
  /\ \A i \in DOMAIN queue, t \in Threads :
       Holding(t) /\ queue[i].owner # Nobody => current[t].owner # queue[i].owner

\* What the place of a driver that is alone says of the state and the host.
LoneDriver ==
  /\ \A s, t \in Threads : Alive(s) /\ Alive(t) => s = t
  /\ \A t \in Threads :
       /\ dpc[t] \in {"starting", "started", "stopping", "stopped", "failing"}
            => (state = "RUNNING" => forced)
       /\ dpc[t] \in {"starting", "started", "stopping", "failing"} => state # "STOPPED"
       /\ dpc[t] = "started" => host = "Running"
       /\ dpc[t] = "stopped" => host = "Stopped"
  /\ state = "RUNNING" /\ ~forced => host = "Running" \/ \E t \in Threads : dpc[t] = "broken"
  /\ state = "STOPPED" => host = "Stopped"

DriverInv == /\ TypeOK /\ ScriptsTyped /\ CurrentTyped /\ OwnersWait /\ OneCommandEach
             /\ ~crowded => LoneDriver

(***************************************************************************)
(* The states of the API.                                                  *)
(***************************************************************************)
LEMMA States == DOMAIN Legal = {"STOPPED", "STARTING", "RUNNING", "STOPPING", "ERROR"}
BY DEF Legal

(***************************************************************************)
(* Nothing has been asked of the driver: no script, no command, no         *)
(* session.                                                                *)
(***************************************************************************)
LEMMA InitDriverInv == Init => DriverInv
<1> SUFFICES ASSUME Init PROVE DriverInv
  OBVIOUS
<1>1. TypeOK
  <2>1. queue \in Seq([name: {"start", "stop", "trade"}, owner: Clients \cup {Nobody}])
    BY DEF Init
  <2>2. state = "STOPPED" /\ state \in DOMAIN Legal /\ host = "Stopped"
    BY States DEF Init
  <2>3. calls \in 0..MaxCalls
    BY CallBound DEF Init
  <2> QED
    BY <2>1, <2>2, <2>3 DEF Init, TypeOK, ClientPlaces, ThreadPlaces
<1>2. ScriptsTyped
  <2>1. <<>> \in Seq(Kinds \cup {"force", "await", "halt"})
    OBVIOUS
  <2> QED
    BY <2>1 DEF Init, ScriptsTyped, Asking
<1>3. \A t \in Threads : ~Holding(t) /\ ~Alive(t) /\ dpc[t] = "dead"
  BY DEF Init, Holding, Alive
<1>4. CurrentTyped
  BY <1>3 DEF Init, NoCommand, CurrentTyped
<1>5. OwnersWait /\ OneCommandEach
  BY <1>3 DEF Init, OwnersWait, OneCommandEach
<1>6. LoneDriver
  BY <1>3 DEF Init, LoneDriver
<1> QED
  BY <1>1, <1>2, <1>4, <1>5, <1>6 DEF DriverInv

-----------------------------------------------------------------------------
(* Requests.                                                               *)

(***************************************************************************)
(* The answer to a call that has something left to do keeps the scripts.   *)
(***************************************************************************)
LEMMA FinishFacts ==
  ASSUME DriverInv, NEW c \in Clients, script[c] # <<>>, NEW a, Finish(c, a)
  PROVE  /\ ScriptsTyped'
         /\ cpc' = [cpc EXCEPT ![c] = "ready"]
         /\ cpc' \in [Clients -> ClientPlaces]
<1> DEFINE K == Kinds \cup {"force", "await", "halt"}
<1>1. script \in [Clients -> Seq(K)] /\ cpc \in [Clients -> ClientPlaces]
  BY DEF DriverInv, ScriptsTyped, TypeOK
<1>2. Tail(script[c]) \in Seq(K)
  BY <1>1, HeadTailProperties
<1>3. <<"halt">> \in Seq(K) /\ <<>> \in Seq(K)
  OBVIOUS
<1>4. cpc' = [cpc EXCEPT ![c] = "ready"] /\ "ready" \in ClientPlaces
  BY DEF Finish, ClientPlaces
<1>5. PICK rest \in Seq(K) : script' = [script EXCEPT ![c] = rest]
  BY <1>1, <1>2, <1>3 DEF Finish
<1>6. /\ script' \in [Clients -> Seq(K)] /\ cpc'[c] = "ready"
      /\ \A k \in Clients \ {c} : script'[k] = script[k] /\ cpc'[k] = cpc[k]
  BY <1>1, <1>4, <1>5
<1>7. ScriptsTyped'
  BY <1>6 DEF ScriptsTyped, DriverInv, Asking
<1> QED
  BY <1>1, <1>4, <1>7

(***************************************************************************)
(* A client that does not wait goes to another place of its request, or    *)
(* ends an item of its script.                                             *)
(***************************************************************************)
LEMMA ClientMoves ==
  ASSUME DriverInv, NEW c \in Clients, script[c] # <<>>, cpc[c] # "waiting",
         \/ \E a : Finish(c, a)
         \/ /\ UNCHANGED script
            /\ \E p \in ClientPlaces : /\ cpc' = [cpc EXCEPT ![c] = p]
                                       /\ Asking(p) => Head(script[c]) \in Kinds
  PROVE  /\ ScriptsTyped' /\ cpc' \in [Clients -> ClientPlaces]
         /\ \A k \in Clients : cpc[k] = "waiting" => cpc'[k] = "waiting"
<1>1. cpc \in [Clients -> ClientPlaces]
  BY DEF DriverInv, TypeOK
<1>2. CASE \E a : Finish(c, a)
  <2>1. ScriptsTyped' /\ cpc' = [cpc EXCEPT ![c] = "ready"] /\ cpc' \in [Clients -> ClientPlaces]
    BY <1>2, FinishFacts
  <2> QED
    BY <1>1, <2>1
<1>3. ASSUME UNCHANGED script, NEW p \in ClientPlaces, cpc' = [cpc EXCEPT ![c] = p],
             Asking(p) => Head(script[c]) \in Kinds
      PROVE  /\ ScriptsTyped' /\ cpc' \in [Clients -> ClientPlaces]
             /\ \A k \in Clients : cpc[k] = "waiting" => cpc'[k] = "waiting"
  <2>1. cpc'[c] = p /\ \A k \in Clients \ {c} : cpc'[k] = cpc[k]
    BY <1>1, <1>3
  <2>2. ScriptsTyped'
    BY <1>3, <2>1 DEF DriverInv, ScriptsTyped, Asking
  <2> QED
    BY <1>1, <1>3, <2>1, <2>2
<1> QED
  BY <1>2, <1>3

(***************************************************************************)
(* A step that leaves the commands where they are and lets every client    *)
(* that waits go on waiting disturbs no command.                           *)
(***************************************************************************)
LEMMA CommandsKept ==
  ASSUME DriverInv, queue' = queue, current' = current,
         \A t \in Threads : Holding(t)' => Holding(t),
         \A c \in Clients : cpc[c] = "waiting" => cpc'[c] = "waiting"
  PROVE  OwnersWait' /\ OneCommandEach' /\ CurrentTyped'
<1>1. /\ \A i \in DOMAIN queue : queue[i].owner \in Clients \cup {Nobody}
      /\ \A t \in Threads : current[t].owner \in Clients \cup {Nobody}
  <2>1. queue \in Seq(Command)
    BY DEF DriverInv, TypeOK, Command, Kinds
  <2>2. \A i \in DOMAIN queue : queue[i] \in Command
    BY <2>1
  <2>3. \A i \in DOMAIN queue : queue[i].owner \in Clients \cup {Nobody}
    BY <2>2 DEF Command
  <2> QED
    BY <2>3 DEF DriverInv, CurrentTyped
<1>2. OwnersWait'
  BY <1>1 DEF DriverInv, OwnersWait
<1>3. OneCommandEach'
  BY DEF DriverInv, OneCommandEach
<1>4. CurrentTyped'
  BY DEF DriverInv, CurrentTyped
<1> QED
  BY <1>2, <1>3, <1>4

(***************************************************************************)
(* A step of a client that only reads keeps the invariant.                 *)
(***************************************************************************)
LEMMA ClientReads ==
  ASSUME DriverInv, UNCHANGED <<state, hostVars, queue, dpc, current, calls, historyVars>>,
         handle' \in Threads \cup {Nobody}, stopFlag' \in BOOLEAN,
         ScriptsTyped', cpc' \in [Clients -> ClientPlaces],
         \A k \in Clients : cpc[k] = "waiting" => cpc'[k] = "waiting"
  PROVE  DriverInv'
<1>1. TypeOK'
  BY DEF DriverInv, TypeOK, hostVars, historyVars
<1>2. OwnersWait' /\ OneCommandEach' /\ CurrentTyped'
  BY CommandsKept DEF Holding
<1>3. ~crowded' => LoneDriver'
  BY DEF DriverInv, LoneDriver, Alive, hostVars, historyVars
<1> QED
  BY <1>1, <1>2, <1>3 DEF DriverInv

(***************************************************************************)
(* A call starts a script.                                                 *)
(***************************************************************************)
LEMMA StepCall == \A c \in Clients, op \in Ops : DriverInv /\ Call(c, op) => DriverInv'
<1> SUFFICES ASSUME NEW c \in Clients, NEW op \in Ops, DriverInv, Call(c, op) PROVE DriverInv'
  OBVIOUS
<1>1. TypeOK'
  <2>1. calls' \in 0..MaxCalls
    BY CallBound DEF Call, DriverInv, TypeOK
  <2> QED
    BY <2>1 DEF DriverInv, TypeOK, Call, hostVars, driverVars, historyVars
<1>2. ScriptOf(op) \in Seq(Kinds \cup {"force", "await", "halt"})
  <2>1. op \in Kinds \cup {"reset", "shutdown"}
    BY KnownOps DEF Kinds
  <2> DEFINE K == Kinds \cup {"force", "await", "halt"}
  <2>2. CASE op \in {"reset", "shutdown"}
    <3>1. ScriptOf(op) \in {<<"stop", "await", "start">>, <<"start">>,
                            <<"force", "stop", "await", "halt">>, <<"halt">>}
      BY <2>2 DEF ScriptOf
    <3>2. \A w, x, y, z \in K : <<x, y, z>> \in Seq(K) /\ <<x>> \in Seq(K) /\ <<w, x, y, z>> \in Seq(K)
      OBVIOUS
    <3>3. "stop" \in K /\ "start" \in K /\ "await" \in K /\ "halt" \in K /\ "force" \in K
      BY DEF Kinds
    <3> HIDE DEF K
    <3>4. /\ <<"stop", "await", "start">> \in Seq(K) /\ <<"start">> \in Seq(K)
          /\ <<"force", "stop", "await", "halt">> \in Seq(K) /\ <<"halt">> \in Seq(K)
      BY <3>2, <3>3
    <3>5. ScriptOf(op) \in Seq(K)
      BY <3>1, <3>4
    <3> QED
      BY <3>5 DEF K
  <2>4. CASE op \in Kinds
    <3>1. ScriptOf(op) = <<op>>
      BY <2>4 DEF ScriptOf, Kinds
    <3> QED
      BY <2>4, <3>1
  <2> QED
    BY <2>1, <2>2, <2>4
<1>3. cpc[c] = "ready"
  BY DEF Call, DriverInv, ScriptsTyped, TypeOK
<1>4. ScriptsTyped'
  BY <1>2, <1>3 DEF DriverInv, ScriptsTyped, Call, Asking
<1>5. OwnersWait' /\ OneCommandEach' /\ CurrentTyped'
  BY CommandsKept DEF Call, driverVars, Holding
<1>6. ~crowded' => LoneDriver'
  BY DEF Call, DriverInv, LoneDriver, Alive, hostVars, driverVars, historyVars
<1> QED
  BY <1>1, <1>4, <1>5, <1>6 DEF DriverInv

(***************************************************************************)
(* The steps of a request that read the state or the handle.               *)
(***************************************************************************)
LEMMA StepRead ==
  \A c \in Clients :
    DriverInv /\ (SeeError(c) \/ Check(c) \/ SeeThread(c) \/ Probe(c) \/ Await(c)
                    \/ SeeHandle(c) \/ Join(c)) => DriverInv'
<1> SUFFICES ASSUME NEW c \in Clients, DriverInv,
                    SeeError(c) \/ Check(c) \/ SeeThread(c) \/ Probe(c) \/ Await(c)
                      \/ SeeHandle(c) \/ Join(c)
             PROVE  DriverInv'
  OBVIOUS
<1>1. UNCHANGED <<state, hostVars, queue, driverVars, calls, historyVars>>
  BY DEF SeeError, Check, SeeThread, Probe, Await, SeeHandle, Join
<1>2. script[c] # <<>> /\ cpc[c] # "waiting" /\ (Asking(cpc[c]) => Head(script[c]) \in Kinds)
  BY DEF SeeError, Check, SeeThread, Probe, Await, SeeHandle, Join, Pending, Proceed, DriverInv,
         ScriptsTyped
<1> DEFINE Moves == \/ \E a : Finish(c, a)
                    \/ /\ UNCHANGED script
                       /\ \E p \in ClientPlaces : /\ cpc' = [cpc EXCEPT ![c] = p]
                                                  /\ Asking(p) => Head(script[c]) \in Kinds
<1>3. SeeError(c) => Moves
  BY DEF SeeError, Proceed, ClientPlaces, Asking
<1>4. Check(c) => Moves
  BY DEF Check, Proceed, Pending, Kinds, ClientPlaces
<1>5. SeeThread(c) => Moves
  BY <1>2 DEF SeeThread, Proceed, ClientPlaces, Asking
<1>6. Probe(c) => Moves
  BY <1>2 DEF Probe, Proceed, ClientPlaces, Asking
<1>7. Await(c) => Moves
  BY DEF Await
<1>8. SeeHandle(c) => Moves
  BY DEF SeeHandle, Proceed, ClientPlaces, Asking
<1>9. Join(c) => Moves
  BY DEF Join, Proceed, ClientPlaces, Asking
<1>10. Moves
  BY <1>3, <1>4, <1>5, <1>6, <1>7, <1>8, <1>9
<1>11. /\ ScriptsTyped' /\ cpc' \in [Clients -> ClientPlaces]
       /\ \A k \in Clients : cpc[k] = "waiting" => cpc'[k] = "waiting"
  BY <1>2, <1>10, ClientMoves
<1>12. handle' \in Threads \cup {Nobody} /\ stopFlag' \in BOOLEAN
  BY <1>1 DEF driverVars, DriverInv, TypeOK
<1> QED
  BY <1>1, <1>11, <1>12, ClientReads DEF driverVars

(***************************************************************************)
(* The flag is raised and cleared, the thread forgotten.                   *)
(***************************************************************************)
LEMMA StepFlag ==
  \A c \in Clients : DriverInv /\ (ClearFlag(c) \/ RaiseFlag(c) \/ Forget(c)) => DriverInv'
<1> SUFFICES ASSUME NEW c \in Clients, DriverInv, ClearFlag(c) \/ RaiseFlag(c) \/ Forget(c)
             PROVE  DriverInv'
  OBVIOUS
<1>1. /\ UNCHANGED <<state, hostVars, queue, dpc, current, calls, historyVars>>
      /\ handle' \in Threads \cup {Nobody} /\ stopFlag' \in BOOLEAN
  BY DEF ClearFlag, RaiseFlag, Forget, DriverInv, TypeOK
<1>2. script[c] # <<>> /\ cpc[c] # "waiting" /\ (Asking(cpc[c]) => Head(script[c]) \in Kinds)
  BY DEF ClearFlag, RaiseFlag, Forget, Pending, Proceed, DriverInv, ScriptsTyped
<1>3. \/ \E a : Finish(c, a)
      \/ /\ UNCHANGED script
         /\ \E p \in ClientPlaces : /\ cpc' = [cpc EXCEPT ![c] = p]
                                    /\ Asking(p) => Head(script[c]) \in Kinds
  BY <1>2 DEF ClearFlag, RaiseFlag, Forget, Proceed, ClientPlaces, Asking
<1>4. /\ ScriptsTyped' /\ cpc' \in [Clients -> ClientPlaces]
      /\ \A k \in Clients : cpc[k] = "waiting" => cpc'[k] = "waiting"
  BY <1>2, <1>3, ClientMoves
<1> QED
  BY <1>1, <1>4, ClientReads

(***************************************************************************)
(* shutdown() writes RUNNING and is on record as having done so.           *)
(***************************************************************************)
LEMMA StepForce == \A c \in Clients : DriverInv /\ ForceRunning(c) => DriverInv'
<1> SUFFICES ASSUME NEW c \in Clients, DriverInv, ForceRunning(c) PROVE DriverInv'
  OBVIOUS
<1>1. /\ state' = "RUNNING" /\ forced' = TRUE /\ cpc[c] = "forcing" /\ \E a : Finish(c, a)
      /\ UNCHANGED <<hostVars, queue, driverVars, calls, crowded>>
  BY DEF ForceRunning
<1>2. script[c] # <<>> /\ cpc[c] # "waiting"
  BY <1>1 DEF DriverInv, ScriptsTyped
<1>3. /\ ScriptsTyped' /\ cpc' \in [Clients -> ClientPlaces]
      /\ \A k \in Clients : cpc[k] = "waiting" => cpc'[k] = "waiting"
  BY <1>1, <1>2, ClientMoves
<1>4. TypeOK'
  BY <1>1, <1>3, States DEF DriverInv, TypeOK, hostVars, driverVars
<1>5. OwnersWait' /\ OneCommandEach' /\ CurrentTyped'
  BY <1>1, <1>3, CommandsKept DEF driverVars, Holding
<1>6. ~crowded' => LoneDriver'
  BY <1>1 DEF DriverInv, LoneDriver, Alive, hostVars, driverVars
<1> QED
  BY <1>3, <1>4, <1>5, <1>6 DEF DriverInv

(***************************************************************************)
(* A new thread is not alive yet, and holds no command.                    *)
(***************************************************************************)
LEMMA StepMakeThread == \A c \in Clients : DriverInv /\ MakeThread(c) => DriverInv'
<1> SUFFICES ASSUME NEW c \in Clients, DriverInv, MakeThread(c) PROVE DriverInv'
  OBVIOUS
<1>1. PICK t \in Threads \ {handle} :
        ~Alive(t) /\ handle' = t /\ dpc' = [dpc EXCEPT ![t] = "new"]
  BY DEF MakeThread
<1>2. /\ UNCHANGED <<state, hostVars, queue, stopFlag, current, script, calls, historyVars>>
      /\ cpc[c] = "making" /\ cpc' = [cpc EXCEPT ![c] = "launching"]
  BY DEF MakeThread, Proceed
<1>3. script[c] # <<>> /\ Head(script[c]) \in Kinds /\ "launching" \in ClientPlaces
  BY <1>2 DEF DriverInv, ScriptsTyped, Asking, ClientPlaces
<1>4. /\ ScriptsTyped' /\ cpc' \in [Clients -> ClientPlaces]
      /\ \A k \in Clients : cpc[k] = "waiting" => cpc'[k] = "waiting"
  BY <1>2, <1>3, ClientMoves
<1>5. dpc \in [Threads -> ThreadPlaces] /\ "new" \in ThreadPlaces
  BY DEF DriverInv, TypeOK, ThreadPlaces
<1>6. TypeOK'
  BY <1>1, <1>2, <1>4, <1>5 DEF DriverInv, TypeOK, hostVars, historyVars
<1>7. dpc'[t] = "new" /\ dpc[t] \in {"dead", "new"} /\ \A s \in Threads \ {t} : dpc'[s] = dpc[s]
  BY <1>1, <1>5 DEF Alive
<1>8. OwnersWait' /\ OneCommandEach' /\ CurrentTyped'
  <2>1. \A s \in Threads : Holding(s)' => Holding(s)
    BY <1>7 DEF Holding
  <2> QED
    BY <1>2, <1>4, <2>1, CommandsKept
<1>9. ~crowded' => LoneDriver'
  BY <1>2, <1>7 DEF DriverInv, LoneDriver, Alive, hostVars, historyVars
<1> QED
  BY <1>4, <1>6, <1>8, <1>9 DEF DriverInv

(***************************************************************************)
(* A thread that is started while another is alive is on record.           *)
(***************************************************************************)
LEMMA StepLaunch == \A c \in Clients : DriverInv /\ Launch(c) => DriverInv'
<1> SUFFICES ASSUME NEW c \in Clients, DriverInv, Launch(c) PROVE DriverInv'
  OBVIOUS
<1>1. /\ UNCHANGED <<state, hostVars, queue, handle, stopFlag, current, calls, forced>>
      /\ cpc[c] = "launching"
  BY DEF Launch
<1>2. script[c] # <<>> /\ cpc[c] # "waiting" /\ Head(script[c]) \in Kinds
  BY <1>1 DEF DriverInv, ScriptsTyped, Asking
<1>3. dpc \in [Threads -> ThreadPlaces] /\ "top" \in ThreadPlaces /\ "queueing" \in ClientPlaces
  BY DEF DriverInv, TypeOK, ThreadPlaces, ClientPlaces
<1>4. CASE handle # Nobody /\ dpc[handle] = "new"
  <2>1. /\ dpc' = [dpc EXCEPT ![handle] = "top"]
        /\ crowded' = (crowded \/ \E t \in Threads : Alive(t))
        /\ cpc' = [cpc EXCEPT ![c] = "queueing"] /\ UNCHANGED script
    BY <1>4 DEF Launch, Proceed
  <2>2. /\ ScriptsTyped' /\ cpc' \in [Clients -> ClientPlaces]
        /\ \A k \in Clients : cpc[k] = "waiting" => cpc'[k] = "waiting"
    BY <1>2, <1>3, <2>1, ClientMoves
  <2>3. handle \in Threads
    BY <1>4 DEF DriverInv, TypeOK
  <2>4. dpc'[handle] = "top" /\ \A s \in Threads \ {handle} : dpc'[s] = dpc[s]
    BY <1>3, <2>1, <2>3
  <2>5. TypeOK'
    BY <1>1, <1>3, <2>1, <2>2, <2>3 DEF DriverInv, TypeOK, hostVars
  <2>6. OwnersWait' /\ OneCommandEach' /\ CurrentTyped'
    <3>1. \A s \in Threads : Holding(s)' => Holding(s)
      BY <2>3, <2>4 DEF Holding
    <3> QED
      BY <1>1, <2>2, <3>1, CommandsKept
  <2>7. ~crowded' => LoneDriver'
    <3> SUFFICES ASSUME ~crowded' PROVE LoneDriver'
      OBVIOUS
    <3>1. ~crowded /\ \A s \in Threads : ~Alive(s)
      BY <2>1 DEF DriverInv, TypeOK
    <3> QED
      BY <1>1, <2>3, <2>4, <3>1 DEF DriverInv, LoneDriver, Alive, hostVars
  <2> QED
    BY <2>2, <2>5, <2>6, <2>7 DEF DriverInv
<1>5. CASE ~(handle # Nobody /\ dpc[handle] = "new")
  <2>1. (\E a : Finish(c, a)) /\ UNCHANGED <<dpc, crowded>>
    BY <1>5 DEF Launch
  <2>2. /\ ScriptsTyped' /\ cpc' \in [Clients -> ClientPlaces]
        /\ \A k \in Clients : cpc[k] = "waiting" => cpc'[k] = "waiting"
    BY <1>2, <2>1, ClientMoves
  <2>3. handle' \in Threads \cup {Nobody} /\ stopFlag' \in BOOLEAN
    BY <1>1 DEF DriverInv, TypeOK
  <2> QED
    BY <1>1, <2>1, <2>2, <2>3, ClientReads DEF historyVars
<1> QED
  BY <1>4, <1>5

(***************************************************************************)
(* The command that is queued is the only one of its client, which had     *)
(* none while it was not waiting.                                          *)
(***************************************************************************)
LEMMA StepPut == \A c \in Clients : DriverInv /\ Put(c) => DriverInv'
<1> SUFFICES ASSUME NEW c \in Clients, DriverInv, Put(c) PROVE DriverInv'
  OBVIOUS
<1> DEFINE cmd == [name |-> Head(script[c]), owner |-> c]
<1>1. /\ UNCHANGED <<state, hostVars, driverVars, script, calls, historyVars>>
      /\ cpc[c] = "queueing" /\ cpc' = [cpc EXCEPT ![c] = "waiting"]
      /\ queue' = Append(queue, cmd)
  BY DEF Put, Proceed
<1>2. cmd \in Command /\ cmd.owner = c
  BY <1>1 DEF DriverInv, ScriptsTyped, Command, Asking
<1> HIDE DEF cmd
<1>3. queue \in Seq(Command)
  BY DEF DriverInv, TypeOK, Command, Kinds
<1>4. /\ queue' \in Seq(Command) /\ DOMAIN queue = 1..Len(queue) /\ Len(queue) \in Nat
      /\ DOMAIN queue' = 1..(Len(queue) + 1)
      /\ queue'[Len(queue) + 1] = cmd /\ \A i \in DOMAIN queue : queue'[i] = queue[i]
  BY <1>1, <1>2, <1>3
<1>5. \A i \in DOMAIN queue' : i \in DOMAIN queue \/ (i \notin DOMAIN queue /\ queue'[i] = cmd /\ i = Len(queue) + 1)
  BY <1>4
<1>6. cpc \in [Clients -> ClientPlaces]
  BY DEF DriverInv, TypeOK
<1>7. TypeOK'
  BY <1>1, <1>4, <1>6 DEF DriverInv, TypeOK, Command, Kinds, hostVars, driverVars, historyVars, ClientPlaces
<1>8. ScriptsTyped' /\ CurrentTyped'
  BY <1>1, <1>6 DEF DriverInv, ScriptsTyped, CurrentTyped, driverVars, Holding, Asking
<1>9. /\ \A i \in DOMAIN queue : queue[i].owner # c
      /\ \A t \in Threads : Holding(t) => current[t].owner # c
  BY <1>1, NobodyIsNobody DEF DriverInv, OwnersWait
<1>10. OwnersWait'
  <2>1. \A k \in Clients : cpc[k] = "waiting" => cpc'[k] = "waiting"
    BY <1>1, <1>6
  <2>2. \A i \in DOMAIN queue : queue[i] \in Command
    BY <1>3
  <2>3. /\ \A i \in DOMAIN queue : queue[i].owner \in Clients \cup {Nobody}
        /\ \A t \in Threads : current[t].owner \in Clients \cup {Nobody}
    BY <2>2 DEF Command, DriverInv, CurrentTyped
  <2>4. cpc'[c] = "waiting"
    BY <1>1, <1>6
  <2> QED
    BY <1>1, <1>2, <1>4, <1>5, <2>1, <2>3, <2>4 DEF DriverInv, OwnersWait, driverVars, Holding
<1>11. OneCommandEach'
  BY <1>1, <1>2, <1>4, <1>5, <1>9 DEF DriverInv, OneCommandEach, driverVars, Holding
<1>12. ~crowded' => LoneDriver'
  BY <1>1 DEF DriverInv, LoneDriver, Alive, hostVars, driverVars, historyVars
<1> QED
  BY <1>7, <1>8, <1>10, <1>11, <1>12 DEF DriverInv

(***************************************************************************)
(* A caller that gives up owns nothing any more.                           *)
(***************************************************************************)
LEMMA StepGiveUp == \A c \in Clients : DriverInv /\ GiveUp(c) => DriverInv'
<1> SUFFICES ASSUME NEW c \in Clients, DriverInv, GiveUp(c) PROVE DriverInv'
  OBVIOUS
<1> DEFINE Any == [name : Kinds \cup {"none"}, owner : Clients \cup {Nobody}]
<1>1. /\ UNCHANGED <<state, hostVars, handle, stopFlag, dpc, calls, historyVars>>
      /\ cpc[c] = "waiting"
      /\ queue' = [i \in DOMAIN queue |-> Disowned(queue[i], c)]
      /\ current' = [t \in Threads |-> Disowned(current[t], c)]
      /\ Finish(c, "timeout")
  BY DEF GiveUp
<1>2. script[c] # <<>>
  BY <1>1 DEF DriverInv, ScriptsTyped
<1>3. ScriptsTyped' /\ cpc' = [cpc EXCEPT ![c] = "ready"] /\ cpc' \in [Clients -> ClientPlaces]
  BY <1>1, <1>2, FinishFacts
<1>4. queue \in Seq(Command)
  BY DEF DriverInv, TypeOK, Command, Kinds
<1>5. ASSUME NEW S, S \subseteq [name : Kinds \cup {"none"}, owner : Clients \cup {Nobody}],
             S \in {Command, Any}, NEW cmd \in S
      PROVE  /\ Disowned(cmd, c) \in S
             /\ Disowned(cmd, c).owner = IF cmd.owner = c THEN Nobody ELSE cmd.owner
  BY <1>5 DEF Disowned, Command
<1>6. \A i \in DOMAIN queue : queue[i] \in Command
  BY <1>4
<1>7. \A i \in DOMAIN queue :
        /\ queue'[i] \in Command
        /\ queue'[i].owner = IF queue[i].owner = c THEN Nobody ELSE queue[i].owner
  BY <1>1, <1>5, <1>6 DEF Command
<1>8. queue' \in Seq(Command) /\ DOMAIN queue' = DOMAIN queue
  <2>1. DOMAIN queue = 1..Len(queue) /\ Len(queue) \in Nat
    BY <1>4
  <2>2. queue' \in [1..Len(queue) -> Command] /\ DOMAIN queue' = DOMAIN queue
    BY <1>1, <1>7, <2>1
  <2> QED
    BY <2>1, <2>2, IsASeq
<1>9. current \in [Threads -> Any]
  BY DEF DriverInv, CurrentTyped
<1>10. \A t \in Threads :
         /\ current'[t] \in Any
         /\ Holding(t) => current'[t] \in Command
         /\ current'[t].owner = IF current[t].owner = c THEN Nobody ELSE current[t].owner
  <2> SUFFICES ASSUME NEW t \in Threads
               PROVE  /\ current'[t] \in Any
                      /\ Holding(t) => current'[t] \in Command
                      /\ current'[t].owner = IF current[t].owner = c THEN Nobody ELSE current[t].owner
    OBVIOUS
  <2> DEFINE cmd == current[t]
  <2>1. current'[t] = Disowned(cmd, c)
    BY <1>1
  <2>2. cmd \in Any /\ Any \subseteq Any /\ Command \subseteq Any
    BY <1>9 DEF Command
  <2>3. Holding(t) => cmd \in Command
    BY DEF DriverInv, CurrentTyped
  <2> HIDE DEF cmd, Any
  <2>4. Disowned(cmd, c) \in Any /\ Disowned(cmd, c).owner = IF cmd.owner = c THEN Nobody ELSE cmd.owner
    BY <1>5, <2>2 DEF Any
  <2>5. Holding(t) => Disowned(cmd, c) \in Command
    BY <1>5, <2>2, <2>3 DEF Any
  <2> QED
    BY <2>1, <2>4, <2>5 DEF cmd
<1>11. \A t \in Threads : Holding(t)' <=> Holding(t)
  BY <1>1 DEF Holding
<1>12. TypeOK'
  BY <1>1, <1>3, <1>8 DEF DriverInv, TypeOK, Command, Kinds, hostVars, historyVars
<1>13. CurrentTyped'
  BY <1>1, <1>10, <1>11 DEF CurrentTyped
<1>14. cpc \in [Clients -> ClientPlaces]
  BY DEF DriverInv, TypeOK
<1>15. OwnersWait'
  <2>1. \A k \in Clients \ {c} : cpc'[k] = cpc[k]
    BY <1>3, <1>14
  <2>2. \A i \in DOMAIN queue : queue[i].owner \in Clients \cup {Nobody}
    BY <1>6 DEF Command
  <2>3. \A t \in Threads : current[t].owner \in Clients \cup {Nobody}
    BY <1>9
  <2> QED
    BY <1>7, <1>8, <1>10, <1>11, <2>1, <2>2, <2>3 DEF DriverInv, OwnersWait
<1>16. OneCommandEach'
  BY <1>7, <1>8, <1>10, <1>11 DEF DriverInv, OneCommandEach
<1>17. ~crowded' => LoneDriver'
  BY <1>1 DEF DriverInv, LoneDriver, Alive, hostVars, historyVars
<1> QED
  BY <1>3, <1>12, <1>13, <1>15, <1>16, <1>17 DEF DriverInv

-----------------------------------------------------------------------------
(* The driver.                                                             *)

(***************************************************************************)
(* Answering a client that waits keeps the scripts and takes that client,  *)
(* and no other, out of waiting.                                           *)
(***************************************************************************)
LEMMA AnswerFacts ==
  ASSUME DriverInv, NEW cmd \in Command, NEW a, Answer(cmd, a),
         cmd.owner # Nobody => cpc[cmd.owner] = "waiting"
  PROVE  /\ ScriptsTyped'
         /\ cpc' \in [Clients -> ClientPlaces]
         /\ \A c \in Clients : c # cmd.owner => cpc'[c] = cpc[c]
<1>1. cpc \in [Clients -> ClientPlaces]
  BY DEF DriverInv, TypeOK
<1>2. CASE cmd.owner = Nobody
  <2>1. UNCHANGED <<script, cpc>>
    BY <1>2 DEF Answer
  <2> QED
    BY <1>1, <2>1 DEF DriverInv, ScriptsTyped
<1>3. CASE cmd.owner # Nobody
  <2>1. cmd.owner \in Clients /\ Finish(cmd.owner, a)
    BY <1>3 DEF Answer, Command
  <2>2. script[cmd.owner] # <<>>
    BY <1>3, <2>1 DEF DriverInv, ScriptsTyped
  <2>3. ScriptsTyped' /\ cpc' = [cpc EXCEPT ![cmd.owner] = "ready"] /\ cpc' \in [Clients -> ClientPlaces]
    BY <2>1, <2>2, FinishFacts
  <2> QED
    BY <1>1, <2>3
<1> QED
  BY <1>2, <1>3

(***************************************************************************)
(* The oldest command leaves the queue: it was nobody else's.              *)
(***************************************************************************)
LEMMA HeadFacts ==
  ASSUME DriverInv, queue # <<>>, queue' = Tail(queue)
  PROVE  /\ Head(queue) \in Command /\ queue' \in Seq(Command)
         /\ Head(queue).owner # Nobody => cpc[Head(queue).owner] = "waiting"
         /\ \A i \in DOMAIN queue' : i + 1 \in DOMAIN queue /\ queue'[i] = queue[i + 1]
                                     /\ i \in Nat /\ queue'[i] \in Command
         /\ \A i \in DOMAIN queue' :
              Head(queue).owner # Nobody => queue'[i].owner # Head(queue).owner
         /\ \A t \in Threads :
              Holding(t) /\ Head(queue).owner # Nobody => current[t].owner # Head(queue).owner
<1>1. queue \in Seq(Command)
  BY DEF DriverInv, TypeOK, Command, Kinds
<1>2. Head(queue) = queue[1] /\ 1 \in DOMAIN queue /\ queue' \in Seq(Command)
  BY <1>1
<1>3. \A i \in DOMAIN queue' : i + 1 \in DOMAIN queue /\ queue'[i] = queue[i + 1]
                               /\ i \in Nat /\ i + 1 # 1
  BY <1>1
<1>4. \A i \in DOMAIN queue : queue[i] \in Command
  BY <1>1
<1>5. Head(queue) \in Command
  BY <1>2, <1>4
<1>6. \A i \in DOMAIN queue' : i + 1 \in DOMAIN queue /\ queue'[i] = queue[i + 1]
                               /\ i \in Nat /\ queue'[i] \in Command
  BY <1>3, <1>4
<1>7. OwnersWait /\ OneCommandEach
  BY DEF DriverInv
<1>8. /\ Head(queue).owner # Nobody => cpc[Head(queue).owner] = "waiting"
      /\ \A t \in Threads :
           Holding(t) /\ Head(queue).owner # Nobody => current[t].owner # Head(queue).owner
  BY <1>2, <1>7 DEF OwnersWait, OneCommandEach
<1>9. \A i \in DOMAIN queue' :
        Head(queue).owner # Nobody => queue'[i].owner # Head(queue).owner
  BY <1>2, <1>3, <1>7 DEF OneCommandEach
<1> QED
  BY <1>2, <1>5, <1>6, <1>8, <1>9, Zenon

(***************************************************************************)
(* A driver goes to another place without taking up a command.             *)
(***************************************************************************)
LEMMA ThreadMoves ==
  ASSUME DriverInv, NEW t \in Threads, NEW place \in ThreadPlaces, Goto(t, place),
         ~Holding(t) => ~Holding(t)', Alive(t),
         UNCHANGED <<queue, handle, stopFlag, current, clientVars, crowded>>,
         state' \in DOMAIN Legal, host' \in {"Stopped", "Running", "Error"}, sessions' \in Nat,
         forced' \in BOOLEAN
  PROVE  /\ TypeOK' /\ ScriptsTyped' /\ OwnersWait' /\ OneCommandEach' /\ CurrentTyped'
         /\ dpc'[t] = place /\ \A s \in Threads \ {t} : dpc'[s] = dpc[s]
         /\ ~crowded' => ~crowded /\ \A s \in Threads \ {t} : dpc[s] \in {"dead", "new"}
<1>1. /\ dpc' \in [Threads -> ThreadPlaces]
      /\ dpc'[t] = place /\ \A s \in Threads \ {t} : dpc'[s] = dpc[s]
  BY DEF Goto, DriverInv, TypeOK
<1>2. TypeOK' /\ ScriptsTyped'
  BY <1>1 DEF DriverInv, TypeOK, ScriptsTyped, clientVars
<1>3. \A s \in Threads : Holding(s)' => Holding(s)
  BY <1>1 DEF Holding
<1>4. OwnersWait' /\ OneCommandEach' /\ CurrentTyped'
  BY <1>3, CommandsKept DEF clientVars
<1>5. ~crowded' => ~crowded /\ \A s \in Threads \ {t} : dpc[s] \in {"dead", "new"}
  BY DEF DriverInv, LoneDriver, Alive
<1> QED
  BY <1>1, <1>2, <1>4, <1>5

(***************************************************************************)
(* The steps that read: the flag, the state.                               *)
(***************************************************************************)
LEMMA StepLook == \A t \in Threads : DriverInv /\ (Loop(t) \/ SeeRunning(t)) => DriverInv'
<1> SUFFICES ASSUME NEW t \in Threads, DriverInv, Loop(t) \/ SeeRunning(t) PROVE DriverInv'
  OBVIOUS
<1>1. /\ \E place \in {"dead", "get", "stepping", "top"} : Goto(t, place)
      /\ dpc[t] \in {"top", "idle"}
      /\ UNCHANGED <<state, hostVars, queue, handle, stopFlag, current, clientVars, historyVars>>
  BY DEF Loop, SeeRunning
<1>2. PICK place \in {"dead", "get", "stepping", "top"} : Goto(t, place)
  BY <1>1
<1>3. place \in ThreadPlaces /\ (~Holding(t) => ~Holding(t)') /\ Alive(t)
  BY <1>1, <1>2 DEF Goto, Holding, Alive, ThreadPlaces, DriverInv, TypeOK
<1>4. /\ state' \in DOMAIN Legal /\ host' \in {"Stopped", "Running", "Error"}
      /\ sessions' \in Nat /\ forced' \in BOOLEAN
      /\ UNCHANGED <<queue, handle, stopFlag, current, clientVars, crowded>>
  BY <1>1 DEF DriverInv, TypeOK, hostVars, historyVars
<1>5. /\ TypeOK' /\ ScriptsTyped' /\ OwnersWait' /\ OneCommandEach' /\ CurrentTyped'
      /\ dpc'[t] = place /\ \A s \in Threads \ {t} : dpc'[s] = dpc[s]
      /\ ~crowded' => ~crowded /\ \A s \in Threads \ {t} : dpc[s] \in {"dead", "new"}
  BY <1>2, <1>3, <1>4, ThreadMoves
<1>6. ~crowded' => LoneDriver'
  BY <1>1, <1>5 DEF DriverInv, LoneDriver, Alive, hostVars, historyVars
<1> QED
  BY <1>5, <1>6 DEF DriverInv

(***************************************************************************)
(* The calls of the host: what it answers is where the driver goes.        *)
(***************************************************************************)
LEMMA StepHost ==
  \A t \in Threads :
    DriverInv /\ (ApplyTrade(t) \/ HostStart(t) \/ HostStop(t) \/ HostStep(t)) => DriverInv'
<1> SUFFICES ASSUME NEW t \in Threads, DriverInv,
                    ApplyTrade(t) \/ HostStart(t) \/ HostStop(t) \/ HostStep(t)
             PROVE  DriverInv'
  OBVIOUS
<1> DEFINE Served(place) ==
             \/ dpc[t] = "taken" /\ place \in {"applied", "raised"} /\ UNCHANGED host
             \/ dpc[t] = "starting" /\ place = "failing" /\ (UNCHANGED host \/ host' = "Error")
             \/ dpc[t] = "starting" /\ place = "started" /\ host' = "Running"
             \/ dpc[t] = "stopping" /\ place = "failing" /\ (UNCHANGED host \/ host' = "Error")
             \/ dpc[t] = "stopping" /\ place = "stopped" /\ host' = "Stopped"
             \/ dpc[t] = "stepping" /\ place = "top" /\ UNCHANGED host
             \/ dpc[t] = "stepping" /\ place = "broken" /\ host = "Running" /\ host' = "Error"
             \/ dpc[t] = "stepping" /\ place = "broken" /\ UNCHANGED host
<1>1. /\ \E place \in ThreadPlaces : Goto(t, place) /\ Served(place)
      /\ sessions' \in Nat
      /\ UNCHANGED <<state, queue, handle, stopFlag, current, clientVars, historyVars>>
  BY DEF ApplyTrade, HostStart, HostStop, HostStep, hostVars, DriverInv, TypeOK, ThreadPlaces
<1>2. PICK place \in ThreadPlaces : Goto(t, place) /\ Served(place)
  BY <1>1
<1>3. (~Holding(t) => ~Holding(t)') /\ Alive(t)
  BY <1>2 DEF Goto, Holding, Alive, DriverInv, TypeOK
<1>4. /\ state' \in DOMAIN Legal /\ host' \in {"Stopped", "Running", "Error"}
      /\ forced' \in BOOLEAN
      /\ UNCHANGED <<queue, handle, stopFlag, current, clientVars, crowded>>
  BY <1>1, <1>2 DEF DriverInv, TypeOK, historyVars
<1>5. /\ TypeOK' /\ ScriptsTyped' /\ OwnersWait' /\ OneCommandEach' /\ CurrentTyped'
      /\ dpc'[t] = place /\ \A s \in Threads \ {t} : dpc'[s] = dpc[s]
      /\ ~crowded' => ~crowded /\ \A s \in Threads \ {t} : dpc[s] \in {"dead", "new"}
  BY <1>1, <1>2, <1>3, <1>4, ThreadMoves
<1>6. ~crowded' => LoneDriver'
  BY <1>1, <1>2, <1>5 DEF DriverInv, LoneDriver, Alive, historyVars
<1> QED
  BY <1>5, <1>6 DEF DriverInv

(***************************************************************************)
(* The driver sets the state to what the place it is at has seen.          *)
(***************************************************************************)
LEMMA StepSet ==
  \A t \in Threads :
    DriverInv /\ (BeginStart(t) \/ BeginStop(t) \/ SetRunning(t) \/ SetStopped(t)
                    \/ SetFailed(t) \/ SetBroken(t)) => DriverInv'
<1> SUFFICES ASSUME NEW t \in Threads, DriverInv,
                    BeginStart(t) \/ BeginStop(t) \/ SetRunning(t) \/ SetStopped(t)
                      \/ SetFailed(t) \/ SetBroken(t)
             PROVE  DriverInv'
  OBVIOUS
<1> DEFINE Written(place) ==
             \/ dpc[t] = "taken" /\ state' = "STARTING" /\ place = "starting"
             \/ dpc[t] = "taken" /\ state' = "STOPPING" /\ place = "stopping"
             \/ dpc[t] = "started" /\ state' = "RUNNING" /\ place = "applied"
             \/ dpc[t] = "stopped" /\ state' = "STOPPED" /\ place = "applied"
             \/ dpc[t] = "failing" /\ state' = "ERROR" /\ place = "raised"
             \/ dpc[t] = "broken" /\ state' = "ERROR" /\ place = "top"
<1>1. /\ \E place \in ThreadPlaces : Goto(t, place) /\ Written(place)
      /\ forced' = FALSE
      /\ UNCHANGED <<hostVars, queue, handle, stopFlag, current, clientVars, crowded>>
  BY DEF BeginStart, BeginStop, SetRunning, SetStopped, SetFailed, SetBroken, Set, ThreadPlaces
<1>2. PICK place \in ThreadPlaces : Goto(t, place) /\ Written(place)
  BY <1>1
<1>3. (~Holding(t) => ~Holding(t)') /\ Alive(t)
  BY <1>2 DEF Goto, Holding, Alive, DriverInv, TypeOK
<1>4. /\ state' \in DOMAIN Legal /\ host' \in {"Stopped", "Running", "Error"} /\ sessions' \in Nat
      /\ forced' \in BOOLEAN
  BY <1>1, <1>2, States DEF DriverInv, TypeOK, hostVars
<1>5. /\ TypeOK' /\ ScriptsTyped' /\ OwnersWait' /\ OneCommandEach' /\ CurrentTyped'
      /\ dpc'[t] = place /\ \A s \in Threads \ {t} : dpc'[s] = dpc[s]
      /\ ~crowded' => ~crowded /\ \A s \in Threads \ {t} : dpc[s] \in {"dead", "new"}
  BY <1>1, <1>2, <1>3, <1>4, ThreadMoves
<1>6. ~crowded' => LoneDriver'
  BY <1>1, <1>2, <1>5 DEF DriverInv, LoneDriver, Alive, hostVars
<1> QED
  BY <1>5, <1>6 DEF DriverInv

(***************************************************************************)
(* The driver keeps the oldest command in its hands, or finds none.        *)
(***************************************************************************)
LEMMA StepTake == \A t \in Threads : DriverInv /\ Take(t) => DriverInv'
<1> SUFFICES ASSUME NEW t \in Threads, DriverInv, Take(t) PROVE DriverInv'
  OBVIOUS
<1>1. /\ dpc[t] = "get" /\ UNCHANGED <<state, hostVars, handle, stopFlag, clientVars, historyVars>>
      /\ dpc \in [Threads -> ThreadPlaces]
  BY DEF Take, DriverInv, TypeOK
<1>2. CASE queue = <<>>
  <2>1. Goto(t, "idle") /\ UNCHANGED <<queue, current>>
    BY <1>2 DEF Take
  <2>2. "idle" \in ThreadPlaces /\ (~Holding(t) => ~Holding(t)') /\ Alive(t)
    BY <1>1, <2>1 DEF Goto, Holding, Alive, ThreadPlaces
  <2>3. /\ state' \in DOMAIN Legal /\ host' \in {"Stopped", "Running", "Error"}
        /\ sessions' \in Nat /\ forced' \in BOOLEAN
        /\ UNCHANGED <<queue, handle, stopFlag, current, clientVars, crowded>>
    BY <1>1, <2>1 DEF DriverInv, TypeOK, hostVars, historyVars
  <2>4. /\ TypeOK' /\ ScriptsTyped' /\ OwnersWait' /\ OneCommandEach' /\ CurrentTyped'
        /\ dpc'[t] = "idle" /\ \A s \in Threads \ {t} : dpc'[s] = dpc[s]
        /\ ~crowded' => ~crowded /\ \A s \in Threads \ {t} : dpc[s] \in {"dead", "new"}
    BY <2>1, <2>2, <2>3, ThreadMoves
  <2>5. ~crowded' => LoneDriver'
    BY <1>1, <2>4 DEF DriverInv, LoneDriver, Alive, hostVars, historyVars
  <2> QED
    BY <2>4, <2>5 DEF DriverInv
<1>3. CASE queue # <<>>
  <2> DEFINE cmd == Head(queue)
  <2>1. /\ queue' = Tail(queue) /\ current' = [current EXCEPT ![t] = cmd]
        /\ dpc' = [dpc EXCEPT ![t] = "taken"]
    BY <1>3 DEF Take, Goto
  <2>2. /\ cmd \in Command /\ queue' \in Seq(Command)
        /\ cmd.owner # Nobody => cpc[cmd.owner] = "waiting"
        /\ \A i \in DOMAIN queue' : i + 1 \in DOMAIN queue /\ queue'[i] = queue[i + 1]
                                    /\ i \in Nat /\ queue'[i] \in Command
        /\ \A i \in DOMAIN queue' : cmd.owner # Nobody => queue'[i].owner # cmd.owner
        /\ \A s \in Threads : Holding(s) /\ cmd.owner # Nobody => current[s].owner # cmd.owner
    BY <1>3, <2>1, HeadFacts
  <2> HIDE DEF cmd
  <2>3. /\ Holding(t)' /\ ~Holding(t) /\ \A s \in Threads \ {t} : Holding(s)' <=> Holding(s)
        /\ dpc' \in [Threads -> ThreadPlaces] /\ dpc'[t] = "taken"
        /\ \A s \in Threads \ {t} : dpc'[s] = dpc[s]
    BY <1>1, <2>1 DEF Holding, ThreadPlaces
  <2>4. current'[t] = cmd /\ \A s \in Threads \ {t} : current'[s] = current[s]
    BY <2>1 DEF DriverInv, CurrentTyped
  <2>5. TypeOK'
    BY <1>1, <2>2, <2>3 DEF DriverInv, TypeOK, Command, Kinds, hostVars, clientVars, historyVars
  <2>6. ScriptsTyped'
    BY <1>1 DEF DriverInv, ScriptsTyped, clientVars
  <2>7. CurrentTyped'
    <3>1. current' \in [Threads -> [name : Kinds \cup {"none"}, owner : Clients \cup {Nobody}]]
      BY <2>1, <2>2 DEF DriverInv, CurrentTyped, Command
    <3> QED
      BY <2>2, <2>3, <2>4, <3>1 DEF DriverInv, CurrentTyped
  <2>8. OwnersWait'
    BY <1>1, <2>2, <2>3, <2>4 DEF DriverInv, OwnersWait, clientVars
  <2>9. OneCommandEach'
    <3>1. \A i, j \in DOMAIN queue' :
            queue'[i].owner = queue'[j].owner /\ queue'[i].owner # Nobody => i = j
      BY <2>2 DEF DriverInv, OneCommandEach
    <3>2. \A s1, s2 \in Threads :
            Holding(s1)' /\ Holding(s2)' /\ current'[s1].owner = current'[s2].owner
              /\ current'[s1].owner # Nobody => s1 = s2
      BY <2>2, <2>3, <2>4 DEF DriverInv, OneCommandEach
    <3>3. \A i \in DOMAIN queue', s \in Threads :
            Holding(s)' /\ queue'[i].owner # Nobody => current'[s].owner # queue'[i].owner
      BY <2>2, <2>3, <2>4 DEF DriverInv, OneCommandEach
    <3> QED
      BY <3>1, <3>2, <3>3 DEF OneCommandEach
  <2>10. ~crowded' => LoneDriver'
    BY <1>1, <2>3 DEF DriverInv, LoneDriver, Alive, hostVars, historyVars
  <2> QED
    BY <2>5, <2>6, <2>7, <2>8, <2>9, <2>10 DEF DriverInv
<1> QED
  BY <1>2, <1>3

(***************************************************************************)
(* The answer finds the client that still waits, and the command is gone.  *)
(***************************************************************************)
LEMMA StepDone == \A t \in Threads : DriverInv /\ Done(t) => DriverInv'
<1> SUFFICES ASSUME NEW t \in Threads, DriverInv, Done(t) PROVE DriverInv'
  OBVIOUS
<1> DEFINE cmd == current[t]
<1>1. /\ dpc[t] \in {"applied", "raised"} /\ dpc' = [dpc EXCEPT ![t] = "top"]
      /\ \E a : Answer(cmd, a)
      /\ current' = [current EXCEPT ![t] = NoCommand]
      /\ UNCHANGED <<state, hostVars, queue, handle, stopFlag, calls, historyVars>>
  BY DEF Done, Goto
<1>2. Holding(t) /\ dpc \in [Threads -> ThreadPlaces] /\ "top" \in ThreadPlaces
  BY <1>1 DEF Holding, DriverInv, TypeOK, ThreadPlaces
<1>3. /\ cmd \in Command
      /\ cmd.owner # Nobody => cpc[cmd.owner] = "waiting"
      /\ cmd.owner \in Clients \cup {Nobody}
  BY <1>2 DEF DriverInv, CurrentTyped, OwnersWait, Command
<1> HIDE DEF cmd
<1>4. /\ ScriptsTyped' /\ cpc' \in [Clients -> ClientPlaces]
      /\ \A c \in Clients : c # cmd.owner => cpc'[c] = cpc[c]
  BY <1>1, <1>3, AnswerFacts
<1>5. dpc' \in [Threads -> ThreadPlaces] /\ dpc'[t] = "top" /\ \A s \in Threads \ {t} : dpc'[s] = dpc[s]
  BY <1>1, <1>2
<1>6. \A s \in Threads : Holding(s)' => Holding(s) /\ s # t
  BY <1>5 DEF Holding
<1>7. /\ current' \in [Threads -> [name : Kinds \cup {"none"}, owner : Clients \cup {Nobody}]]
      /\ \A s \in Threads \ {t} : current'[s] = current[s]
  BY <1>1 DEF DriverInv, CurrentTyped, NoCommand
<1>8. TypeOK'
  BY <1>1, <1>4, <1>5 DEF DriverInv, TypeOK, hostVars, historyVars
<1>9. CurrentTyped'
  BY <1>6, <1>7 DEF DriverInv, CurrentTyped
<1>10. OneCommandEach'
  BY <1>1, <1>6, <1>7 DEF DriverInv, OneCommandEach
<1>11. OwnersWait'
  <2>1. queue \in Seq(Command)
    BY DEF DriverInv, TypeOK, Command, Kinds
  <2>2. \A i \in DOMAIN queue : queue[i] \in Command
    BY <2>1
  <2>3. /\ \A i \in DOMAIN queue : queue[i].owner \in Clients \cup {Nobody}
        /\ \A s \in Threads : current[s].owner \in Clients \cup {Nobody}
    BY <2>2 DEF Command, DriverInv, CurrentTyped
  <2>4. ASSUME NEW i \in DOMAIN queue, queue[i].owner # Nobody PROVE cpc'[queue[i].owner] = "waiting"
    BY <1>2, <1>4, <2>3, <2>4 DEF DriverInv, OwnersWait, OneCommandEach, cmd
  <2>5. ASSUME NEW s \in Threads, Holding(s)', current[s].owner # Nobody
        PROVE  cpc'[current[s].owner] = "waiting"
    BY <1>2, <1>4, <1>6, <2>3, <2>5 DEF DriverInv, OwnersWait, OneCommandEach, cmd
  <2> QED
    BY <1>1, <1>6, <1>7, <2>4, <2>5 DEF OwnersWait
<1>12. ~crowded' => LoneDriver'
  BY <1>1, <1>5 DEF DriverInv, LoneDriver, Alive, hostVars, historyVars
<1> QED
  BY <1>4, <1>8, <1>9, <1>10, <1>11, <1>12 DEF DriverInv

-----------------------------------------------------------------------------
(***************************************************************************)
(* DriverInv is inductive.                                                 *)
(***************************************************************************)
LEMMA StepDriverInv == DriverInv /\ [Next]_driverAllVars => DriverInv'
<1> SUFFICES ASSUME DriverInv, [Next]_driverAllVars PROVE DriverInv'
  OBVIOUS
<1>1. ASSUME UNCHANGED driverAllVars PROVE DriverInv'
  <2>1. /\ ScriptsTyped' /\ cpc' \in [Clients -> ClientPlaces]
        /\ \A k \in Clients : cpc[k] = "waiting" => cpc'[k] = "waiting"
    BY <1>1 DEF DriverInv, TypeOK, ScriptsTyped, driverAllVars, clientVars
  <2>2. handle' \in Threads \cup {Nobody} /\ stopFlag' \in BOOLEAN
    BY <1>1 DEF DriverInv, TypeOK, driverAllVars, driverVars
  <2> QED
    BY <1>1, <2>1, <2>2, ClientReads DEF driverAllVars, driverVars, clientVars
<1>2. ASSUME NEW c \in Clients, NEW op \in Ops, Call(c, op) PROVE DriverInv'
  BY <1>2, StepCall
<1>3. ASSUME NEW c \in Clients, ClientStep(c) PROVE DriverInv'
  BY <1>3, StepRead, StepFlag, StepForce, StepMakeThread, StepLaunch, StepPut, StepGiveUp
     DEF ClientStep
<1>4. ASSUME NEW t \in Threads, ThreadStep(t) PROVE DriverInv'
  BY <1>4, StepLook, StepHost, StepSet, StepTake, StepDone DEF ThreadStep
<1> QED
  BY <1>1, <1>2, <1>3, <1>4 DEF Next

(***************************************************************************)
(* ReportedStateIsTrue, for every number of clients, threads and calls: as *)
(* long as one driver at a time has been alive, RUNNING is reported only   *)
(* of a running host and STOPPED only of a stopped one, in every           *)
(* interleaving of the single accesses of requests, timeouts and failures. *)
(***************************************************************************)
THEOREM ReportedTruly == Spec => []ReportedStateIsTrue
<1>1. DriverInv => ReportedStateIsTrue
  BY DEF DriverInv, LoneDriver, ReportedStateIsTrue
<1> QED
  BY <1>1, InitDriverInv, StepDriverInv, PTL DEF Spec

(***************************************************************************)
(* An answer goes to a client that waits for it, and to no client twice:   *)
(* giving up disowns the command, wherever it is.  However many drivers    *)
(* there are.                                                              *)
(***************************************************************************)
THEOREM AnswersFindTheirCaller == Spec => [](OwnersWait /\ OneCommandEach)
<1>1. DriverInv => OwnersWait /\ OneCommandEach
  BY DEF DriverInv
<1> QED
  BY <1>1, InitDriverInv, StepDriverInv, PTL DEF Spec

(***************************************************************************)
(* NoSessionAbandoned: PaperSessionHost::start is the only place that      *)
(* builds a session, and never over a running one.                         *)
(***************************************************************************)
THEOREM RunningSessionStays == Spec => NoSessionAbandoned
<1>1. [Next]_driverAllVars => [sessions' # sessions => host # "Running"]_driverAllVars
  <2> SUFFICES ASSUME Next, sessions' # sessions PROVE host # "Running"
    BY DEF driverAllVars, hostVars
  <2>1. ASSUME NEW c \in Clients, NEW op \in Ops, Call(c, op) PROVE FALSE
    BY <2>1 DEF Call, hostVars
  <2>2. ASSUME NEW c \in Clients, ClientStep(c) PROVE FALSE
    BY <2>2 DEF ClientStep, SeeError, ForceRunning, Check, SeeThread, Probe, ClearFlag,
                MakeThread, Launch, Put, GiveUp, Await, RaiseFlag, SeeHandle, Join, Forget, hostVars
  <2>3. PICK t \in Threads : ThreadStep(t)
    BY <2>1, <2>2 DEF Next
  <2>4. HostStart(t)
    BY <2>3 DEF ThreadStep, Loop, Take, ApplyTrade, BeginStart, SetRunning, BeginStop, HostStop,
                SetStopped, SetFailed, Done, SeeRunning, HostStep, SetBroken, Set, hostVars
  <2> QED
    BY <2>4 DEF HostStart, HostRefusesStart, hostVars
<1> QED
  BY <1>1, PTL DEF Spec, NoSessionAbandoned
=============================================================================
