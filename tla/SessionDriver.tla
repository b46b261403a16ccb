--------------------------- MODULE SessionDriver ----------------------------
(***************************************************************************)
(* The session driver of the API (frontend/backend/app/engine/session.py): *)
(* request threads that check the session state and queue a command, and a *)
(* driver thread that applies commands between steps of the engine.  The   *)
(* engine is the paper-session host of the bindings (session_host.cpp),    *)
(* seen through start, stop, step and the trading calls.                   *)
(*                                                                         *)
(* No lock covers a request or a command: every read and every write of a  *)
(* shared attribute is a step of its own, and so is every call of the host *)
(* (which keeps the interpreter lock, so no other thread runs inside it).  *)
(* A wait with a timeout may give up at any moment.  A trading command is  *)
(* one kind, "trade": submit, cancel, cancel_all, flatten and set_halted   *)
(* differ only inside the host.                                            *)
(***************************************************************************)
EXTENDS Naturals, Sequences, FiniteSets

CONSTANTS Clients,   \* request threads
          Threads,   \* Thread objects that may exist at a time (a bound)
          Nobody,    \* no client, no thread
          Ops,       \* the calls the clients make
          MaxCalls   \* bound on the number of calls

ASSUME CallBound == MaxCalls \in Nat
ASSUME KnownOps == Ops \subseteq {"start", "stop", "trade", "reset", "shutdown"}
ASSUME NobodyIsNobody == Nobody \notin Clients \cup Threads

VARIABLES state,    \* SessionDriver._state
          host,     \* PaperSessionHost::state_
          sessions, \* how many sessions the host has started
          queue,    \* SessionDriver._commands
          handle,   \* SessionDriver._thread
          stopFlag, \* SessionDriver._stop_thread
          dpc, current, \* driver threads: where they are, what they apply
          script, cpc,  \* clients: what is left of their call, where they are
          calls,    \* calls made so far
          forced,   \* history: shutdown() wrote RUNNING over ERROR and nobody has set the state since
          crowded   \* history: two driver threads have been alive at a time

hostVars   == <<host, sessions>>
driverVars == <<handle, stopFlag, dpc, current>>
clientVars == <<script, cpc, calls>>
historyVars == <<forced, crowded>>
driverAllVars == <<state, hostVars, queue, driverVars, clientVars, historyVars>>

\* _LEGAL
Legal == [STOPPED  |-> {"STARTING"},
          STARTING |-> {"RUNNING", "ERROR"},
          RUNNING  |-> {"STOPPING"},
          STOPPING |-> {"STOPPED", "ERROR"},
          ERROR    |-> {"STARTING", "STOPPED"}]

\* _require and _require_running: what the caller's thread checks.
Permitted(op) ==
  CASE op = "start" -> "STARTING" \in Legal[state]
    [] op = "stop"  -> "STOPPING" \in Legal[state]
    [] op = "trade" -> state = "RUNNING"

\* What each API call does, in order, by the state it reads first.
ScriptOf(op) ==
  CASE op = "reset" -> IF state = "RUNNING" THEN <<"stop", "await", "start">> ELSE <<"start">>
    [] op = "shutdown" -> IF state \in {"RUNNING", "ERROR"}
                          THEN <<"force", "stop", "await", "halt">> ELSE <<"halt">>
    [] OTHER -> <<op>>

ShuttingDown(c) == script[c] # <<>> /\ script[c][Len(script[c])] = "halt"

\* An item of a script ends with an answer; shutdown() swallows a failure and
\* goes on to stop the thread.
Finish(c, answer) ==
  /\ cpc' = [cpc EXCEPT ![c] = "ready"]
  /\ script' = [script EXCEPT ![c] =
       IF answer = "ok" THEN Tail(@)
       ELSE IF ShuttingDown(c) /\ Len(@) > 1 THEN <<"halt">> ELSE <<>>]

-----------------------------------------------------------------------------
(* Request threads.                                                        *)

Call(c, op) ==
  /\ script[c] = <<>> /\ calls < MaxCalls
  /\ calls' = calls + 1
  /\ script' = [script EXCEPT ![c] = ScriptOf(op)]
  /\ UNCHANGED <<state, hostVars, queue, driverVars, cpc, historyVars>>

Pending(c, kinds) == script[c] # <<>> /\ Head(script[c]) \in kinds

Proceed(c, from, to) == cpc[c] = from /\ cpc' = [cpc EXCEPT ![c] = to]

\* shutdown() reads the state a second time, and only then writes.
SeeError(c) ==
  /\ cpc[c] = "ready" /\ Pending(c, {"force"})
  /\ IF state = "ERROR" THEN Proceed(c, "ready", "forcing") /\ UNCHANGED script
                        ELSE Finish(c, "ok")
  /\ UNCHANGED <<state, hostVars, queue, driverVars, calls, historyVars>>

ForceRunning(c) ==
  /\ cpc[c] = "forcing"
  /\ state' = "RUNNING" /\ forced' = TRUE
  /\ Finish(c, "ok")
  /\ UNCHANGED <<hostVars, queue, driverVars, calls, crowded>>

Check(c) ==
  /\ cpc[c] = "ready" /\ Pending(c, {"start", "stop", "trade"})
  /\ IF ~Permitted(Head(script[c])) THEN Finish(c, "conflict")
     ELSE /\ Proceed(c, "ready", IF Head(script[c]) = "start" THEN "ensuring" ELSE "queueing")
          /\ UNCHANGED script
  /\ UNCHANGED <<state, hostVars, queue, driverVars, calls, historyVars>>

\* _ensure_thread: look for a driver thread that is alive; when there was none,
\* clear the flag, make one and start it, whatever happened in between.
Alive(t) == dpc[t] \notin {"dead", "new"}

SeeThread(c) ==
  /\ Proceed(c, "ensuring", IF handle = Nobody THEN "clearing" ELSE "probing")
  /\ UNCHANGED <<state, hostVars, queue, driverVars, script, calls, historyVars>>

\* self._thread is read again, and may have been forgotten: an exception.
Probe(c) ==
  /\ cpc[c] = "probing"
  /\ IF handle = Nobody THEN Finish(c, "error")
     ELSE Proceed(c, "probing", IF Alive(handle) THEN "queueing" ELSE "clearing") /\ UNCHANGED script
  /\ UNCHANGED <<state, hostVars, queue, driverVars, calls, historyVars>>

ClearFlag(c) ==
  /\ Proceed(c, "clearing", "making")
  /\ stopFlag' = FALSE
  /\ UNCHANGED <<state, hostVars, queue, handle, dpc, current, script, calls, historyVars>>

\* A new Thread object: one that ended, or was never started, and that nobody
\* refers to any more, stands for it.
MakeThread(c) ==
  /\ Proceed(c, "making", "launching")
  /\ \E t \in Threads \ {handle} : /\ ~Alive(t)
                                   /\ handle' = t
                                   /\ dpc' = [dpc EXCEPT ![t] = "new"]
  /\ UNCHANGED <<state, hostVars, queue, stopFlag, current, script, calls, historyVars>>

\* self._thread.start(): of whatever thread the handle is by now.
Launch(c) ==
  /\ cpc[c] = "launching"
  /\ IF handle # Nobody /\ dpc[handle] = "new"
     THEN /\ dpc' = [dpc EXCEPT ![handle] = "top"]
          /\ crowded' = (crowded \/ \E t \in Threads : Alive(t))
          /\ Proceed(c, "launching", "queueing") /\ UNCHANGED script
     ELSE Finish(c, "error") /\ UNCHANGED <<dpc, crowded>>
  /\ UNCHANGED <<state, hostVars, queue, handle, stopFlag, current, calls, forced>>

Put(c) ==
  /\ Proceed(c, "queueing", "waiting")
  /\ queue' = Append(queue, [name |-> Head(script[c]), owner |-> c])
  /\ UNCHANGED <<state, hostVars, driverVars, script, calls, historyVars>>

Disowned(cmd, c) == IF cmd.owner = c THEN [cmd EXCEPT !.owner = Nobody] ELSE cmd

\* done.wait() gives up after 30 s; the command stays where it is.
GiveUp(c) ==
  /\ cpc[c] = "waiting"
  /\ queue' = [i \in DOMAIN queue |-> Disowned(queue[i], c)]
  /\ current' = [t \in Threads |-> Disowned(current[t], c)]
  /\ Finish(c, "timeout")
  /\ UNCHANGED <<state, hostVars, handle, stopFlag, dpc, calls, historyVars>>

\* _await_state(STOPPED): it polls, and gives up after a while.
Await(c) ==
  /\ cpc[c] = "ready" /\ Pending(c, {"await"})
  /\ Finish(c, IF state = "STOPPED" THEN "ok" ELSE "timeout")
  /\ UNCHANGED <<state, hostVars, queue, driverVars, calls, historyVars>>

\* The end of shutdown(): raise the flag, and if there is a thread join it for
\* up to 5 s and forget it.  The thread may be forgotten, or not yet started,
\* when join is called on it: an exception.
RaiseFlag(c) ==
  /\ Pending(c, {"halt"}) /\ Proceed(c, "ready", "halting")
  /\ stopFlag' = TRUE
  /\ UNCHANGED <<state, hostVars, queue, handle, dpc, current, script, calls, historyVars>>

SeeHandle(c) ==
  /\ cpc[c] = "halting"
  /\ IF handle = Nobody THEN Finish(c, "ok")
                        ELSE Proceed(c, "halting", "joining") /\ UNCHANGED script
  /\ UNCHANGED <<state, hostVars, queue, driverVars, calls, historyVars>>

Join(c) ==
  /\ cpc[c] = "joining"
  /\ IF handle = Nobody \/ (handle # Nobody /\ dpc[handle] = "new") THEN Finish(c, "error")
     ELSE Proceed(c, "joining", "forgetting") /\ UNCHANGED script
  /\ UNCHANGED <<state, hostVars, queue, driverVars, calls, historyVars>>

Forget(c) ==
  /\ cpc[c] = "forgetting"
  /\ handle' = Nobody
  /\ Finish(c, "ok")
  /\ UNCHANGED <<state, hostVars, queue, stopFlag, dpc, current, calls, historyVars>>

-----------------------------------------------------------------------------
(* Driver threads (_run).                                                  *)

Goto(t, place) == dpc' = [dpc EXCEPT ![t] = place]

\* Mutant of Loop: the flag is not looked at.
LoopForEver(t) ==
  /\ dpc[t] = "top"
  /\ Goto(t, "get")
  /\ UNCHANGED <<state, hostVars, queue, handle, stopFlag, current, clientVars, historyVars>>

Loop(t) ==
  /\ dpc[t] = "top"
  /\ Goto(t, IF stopFlag THEN "dead" ELSE "get")
  /\ UNCHANGED <<state, hostVars, queue, handle, stopFlag, current, clientVars, historyVars>>

\* _commands.get(): the oldest command, or Empty after the poll.
Take(t) ==
  /\ dpc[t] = "get"
  /\ \/ /\ queue # <<>>
        /\ queue' = Tail(queue)
        /\ current' = [current EXCEPT ![t] = Head(queue)]
        /\ Goto(t, "taken")
     \/ /\ queue = <<>>
        /\ Goto(t, "idle")
        /\ UNCHANGED <<queue, current>>
  /\ UNCHANGED <<state, hostVars, handle, stopFlag, clientVars, historyVars>>

\* A trading command: enqueued in the host when a session is running.
ApplyTrade(t) ==
  /\ dpc[t] = "taken" /\ current[t].name = "trade"
  /\ Goto(t, IF host = "Running" THEN "applied" ELSE "raised")
  /\ UNCHANGED <<state, hostVars, queue, handle, stopFlag, current, clientVars, historyVars>>

\* The driver sets the state.
Set(t, from, value, to) ==
  /\ dpc[t] = from
  /\ state' = value
  /\ forced' = FALSE
  /\ Goto(t, to)
  /\ UNCHANGED <<hostVars, queue, handle, stopFlag, current, clientVars, crowded>>

BeginStart(t) == current[t].name = "start" /\ Set(t, "taken", "STARTING", "starting")
BeginStop(t) == current[t].name = "stop" /\ Set(t, "taken", "STOPPING", "stopping")

\* Mutant of HostRefusesStart: a running session is silently replaced.
HostNeverRefusesStart == FALSE

\* PaperSessionHost::start: refused while a session is running; otherwise it
\* builds a session, which can fail.  The old one, if any, is replaced.
HostRefusesStart == host = "Running"

HostStart(t) ==
  /\ dpc[t] = "starting"
  /\ \/ HostRefusesStart /\ UNCHANGED hostVars /\ Goto(t, "failing")
     \/ ~HostRefusesStart /\ host' = "Running" /\ sessions' = sessions + 1 /\ Goto(t, "started")
     \/ ~HostRefusesStart /\ host' = "Error" /\ UNCHANGED sessions /\ Goto(t, "failing")
  /\ UNCHANGED <<state, queue, handle, stopFlag, current, clientVars, historyVars>>

\* PaperSessionHost::stop: only from Running; the close-out can fail.
HostRefusesStop == host # "Running"

HostStop(t) ==
  /\ dpc[t] = "stopping"
  /\ \/ HostRefusesStop /\ UNCHANGED host /\ Goto(t, "failing")
     \/ ~HostRefusesStop /\ host' = "Stopped" /\ Goto(t, "stopped")
     \/ ~HostRefusesStop /\ host' = "Error" /\ Goto(t, "failing")
  /\ UNCHANGED <<state, sessions, queue, handle, stopFlag, current, clientVars, historyVars>>

\* Mutant of SetFailed: a failed call still reaches the state it was meant to.
SetWhateverHappened(t) ==
  Set(t, "failing", IF current[t].name = "start" THEN "RUNNING" ELSE "STOPPED", "raised")

\* What the host has answered becomes the state.
SetRunning(t) == Set(t, "started", "RUNNING", "applied")
SetStopped(t) == Set(t, "stopped", "STOPPED", "applied")
SetFailed(t) == Set(t, "failing", "ERROR", "raised")

NoCommand == [name |-> "none", owner |-> Nobody]

\* Mutant of Answer: a command that raised leaves its caller waiting.
AnswerOnlySuccess(cmd, answer) ==
  IF cmd.owner = Nobody \/ answer # "ok"
  THEN UNCHANGED <<script, cpc>> ELSE Finish(cmd.owner, answer)

\* The caller of the command, if it is still waiting, is answered.
Answer(cmd, answer) ==
  IF cmd.owner = Nobody THEN UNCHANGED <<script, cpc>> ELSE Finish(cmd.owner, answer)

\* done.set(), whether the command was applied or raised.
Done(t) ==
  /\ dpc[t] \in {"applied", "raised"}
  /\ Answer(current[t], IF dpc[t] = "applied" THEN "ok" ELSE "error")
  /\ Goto(t, "top")
  /\ current' = [current EXCEPT ![t] = NoCommand]
  /\ UNCHANGED <<state, hostVars, queue, handle, stopFlag, calls, historyVars>>

\* _advance, when no command came: the state is read, the engine stepped, and
\* an exception becomes ERROR.
SeeRunning(t) ==
  /\ dpc[t] = "idle"
  /\ Goto(t, IF state = "RUNNING" THEN "stepping" ELSE "top")
  /\ UNCHANGED <<state, hostVars, queue, handle, stopFlag, current, clientVars, historyVars>>

\* Mutant of HostStep: the exception of a step goes unnoticed.
HostStepUnnoticed(t) ==
  /\ dpc[t] = "stepping"
  /\ Goto(t, "top")
  /\ host' \in IF host = "Running" THEN {"Running", "Error"} ELSE {host}
  /\ UNCHANGED <<state, sessions, queue, handle, stopFlag, current, clientVars, historyVars>>

HostStep(t) ==
  /\ dpc[t] = "stepping"
  /\ \/ host = "Running" /\ UNCHANGED host /\ Goto(t, "top")
     \/ host = "Running" /\ host' = "Error" /\ Goto(t, "broken")
     \/ host # "Running" /\ UNCHANGED host /\ Goto(t, "broken")
  /\ UNCHANGED <<state, sessions, queue, handle, stopFlag, current, clientVars, historyVars>>

SetBroken(t) == Set(t, "broken", "ERROR", "top")

-----------------------------------------------------------------------------
Init ==
  /\ state = "STOPPED"
  /\ host = "Stopped" /\ sessions = 0
  /\ queue = <<>> /\ handle = Nobody /\ stopFlag = FALSE
  /\ dpc = [t \in Threads |-> "dead"] /\ current = [t \in Threads |-> NoCommand]
  /\ script = [c \in Clients |-> <<>>] /\ cpc = [c \in Clients |-> "ready"]
  /\ calls = 0 /\ forced = FALSE /\ crowded = FALSE

ClientStep(c) ==
  \/ SeeError(c) \/ ForceRunning(c) \/ Check(c)
  \/ SeeThread(c) \/ Probe(c) \/ ClearFlag(c) \/ MakeThread(c) \/ Launch(c)
  \/ Put(c) \/ GiveUp(c) \/ Await(c)
  \/ RaiseFlag(c) \/ SeeHandle(c) \/ Join(c) \/ Forget(c)

ThreadStep(t) ==
  \/ Loop(t) \/ Take(t) \/ ApplyTrade(t)
  \/ BeginStart(t) \/ HostStart(t) \/ SetRunning(t)
  \/ BeginStop(t) \/ HostStop(t) \/ SetStopped(t)
  \/ SetFailed(t) \/ Done(t)
  \/ SeeRunning(t) \/ HostStep(t) \/ SetBroken(t)

Next ==
  \/ \E c \in Clients, op \in Ops : Call(c, op)
  \/ \E c \in Clients : ClientStep(c)
  \/ \E t \in Threads : ThreadStep(t)

Spec == Init /\ [][Next]_driverAllVars

\* The driver loop polls with a timeout, so a live driver thread always comes
\* round; and a host call returns.
FairSpec == Spec /\ \A t \in Threads : WF_driverAllVars(ThreadStep(t))

-----------------------------------------------------------------------------
ClientPlaces == {"ready", "forcing", "ensuring", "probing", "clearing", "making", "launching",
                 "queueing", "waiting", "halting", "joining", "forgetting"}
ThreadPlaces == {"dead", "new", "top", "get", "taken", "starting", "started", "stopping",
                 "stopped", "failing", "applied", "raised", "idle", "stepping", "broken"}

TypeOK ==
  /\ state \in DOMAIN Legal
  /\ host \in {"Stopped", "Running", "Error"}
  /\ sessions \in Nat
  /\ queue \in Seq([name: {"start", "stop", "trade"}, owner: Clients \cup {Nobody}])
  /\ handle \in Threads \cup {Nobody}
  /\ stopFlag \in BOOLEAN
  /\ dpc \in [Threads -> ThreadPlaces]
  /\ cpc \in [Clients -> ClientPlaces]
  /\ calls \in 0..MaxCalls
  /\ forced \in BOOLEAN /\ crowded \in BOOLEAN

\* As long as there has never been more than one driver thread, what the API
\* reports is what the host is doing, in every interleaving of concurrent
\* starts, stops, resets, shutdowns, timeouts and failures: STOPPED only with
\* no session left behind, and RUNNING only with a running session - but for
\* the moment in which shutdown() has written RUNNING over ERROR itself, or a
\* step has failed and the driver is about to write ERROR.
ReportedStateIsTrue ==
  /\ TypeOK
  /\ ~crowded =>
       /\ state = "RUNNING" /\ ~forced =>
            host = "Running" \/ \E t \in Threads : dpc[t] = "broken"
       /\ state = "STOPPED" => host = "Stopped"

\* A session that is running is never replaced by a start: its book is closed
\* out by a stop, or it has failed.
NoSessionAbandoned == [][sessions' # sessions => host # "Running"]_driverAllVars

\* No more than one driver thread is alive, so the engine has a single writer.
OneDriver == Cardinality({t \in Threads : Alive(t)}) <= 1

\* Each client waiting for a command is answered by a driver that is alive: no
\* queue entry is skipped or overtaken for ever, and an exception answers too.
\* Only when shutdown() has told the driver to end is the command left behind,
\* and the caller to its own timeout.
CommandsAnswered ==
  \A c \in Clients :
    (cpc[c] = "waiting" /\ \E t \in Threads : Alive(t)) ~> (cpc[c] # "waiting" \/ stopFlag)

\* Once shutdown() has raised the flag, a driver thread ends: unless a later
\* start() clears it, no thread keeps stepping a session nobody watches.
FlaggedThreadEnds ==
  \A t \in Threads : stopFlag /\ Alive(t) ~> (~Alive(t) \/ ~stopFlag)
=============================================================================
