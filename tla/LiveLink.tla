------------------------------ MODULE LiveLink ------------------------------
(***************************************************************************)
(* The connection of a live session to its venue (live/connection.cpp):    *)
(* its state, the heartbeat seen through how long the venue has been       *)
(* silent, and the filter that drops redelivered messages, by sequence     *)
(* number or, on a stream without them, by the venue's fill id.            *)
(*                                                                         *)
(* The venue's side is the sequence of messages it has sent, log, and the  *)
(* position from which the transport delivers next: a new connection may   *)
(* deliver again from any earlier message, or from a later one (messages   *)
(* lost).  Within a connection delivery is in order.                       *)
(***************************************************************************)
EXTENDS Integers, Sequences, FiniteSets, FiniteSetsExt

CONSTANT MaxLog   \* bound on the messages of the venue

ASSUME LogBound == MaxLog \in Nat

VARIABLES conn,       \* LiveConnection::state_
          silence,    \* time since last activity: 0 healthy, 1 late, 2 dead
          lastSeq,    \* LiveConnection::last_sequence_
          recent,     \* LiveConnection::recent_ids_ (its cap of 4096 is never reached here)
          isOpen,     \* ILiveTransport::is_open
          sequenced,  \* does the venue number its messages?
          log, next   \* what the venue has sent, and where delivery stands

linkVars == <<conn, silence, lastSeq, recent, isOpen>>

\* permits_trading
PermitsTrading == conn = "Ready"

FillKinds == {"partial", "fill"}

-----------------------------------------------------------------------------
\* connect(): opens the transport, then waits for mark_synchronized.  The
\* caller says whether the transport opens and from where the venue delivers.
Connect(ok, from) ==
  /\ conn' = IF ok THEN "Synchronizing" ELSE "Failed"
  /\ isOpen' = ok
  /\ silence' = IF ok THEN 0 ELSE silence
  /\ next' = IF ok THEN from ELSE next

\* Where a fresh connection may start to deliver.
Redelivery == 1..(Len(log) + 1)

\* tick(): the clock, not a message, notices a silent venue; a late one that
\* came back is trusted again.
Ticked ==
  IF conn \notin {"Ready", "Degraded"} THEN conn
  ELSE CASE silence = 2 -> "Reconnecting"
         [] silence = 1 -> "Degraded"
         [] silence = 0 -> "Ready"

-----------------------------------------------------------------------------
(* poll(): everything that has arrived, less what was seen before.         *)

Arrived == IF isOpen THEN next..Len(log) ELSE {}

\* Mutant of Fresh: no memory of what was delivered before the reconnect.
FreshAlways(arrived) == arrived

\* With sequence numbers, only what is above the watermark; without, a fill
\* whose id is remembered is dropped and everything else is taken again.
Fresh(arrived) ==
  {i \in arrived : IF sequenced THEN i > lastSeq
                   ELSE log[i].kind \in FillKinds => i \notin recent}

InOrder(S) == [k \in 1..Cardinality(S) |->
                 CHOOSE i \in S : Cardinality({j \in S : j < i}) = k - 1]

\* A message whose venue time is too far ahead is dropped, after the watermark
\* has moved past it.
\* A heartbeat (beat) proves the venue alive as any message does.
Poll(batch, beat) ==
  LET fresh == Fresh(Arrived)
  IN  /\ batch = InOrder({i \in fresh : ~log[i].ahead})
      /\ lastSeq' = IF sequenced THEN Max({lastSeq} \cup fresh) ELSE lastSeq
      /\ recent' = IF sequenced THEN recent
                   ELSE recent \cup {i \in fresh : log[i].kind \in FillKinds}
      /\ next' = IF isOpen THEN Len(log) + 1 ELSE next
      /\ silence' = IF isOpen /\ (beat \/ Arrived # {}) THEN 0 ELSE silence

Polled(batch) ==
  /\ \E beat \in BOOLEAN : Poll(batch, beat)
  /\ UNCHANGED <<conn, isOpen, sequenced, log>>

-----------------------------------------------------------------------------
\* The venue sends; time passes.
Message(kind, o, q, ahead) == [kind |-> kind, o |-> o, q |-> q, ahead |-> ahead]

Send(m) == Len(log) < MaxLog /\ log' = Append(log, m)

LinkInit ==
  /\ conn = "Disconnected" /\ silence = 0 /\ lastSeq = 0 /\ recent = {}
  /\ isOpen = FALSE /\ log = <<>> /\ next = 1
  /\ sequenced \in BOOLEAN
=============================================================================
