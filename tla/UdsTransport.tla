--------------------------- MODULE UdsTransport ----------------------------
(***************************************************************************)
(* One direction of the Unix-domain-socket transport (uds/transport_uds.c  *)
(* and uds/event_manager_uds.c).  The sending process queues messages and, *)
(* on a writeable event of its ring, writes them to a non-blocking stream  *)
(* socket, each behind a header; the receiving process, on a readable      *)
(* event, puts them together again.  Both are single-threaded; the steps   *)
(* are the system calls, so that the two processes interleave between any  *)
(* two of them.                                                            *)
(*                                                                         *)
(* The socket and the ring are external.  The socket is a bounded sequence *)
(* of units: a header, which is 5 bytes and is never split by a stream     *)
(* socket of this family, or a piece of a message.                         *)
(* `inFlight` is a history variable: no action reads it but to tell        *)
(* messages apart, and it is what the socket is compared with.             *)
(***************************************************************************)
EXTENDS Integers, Sequences, FiniteSets, SequencesExt

CONSTANTS
  Messages,        \* the messages sent; one is sent again once released
  NoMessage,
  Size,            \* units of data of each message
  Capacity,        \* units the socket buffers
  MaxBuffered,     \* max_buffered_messages
  MaxWriters       \* bound: writers open at once

ASSUME UdsAssumption ==
  /\ NoMessage \notin Messages
  /\ Size \in [Messages -> Nat \ {0}]
  /\ {Capacity, MaxBuffered, MaxWriters} \subseteq Nat \ {0}

VARIABLES
  writers,     \* open writers
  outq,        \* out_messages: message, units left, header_sent, data moved
  outCount,    \* out_message_count
  armed,       \* writeable events requested from the ring
  spc,         \* the sending process: in its loop, writing, or ended
  sock,        \* the socket, oldest unit first
  in,          \* in_message: message, units received
  held,        \* in_message is in the hands of the application
  rpc,         \* the receiving process: in its loop, or between its two recv
  inFlight     \* the messages sent and not wholly received, oldest first

vars == <<writers, outq, outCount, armed, spc, sock, in, held, rpc, inFlight>>

Header(m) == [kind |-> "header", of |-> m]
Piece(m) == [kind |-> "data", of |-> m]
Data(m, n) == [i \in 1..n |-> Piece(m)]
Nothing == [msg |-> NoMessage, got |-> 0]

Unit == [kind : {"header", "data"}, of : Messages]
Outgoing == [msg : Messages, left : Nat \ {0}, headerSent : BOOLEAN, moved : BOOLEAN]

Room == Capacity - Len(sock)

TypeOK ==
  /\ writers \in 0..MaxWriters
  /\ outq \in Seq(Outgoing)
  /\ outCount \in Nat
  /\ armed \in Nat
  /\ spc \in {"loop", "write", "aborted"}
  /\ sock \in Seq(Unit)
  /\ Len(sock) <= Capacity
  /\ in \in [msg : Messages \cup {NoMessage}, got : Nat]
  /\ held \in BOOLEAN
  /\ rpc \in {"loop", "data"}
  /\ inFlight \in Seq(Messages)

Init ==
  /\ writers = 0 /\ outq = <<>> /\ outCount = 0 /\ armed = 0 /\ spc = "loop"
  /\ sock = <<>>
  /\ in = Nothing /\ held = FALSE /\ rpc = "loop"
  /\ inFlight = <<>>

-----------------------------------------------------------------------------
\* A message has been begun and is not complete.
Begun == in.msg # NoMessage /\ ~held

-----------------------------------------------------------------------------
(* transport_uds_message_init, _send, and the cancel of a writer *)

sending == <<writers, outq, outCount, armed, spc>>
receiving == <<in, held, rpc, inFlight>>

\* (mutant) The length of the queue is not looked at.
MessageInitUnbounded ==
  /\ spc = "loop"
  /\ writers < MaxWriters
  /\ writers' = writers + 1
  /\ UNCHANGED <<outq, outCount, armed, spc, sock, receiving>>

\* With max_buffered_messages in the queue it returns NULL: nothing changes.
MessageInit ==
  /\ spc = "loop"
  /\ writers < MaxWriters
  /\ outCount < MaxBuffered
  /\ writers' = writers + 1
  /\ UNCHANGED <<outq, outCount, armed, spc, sock, receiving>>

\* (mutant) A cancelled writer is counted off the queue.
CancelCounting ==
  /\ spc = "loop"
  /\ writers > 0
  /\ writers' = writers - 1
  /\ outCount' = outCount - 1
  /\ UNCHANGED <<outq, armed, spc, sock, receiving>>

Cancel ==
  /\ spc = "loop"
  /\ writers > 0
  /\ writers' = writers - 1
  /\ UNCHANGED <<outq, outCount, armed, spc, sock, receiving>>

\* (mutant) Every send asks for an event.
MessageSendArming(m) ==
  /\ spc = "loop"
  /\ writers > 0
  /\ m \notin ToSet(inFlight) \cup {in.msg}
  /\ writers' = writers - 1
  /\ outq' = Append(outq, [msg |-> m, left |-> Size[m], headerSent |-> FALSE, moved |-> FALSE])
  /\ armed' = armed + 1
  /\ outCount' = outCount + 1
  /\ inFlight' = Append(inFlight, m)
  /\ UNCHANGED <<spc, sock, in, held, rpc>>

\* The message is queued, and the first one of a queue asks for an event.
\* Messages in use are told apart.
MessageSend(m) ==
  /\ spc = "loop"
  /\ writers > 0
  /\ m \notin ToSet(inFlight) \cup {in.msg}
  /\ writers' = writers - 1
  /\ outq' = Append(outq, [msg |-> m, left |-> Size[m], headerSent |-> FALSE, moved |-> FALSE])
  /\ armed' = armed + IF outCount = 0 THEN 1 ELSE 0
  /\ outCount' = outCount + 1
  /\ inFlight' = Append(inFlight, m)
  /\ UNCHANGED <<spc, sock, in, held, rpc>>

-----------------------------------------------------------------------------
(* The WRITEABLE event: transport_uds_write_messages *)

\* A send of no bytes completes whether or not there is room.
HandleWriteable ==
  /\ spc = "loop"
  /\ armed > 0
  /\ armed' = armed - 1
  /\ spc' = "write"
  /\ UNCHANGED <<writers, outq, outCount, sock, receiving>>

\* write_messages has returned: handle_event asks for another event when what
\* it returned is positive.
Written(result) ==
  /\ armed' = armed + IF result > 0 THEN 1 ELSE 0
  /\ spc' = "loop"

WriteHeader ==
  /\ spc = "write" /\ outq # <<>> /\ ~outq[1].headerSent
  /\ Room > 0
  /\ sock' = Append(sock, Header(outq[1].msg))
  /\ outq' = [outq EXCEPT ![1].headerSent = TRUE]
  /\ UNCHANGED <<writers, outCount, armed, spc, receiving>>

\* send fails with EAGAIN: -1 is returned.
WriteFails ==
  /\ spc = "write" /\ outq # <<>>
  /\ Room = 0
  /\ Written(-1)
  /\ UNCHANGED <<writers, outq, outCount, sock, receiving>>

\* (mutant) What was sent of the message is not skipped.
WritePartUnmoved ==
  LET o == outq[1] IN
  /\ spc = "write" /\ outq # <<>> /\ o.headerSent
  /\ 0 < Room /\ Room < o.left
  /\ sock' = sock \o Data(o.msg, Room)
  /\ outq' = [outq EXCEPT ![1].moved = TRUE]
  /\ Written(outCount)
  /\ UNCHANGED <<writers, outCount, receiving>>

\* The socket takes a part of the data: `data` is moved behind it, and the
\* rest waits for the next event.
WritePart ==
  LET o == outq[1] IN
  /\ spc = "write" /\ outq # <<>> /\ o.headerSent
  /\ 0 < Room /\ Room < o.left
  /\ sock' = sock \o Data(o.msg, Room)
  /\ outq' = [outq EXCEPT ![1].left = @ - Room, ![1].moved = TRUE]
  /\ Written(outCount)
  /\ UNCHANGED <<writers, outCount, receiving>>

\* The socket takes all that is left: the message leaves the queue and its
\* data is freed.  Freeing a pointer that was moved is undefined; the heap
\* checks of the C library end the process.
WriteRest ==
  LET o == outq[1] IN
  /\ spc = "write" /\ outq # <<>> /\ o.headerSent
  /\ o.left <= Room
  /\ sock' = sock \o Data(o.msg, o.left)
  /\ outq' = Tail(outq)
  /\ outCount' = outCount - 1
  /\ spc' = IF o.moved THEN "aborted" ELSE "write"
  /\ UNCHANGED <<writers, armed, receiving>>

WriteDone ==
  /\ spc = "write" /\ outq = <<>>
  /\ Written(outCount)
  /\ UNCHANGED <<writers, outq, outCount, sock, receiving>>

-----------------------------------------------------------------------------
(* The READABLE event: transport_uds_message_receive, and the release *)

\* A read of no bytes completes when there is something to read, and the next
\* one is requested before this one is handled: there is an event as long as
\* there is data.  With no message begun the header is peeked at, then taken.
\* (A unit that is no header is dropped: StreamFramed says there is none.)
ReceiveHeader ==
  /\ rpc = "loop" /\ in = Nothing
  /\ sock # <<>>
  /\ sock' = Tail(sock)
  /\ IF Head(sock).kind = "header"
     THEN in' = [msg |-> Head(sock).of, got |-> 0] /\ rpc' = "data"
     ELSE UNCHANGED <<in, rpc>>
  /\ UNCHANGED <<sending, held, inFlight>>

\* The next event for a message already begun goes straight to its data.
ReceiveMore ==
  /\ rpc = "loop" /\ Begun
  /\ sock # <<>>
  /\ rpc' = "data"
  /\ UNCHANGED <<sending, sock, in, held, inFlight>>

\* (mutant) The read is not limited to what is missing of the message.
ReceiveDataUnlimited ==
  LET n == Len(sock) IN
  /\ rpc = "data"
  /\ sock' = SubSeq(sock, n + 1, Len(sock))
  /\ in' = [in EXCEPT !.got = @ + n]
  /\ held' = (in.got + n >= Size[in.msg])
  /\ inFlight' = IF held' THEN Tail(inFlight) ELSE inFlight
  /\ rpc' = "loop"
  /\ UNCHANGED sending

\* recv takes what is there, up to what is missing; the whole message goes to
\* the application, and stays in in_message until it is released.
ReceiveData ==
  LET missing == Size[in.msg] - in.got
      n == IF Len(sock) < missing THEN Len(sock) ELSE missing
  IN
  /\ rpc = "data"
  /\ sock' = SubSeq(sock, n + 1, Len(sock))
  /\ in' = [in EXCEPT !.got = @ + n]
  /\ held' = (n = missing)
  /\ inFlight' = IF 0 < n /\ n = missing THEN Tail(inFlight) ELSE inFlight
  /\ rpc' = "loop"
  /\ UNCHANGED sending

\* (mutant) The released message stays in in_message.
MessageReleaseKeeping ==
  /\ held /\ rpc = "loop"
  /\ held' = FALSE
  /\ UNCHANGED <<sending, sock, in, rpc, inFlight>>

MessageRelease ==
  /\ held /\ rpc = "loop"
  /\ held' = FALSE
  /\ in' = Nothing
  /\ UNCHANGED <<sending, sock, rpc, inFlight>>

-----------------------------------------------------------------------------
Write == WriteHeader \/ WriteFails \/ WritePart \/ WriteRest \/ WriteDone
Receive == ReceiveHeader \/ ReceiveMore \/ ReceiveData

Next ==
  \/ MessageInit \/ Cancel \/ \E m \in Messages : MessageSend(m)
  \/ HandleWriteable
  \/ WriteHeader \/ WriteFails \/ WritePart \/ WriteRest \/ WriteDone
  \/ ReceiveHeader \/ ReceiveMore \/ ReceiveData
  \/ MessageRelease

Spec == Init /\ [][Next]_vars

\* Both event loops run, and the application releases what it has received:
\* nothing else is received before.  Nobody has to send.
FairSpec ==
  /\ Spec
  /\ WF_vars(HandleWriteable \/ Write)
  /\ WF_vars(Receive)
  /\ WF_vars(MessageRelease)

-----------------------------------------------------------------------------
\* What is in the socket and what is still to be sent, put together, is the
\* rest of the message being received and then whole messages, each behind
\* its header: however the writes and reads are cut, the two processes never
\* disagree about where a message begins.
Frame(m) == <<Header(m)>> \o Data(m, Size[m])

Unsent == [i \in DOMAIN outq |->
             (IF outq[i].headerSent THEN <<>> ELSE <<Header(outq[i].msg)>>)
               \o Data(outq[i].msg, outq[i].left)]

StreamFramed ==
  LET behind == IF Begun THEN Tail(inFlight) ELSE inFlight
      rest == IF Begun THEN Data(in.msg, Size[in.msg] - in.got) ELSE <<>>
  IN sock \o FlattenSeq(Unsent)
       = rest \o FlattenSeq([i \in DOMAIN behind |-> Frame(behind[i])])

\* What the receiving process takes the units of the socket for is what they
\* are: those still missing of the message it has begun, which is the oldest
\* one in flight, are data of it, and the one behind them is the header of the
\* next.
ReaderInStep ==
  LET missing == IF Begun THEN Size[in.msg] - in.got ELSE 0
      next == IF Begun THEN 2 ELSE 1
  IN /\ Begun => inFlight # <<>> /\ in.msg = inFlight[1]
     /\ \A p \in DOMAIN sock :
          /\ p <= missing => sock[p] = Piece(in.msg)
          /\ p = missing + 1 => next \in DOMAIN inFlight /\ sock[p] = Header(inFlight[next])

\* The counter is the length of the queue, and an event is never requested
\* twice nor for nothing: two would run write_messages once too often, and the
\* test for 0 in message_send would be wrong.
OneEventPerQueue ==
  /\ outCount = Len(outq)
  /\ armed <= 1
  /\ armed = 1 => outq # <<>> /\ spc = "loop"

\* max_buffered_messages bounds the queue when a writer is opened, not when it
\* is sent: the writers that are open at once, but for one, may overfill it.
QueueBounded == outCount + writers <= MaxBuffered + MaxWriters - 1

\* A write that found the socket full was the last one: messages are queued,
\* and no event is requested that would write them.
Stalled == outq # <<>> /\ armed = 0 /\ spc = "loop"

\* A message whose data has left the queue is received in the end; one that has
\* not, too, unless the sending process has stalled or ended.
Delivered ==
  \A m \in Messages :
    /\ m \in ToSet(inFlight) ~> (m \notin ToSet(inFlight) \/ Stalled \/ spc = "aborted")
    /\ (m \in ToSet(inFlight) /\ m \notin {outq[i].msg : i \in DOMAIN outq})
         ~> m \notin ToSet(inFlight)

\* A direction of this transport is a message channel.
C == INSTANCE MessageChannel WITH
       queue <- inFlight,
       held <- IF held THEN {in.msg} ELSE {}

Refinement == C!Spec
=============================================================================
