------------------------- MODULE UdsTransportProofs -------------------------
(***************************************************************************)
(* Proofs about the Unix-domain-socket transport, for any messages of any  *)
(* size, any capacity of the socket and any bound on the queue: the stream *)
(* is whole frames, the reader never loses its place in it, and the two    *)
(* processes together are a message channel.                               *)
(***************************************************************************)
EXTENDS UdsTransport, SequenceTheorems, WellFoundedInduction, TLAPS

-----------------------------------------------------------------------------
(* The inductive invariant *)

\* The message at the head of the queue of the sender, among those in flight.
First == Len(inFlight) - Len(outq) + 1

\* The queue of the sender is the youngest part of what is in flight, and only
\* its head can be written in part.
QueueInv ==
  /\ Len(outq) <= Len(inFlight)
  /\ \A i \in DOMAIN outq :
       /\ outq[i].msg = inFlight[Len(inFlight) - Len(outq) + i]
       /\ outq[i].left <= Size[outq[i].msg]
       /\ i > 1 => ~outq[i].headerSent
       /\ ~outq[i].headerSent => outq[i].left = Size[outq[i].msg]

\* The message the receiver has begun is the oldest in flight, and incomplete.
ReaderInv ==
  /\ in.msg = NoMessage => in = Nothing
  /\ held => in.msg # NoMessage
  /\ rpc = "data" => Begun
  /\ Begun => inFlight # <<>> /\ in.msg = inFlight[1] /\ in.got < Size[in.msg]

\* The frames of the messages in flight follow each other: start[k] is the
\* position of the header of the k-th, counted from the oldest unit in the
\* socket.  It is not positive when that header has been received.
Follows(start) ==
  /\ inFlight # <<>> => start[1] = IF Begun THEN -in.got ELSE 1
  /\ \A k \in 1..Len(inFlight) - 1 : start[k + 1] = start[k] + Size[inFlight[k]] + 1
  /\ \A j, k \in DOMAIN inFlight : j < k => start[j] + Size[inFlight[j]] < start[k]

\* Each unit in the socket is what the frame it lies in says.
Laid(start) ==
  \A p \in DOMAIN sock, k \in DOMAIN inFlight :
    /\ p = start[k] => sock[p] = Header(inFlight[k])
    /\ start[k] < p /\ p <= start[k] + Size[inFlight[k]] => sock[p] = Piece(inFlight[k])

\* The socket ends where the sender goes on.
Ends(start) ==
  /\ outq # <<>> =>
       Len(sock) = start[First] + IF outq[1].headerSent THEN Size[outq[1].msg] - outq[1].left ELSE -1
  /\ outq = <<>> /\ inFlight # <<>> =>
       Len(sock) = start[Len(inFlight)] + Size[inFlight[Len(inFlight)]]
  /\ inFlight = <<>> => sock = <<>>

Framed == \E start \in [DOMAIN inFlight -> Int] : Follows(start) /\ Laid(start) /\ Ends(start)

StreamInv == QueueInv /\ ReaderInv /\ Framed

Inv == TypeOK /\ OneEventPerQueue /\ StreamInv

-----------------------------------------------------------------------------
(* Types *)

LEMMA SizeType ==
  ASSUME NEW m \in Messages
  PROVE  Size[m] \in Nat /\ Size[m] > 0 /\ m # NoMessage
BY UdsAssumption

LEMMA DataType ==
  ASSUME NEW m \in Messages, NEW n \in Nat
  PROVE  /\ Data(m, n) \in Seq(Unit)
         /\ Len(Data(m, n)) = n
         /\ \A i \in 1..n : Data(m, n)[i] = Piece(m)
<1>1. Piece(m) \in Unit
  BY DEF Piece, Unit
<1>2. QED
  BY <1>1 DEF Data

LEMMA RestType ==
  ASSUME NEW S, NEW s \in Seq(S), NEW n \in 0..Len(s)
  PROVE  /\ SubSeq(s, n + 1, Len(s)) \in Seq(S)
         /\ Len(SubSeq(s, n + 1, Len(s))) = Len(s) - n
OBVIOUS

LEMMA HeadType ==
  ASSUME TypeOK, outq # <<>>
  PROVE  /\ outq[1] \in Outgoing
         /\ outq[1].msg \in Messages
         /\ outq[1].left \in Nat /\ outq[1].left > 0
         /\ outq[1].headerSent \in BOOLEAN
<1>1. outq[1] \in Outgoing
  BY DEF TypeOK
<1>2. QED
  BY <1>1 DEF Outgoing

\* Each step keeps the variables in their types: what is left of a message
\* stays positive until it leaves the queue, and the socket takes no more than
\* it has room for.
LEMMA TypeStep ==
  ASSUME Inv, [Next]_vars
  PROVE  TypeOK'
<1> USE UdsAssumption DEF TypeOK, Inv, receiving, sending
<1>1. CASE MessageInit
  BY <1>1 DEF MessageInit
<1>2. CASE Cancel
  BY <1>2 DEF Cancel
<1>3. ASSUME NEW m \in Messages, MessageSend(m) PROVE TypeOK'
  <2>1. [msg |-> m, left |-> Size[m], headerSent |-> FALSE, moved |-> FALSE] \in Outgoing
    BY SizeType DEF Outgoing
  <2>2. outq' \in Seq(Outgoing) /\ inFlight' \in Seq(Messages)
    BY <1>3, <2>1 DEF MessageSend
  <2>3. QED
    BY <1>3, <2>2 DEF MessageSend
<1>4. CASE HandleWriteable
  BY <1>4 DEF HandleWriteable
<1>5. CASE WriteHeader
  <2>1. outq[1] \in Outgoing /\ outq[1].msg \in Messages
    BY <1>5, HeadType DEF WriteHeader
  <2>2. Header(outq[1].msg) \in Unit
    BY <2>1 DEF Header, Unit
  <2>3. sock' \in Seq(Unit) /\ Len(sock') <= Capacity
    BY <1>5, <2>2 DEF WriteHeader, Room
  <2>4. [outq[1] EXCEPT !.headerSent = TRUE] \in Outgoing
    BY <2>1 DEF Outgoing
  <2>5. outq' \in Seq(Outgoing)
    BY <1>5, <2>4 DEF WriteHeader
  <2>6. QED
    BY <1>5, <2>3, <2>5 DEF WriteHeader
<1>6. CASE WriteFails
  BY <1>6 DEF WriteFails, Written
<1>7. CASE WritePart
  <2>1. outq[1] \in Outgoing /\ outq[1].msg \in Messages /\ outq[1].left \in Nat
    BY <1>7, HeadType DEF WritePart
  <2>2. Room \in Nat /\ Room < outq[1].left
    BY <1>7, <2>1 DEF WritePart, Room
  <2>3. Data(outq[1].msg, Room) \in Seq(Unit) /\ Len(Data(outq[1].msg, Room)) = Room
    BY <2>1, <2>2, DataType
  <2>4. sock' \in Seq(Unit) /\ Len(sock') <= Capacity
    BY <1>7, <2>3 DEF WritePart, Room
  <2> DEFINE o == [outq[1] EXCEPT !.left = @ - Room, !.moved = TRUE]
  <2>5. o \in Outgoing
    <3>1. outq[1].left - Room \in Nat \ {0}
      BY <2>1, <2>2
    <3>2. QED
      BY <2>1, <3>1 DEF Outgoing
  <2>6. outq' = [outq EXCEPT ![1] = o]
    BY <1>7 DEF WritePart
  <2> HIDE DEF o
  <2>7. outq' \in Seq(Outgoing)
    <3>1. outq \in Seq(Outgoing) /\ 1 \in 1..Len(outq)
      BY <1>7 DEF WritePart
    <3>2. QED
      BY <2>5, <2>6, <3>1, ExceptSeq
  <2>8. QED
    BY <1>7, <2>4, <2>7 DEF WritePart, Written
<1>8. CASE WriteRest
  <2>1. outq[1] \in Outgoing /\ outq[1].msg \in Messages /\ outq[1].left \in Nat
    BY <1>8, HeadType DEF WriteRest
  <2>2. Data(outq[1].msg, outq[1].left) \in Seq(Unit) /\ Len(Data(outq[1].msg, outq[1].left)) = outq[1].left
    BY <2>1, DataType
  <2>3. sock' \in Seq(Unit) /\ Len(sock') <= Capacity
    BY <1>8, <2>1, <2>2 DEF WriteRest, Room
  <2>4. outCount' \in Nat /\ outq' \in Seq(Outgoing)
    BY <1>8 DEF WriteRest, OneEventPerQueue
  <2>5. QED
    BY <1>8, <2>3, <2>4 DEF WriteRest
<1>9. CASE WriteDone
  BY <1>9 DEF WriteDone, Written
<1>10. CASE ReceiveHeader
  <2>1. Head(sock) \in Unit
    BY <1>10 DEF ReceiveHeader
  <2>2. sock' \in Seq(Unit) /\ Len(sock') <= Capacity
    BY <1>10 DEF ReceiveHeader
  <2>3. in' \in [msg : Messages \cup {NoMessage}, got : Nat]
    BY <1>10, <2>1 DEF ReceiveHeader, Unit
  <2>4. QED
    BY <1>10, <2>2, <2>3 DEF ReceiveHeader
<1>11. CASE ReceiveMore
  BY <1>11 DEF ReceiveMore
<1>12. CASE ReceiveData
  <2> DEFINE missing == Size[in.msg] - in.got
             n == IF Len(sock) < missing THEN Len(sock) ELSE missing
  <2>1. in.got \in Nat /\ Size[in.msg] \in Nat /\ in.got < Size[in.msg] /\ inFlight # <<>>
    <3>1. Begun /\ in.got < Size[in.msg] /\ in.msg \in Messages /\ inFlight # <<>>
      BY <1>12 DEF ReceiveData, StreamInv, ReaderInv, Begun
    <3>2. QED
      BY <3>1, SizeType
  <2>2. n \in Nat /\ n <= Len(sock)
    BY <2>1
  <2>3. sock' = SubSeq(sock, n + 1, Len(sock)) /\ in' = [in EXCEPT !.got = @ + n]
    BY <1>12 DEF ReceiveData
  <2> HIDE DEF n
  <2>4. sock' \in Seq(Unit) /\ Len(sock') <= Capacity
    <3>1. n \in 0..Len(sock) /\ sock \in Seq(Unit)
      BY <2>2
    <3>2. sock' \in Seq(Unit) /\ Len(sock') = Len(sock) - n
      BY <2>3, <3>1, RestType
    <3>3. QED
      BY <2>2, <3>1, <3>2
  <2>5. in' \in [msg : Messages \cup {NoMessage}, got : Nat]
    <3>1. in.got + n \in Nat
      BY <2>1, <2>2
    <3>2. QED
      BY <2>3, <3>1
  <2>6. inFlight' \in Seq(Messages)
    BY <1>12, <2>1 DEF ReceiveData
  <2>7. QED
    BY <1>12, <2>4, <2>5, <2>6 DEF ReceiveData
<1>13. CASE MessageRelease
  BY <1>13 DEF MessageRelease, Nothing
<1>14. CASE UNCHANGED vars
  BY <1>14 DEF vars
<1>15. QED
  BY <1>1, <1>2, <1>3, <1>4, <1>5, <1>6, <1>7, <1>8, <1>9, <1>10, <1>11, <1>12, <1>13, <1>14 DEF Next

-----------------------------------------------------------------------------
(* The counter and the event *)

\* An event is requested by the first message of a queue, and by a write that
\* leaves messages in it; both happen where none is requested.
LEMMA EventStep ==
  ASSUME Inv, [Next]_vars
  PROVE  OneEventPerQueue'
<1> USE DEF TypeOK, OneEventPerQueue, Inv, receiving, sending
<1>1. CASE MessageInit \/ Cancel \/ HandleWriteable \/ WriteFails \/ WriteDone
  BY <1>1 DEF MessageInit, Cancel, HandleWriteable, WriteFails, WriteDone, Written
<1>2. ASSUME NEW m \in Messages, MessageSend(m) PROVE OneEventPerQueue'
  BY <1>2 DEF MessageSend
<1>3. CASE WriteHeader
  BY <1>3 DEF WriteHeader
<1>4. CASE WritePart
  <2>1. Len(outq') = Len(outq) /\ outq' # <<>>
    BY <1>4 DEF WritePart
  <2>2. QED
    BY <1>4, <2>1 DEF WritePart, Written
<1>5. CASE WriteRest
  BY <1>5 DEF WriteRest
<1>6. CASE ReceiveHeader \/ ReceiveMore \/ MessageRelease
  BY <1>6 DEF ReceiveHeader, ReceiveMore, MessageRelease
<1>7. CASE ReceiveData
  BY <1>7 DEF ReceiveData
<1>8. CASE UNCHANGED vars
  BY <1>8 DEF vars
<1>9. QED
  BY <1>1, <1>2, <1>3, <1>4, <1>5, <1>6, <1>7, <1>8 DEF Next

-----------------------------------------------------------------------------
(* The stream *)

stream == <<outq, sock, in, held, inFlight>>

LEMMA Elsewhere ==
  ASSUME Inv, UNCHANGED stream, rpc' = "data" => Begun
  PROVE  StreamInv'
<1>1. QueueInv'
  BY DEF Inv, StreamInv, QueueInv, stream
<1>2. ReaderInv'
  BY DEF Inv, StreamInv, ReaderInv, Begun, Nothing, stream
<1>3. Framed'
  BY DEF Inv, StreamInv, Framed, Follows, Laid, Ends, First, Begun, stream
<1>4. QED
  BY <1>1, <1>2, <1>3 DEF StreamInv

\* A message sent is put behind all others, and its frame begins where the
\* socket will end when those are written.
LEMMA SendFrames ==
  ASSUME Inv, NEW m \in Messages, MessageSend(m)
  PROVE  StreamInv'
<1> DEFINE N == Len(inFlight)
           Q == Len(outq)
           o == [msg |-> m, left |-> Size[m], headerSent |-> FALSE, moved |-> FALSE]
<1>1. /\ inFlight \in Seq(Messages) /\ outq \in Seq(Outgoing)
      /\ N \in Nat /\ Q \in Nat /\ Q <= N
  BY DEF Inv, TypeOK, StreamInv, QueueInv
<1>2. inFlight' = Append(inFlight, m) /\ outq' = Append(outq, o) /\ UNCHANGED <<sock, in, held, rpc>>
  BY DEF MessageSend
<1>3. /\ Len(inFlight') = N + 1 /\ Len(outq') = Q + 1
      /\ \A k \in 1..N : inFlight'[k] = inFlight[k]
      /\ \A i \in 1..Q : outq'[i] = outq[i]
      /\ inFlight'[N + 1] = m /\ outq'[Q + 1] = o
      /\ inFlight' # <<>> /\ outq' # <<>>
  <2>1. o \in Outgoing
    BY SizeType DEF Outgoing
  <2> HIDE DEF o
  <2>2. QED
    BY <1>1, <1>2, <2>1
<1>4. QueueInv'
  <2>1. ASSUME NEW i \in 1..Q + 1
        PROVE  /\ outq'[i].msg = inFlight'[N - Q + i]
               /\ outq'[i].left <= Size[outq'[i].msg]
               /\ i > 1 => ~outq'[i].headerSent
               /\ ~outq'[i].headerSent => outq'[i].left = Size[outq'[i].msg]
    <3>1. CASE i = Q + 1
      BY <3>1, <1>1, <1>3, SizeType
    <3>2. CASE i \in 1..Q
      <4>1. N - Q + i \in 1..N
        BY <3>2, <1>1
      <4>2. outq'[i] = outq[i] /\ inFlight'[N - Q + i] = inFlight[N - Q + i]
        BY <3>2, <4>1, <1>3
      <4>3. QED
        BY <3>2, <4>2, <1>1 DEF Inv, StreamInv, QueueInv
    <3>3. QED
      BY <3>1, <3>2, <1>1
  <2>2. DOMAIN outq' = 1..Q + 1 /\ Len(inFlight') - Len(outq') = N - Q
    BY <1>1, <1>2, <1>3
  <2>3. QED
    BY <2>1, <2>2, <1>1, <1>3 DEF QueueInv
<1>5. ReaderInv'
  <2>1. inFlight # <<>> => inFlight'[1] = inFlight[1]
    BY <1>1, <1>3
  <2>2. QED
    BY <2>1, <1>2, <1>3 DEF Inv, StreamInv, ReaderInv, Begun, Nothing
<1>6. Framed'
  <2>1. PICK start \in [DOMAIN inFlight -> Int] : Follows(start) /\ Laid(start) /\ Ends(start)
    BY DEF Inv, StreamInv, Framed
  <2> DEFINE next == IF inFlight = <<>> THEN 1 ELSE start[N] + Size[inFlight[N]] + 1
             start2 == [k \in 1..N + 1 |-> IF k = N + 1 THEN next ELSE start[k]]
  <2>2. \A k \in 1..N : inFlight[k] \in Messages /\ Size[inFlight[k]] \in Nat /\ start[k] \in Int
    BY <1>1, SizeType
  <2>3. next \in Int
    BY <1>1, <2>2
  <2>4. PICK s \in [1..N + 1 -> Int] : s[N + 1] = next /\ \A k \in 1..N : s[k] = start[k]
    <3>1. start2 \in [1..N + 1 -> Int] /\ start2[N + 1] = next /\ \A k \in 1..N : start2[k] = start[k]
      BY <1>1, <2>2, <2>3
    <3>2. QED
      BY <3>1
  <2>5. DOMAIN inFlight' = 1..N + 1 /\ DOMAIN inFlight = 1..N
    BY <1>1, <1>2, <1>3
  <2>6. ASSUME NEW k \in 1..N PROVE start[k] + Size[inFlight[k]] < next
    <3>1. CASE k = N
      BY <3>1, <1>1, <2>2
    <3>2. CASE k < N
      <4>1. N \in 1..N /\ inFlight # <<>>
        BY <3>2, <1>1
      <4>2. start[k] + Size[inFlight[k]] < start[N]
        BY <3>2, <4>1, <2>1, <2>5 DEF Follows
      <4>3. next = start[N] + Size[inFlight[N]] + 1
        BY <4>1
      <4>4. QED
        BY <4>1, <4>2, <4>3, <2>2
    <3>3. QED
      BY <3>1, <3>2, <1>1
  <2>7. Len(sock) < next /\ (outq = <<>> => Len(sock) = next - 1)
    <3>1. CASE inFlight = <<>>
      BY <3>1, <2>1 DEF Ends
    <3>2. CASE inFlight # <<>> /\ outq = <<>>
      BY <3>2, <2>1, <2>2, <1>1 DEF Ends, Inv, TypeOK
    <3>3. CASE outq # <<>>
      <4>1. First \in 1..N /\ outq[1].msg = inFlight[First]
        BY <3>3, <1>1 DEF First, Inv, StreamInv, QueueInv
      <4>2. start[First] + Size[inFlight[First]] < next
        BY <4>1, <2>6
      <4>3. outq[1].left \in Nat /\ outq[1].left > 0
        BY <3>3, HeadType DEF Inv
      <4>4. Len(sock) = start[First] + IF outq[1].headerSent THEN Size[inFlight[First]] - outq[1].left ELSE -1
        BY <3>3, <2>1, <4>1 DEF Ends
      <4>5. start[First] \in Int /\ Size[inFlight[First]] \in Nat
        BY <4>1, <2>2
      <4>6. QED
        BY <3>3, <4>2, <4>3, <4>4, <4>5, <2>3
    <3>4. QED
      BY <3>1, <3>2, <3>3
  <2> HIDE DEF next
  <2>8. Follows(s)'
    <3>1. s[1] = IF Begun' THEN -in'.got ELSE 1
      <4>1. CASE inFlight = <<>>
        <5>1. ~Begun /\ N = 0 /\ next = 1
          BY <4>1 DEF Inv, StreamInv, ReaderInv, next
        <5>2. QED
          BY <5>1, <2>4, <1>2 DEF Begun
      <4>2. CASE inFlight # <<>>
        BY <4>2, <2>1, <2>4, <1>1, <1>2 DEF Follows, Begun
      <4>3. QED
        BY <4>1, <4>2
    <3>2. ASSUME NEW k \in 1..N PROVE s[k + 1] = s[k] + Size[inFlight'[k]] + 1
      <4>1. CASE k = N
        BY <4>1, <2>4, <1>1, <1>3 DEF next
      <4>2. CASE k \in 1..N - 1
        BY <4>2, <2>1, <2>4, <1>1, <1>3 DEF Follows
      <4>3. QED
        BY <4>1, <4>2, <1>1
    <3>3. ASSUME NEW j \in 1..N + 1, NEW k \in 1..N + 1, j < k
          PROVE  s[j] + Size[inFlight'[j]] < s[k]
      <4>1. j \in 1..N
        BY <3>3, <1>1
      <4>2. CASE k = N + 1
        BY <4>1, <4>2, <2>4, <2>6, <1>3
      <4>3. CASE k \in 1..N
        BY <3>3, <4>1, <4>3, <2>1, <2>4, <2>5, <1>3 DEF Follows
      <4>4. QED
        BY <4>2, <4>3, <1>1
    <3>4. QED
      BY <3>1, <3>2, <3>3, <2>5, <1>1, <1>3 DEF Follows
  <2>9. Laid(s)'
    <3>1. ASSUME NEW p \in DOMAIN sock, NEW k \in 1..N + 1
          PROVE  /\ p = s[k] => sock[p] = Header(inFlight'[k])
                 /\ s[k] < p /\ p <= s[k] + Size[inFlight'[k]] => sock[p] = Piece(inFlight'[k])
      <4>1. CASE k = N + 1
        <5>1. p < s[k]
          BY <4>1, <2>4, <2>7, <2>3 DEF Inv, TypeOK
        <5>2. QED
          BY <4>1, <5>1, <2>3, <2>4 DEF Inv, TypeOK
      <4>2. CASE k \in 1..N
        BY <4>2, <2>1, <2>4, <2>5, <1>3 DEF Laid
      <4>3. QED
        BY <4>1, <4>2, <1>1
    <3>2. QED
      BY <3>1, <2>5, <1>2 DEF Laid
  <2>10. Ends(s)'
    <3>1. First' = N - Q + 1
      BY <1>1, <1>3 DEF First
    <3>2. CASE outq = <<>>
      <4>1. First' = N + 1 /\ outq'[1] = o
        BY <3>1, <3>2, <1>1, <1>3
      <4>2. Len(sock) = next + (-1)
        BY <3>2, <2>3, <2>7 DEF Inv, TypeOK
      <4>3. QED
        BY <4>1, <4>2, <2>4, <1>2, <1>3 DEF Ends
    <3>3. CASE outq # <<>>
      <4>1. First' = First /\ First \in 1..N /\ outq'[1] = outq[1]
        BY <3>1, <3>3, <1>1, <1>3 DEF First
      <4>2. QED
        BY <3>3, <4>1, <2>1, <2>4, <1>2, <1>3 DEF Ends
    <3>4. QED
      BY <3>2, <3>3
  <2>11. QED
    BY <2>4, <2>5, <2>8, <2>9, <2>10 DEF Framed
<1>7. QED
  BY <1>4, <1>5, <1>6 DEF StreamInv

\* The head of the queue of the sender in the frames of the stream.
LEMMA HeadFrame ==
  ASSUME Inv, outq # <<>>
  PROVE  /\ First \in DOMAIN inFlight /\ First \in 1..Len(inFlight)
         /\ inFlight[First] = outq[1].msg /\ outq[1].msg \in Messages
         /\ outq[1].left \in 1..Size[outq[1].msg]
         /\ Size[outq[1].msg] \in Nat
         /\ ~outq[1].headerSent => outq[1].left = Size[outq[1].msg]
         /\ outq[1].headerSent \in BOOLEAN
<1>1. /\ inFlight \in Seq(Messages) /\ outq \in Seq(Outgoing)
      /\ Len(outq) <= Len(inFlight) /\ 1 \in DOMAIN outq /\ Len(outq) \in Nat \ {0}
  BY DEF Inv, TypeOK, StreamInv, QueueInv
<1>2. First \in 1..Len(inFlight)
  BY <1>1 DEF First
<1>3. inFlight[First] = outq[1].msg /\ outq[1].left <= Size[outq[1].msg]
      /\ (~outq[1].headerSent => outq[1].left = Size[outq[1].msg])
  BY <1>1 DEF First, Inv, StreamInv, QueueInv
<1>4. QED
  BY <1>1, <1>2, <1>3, HeadType, SizeType DEF Inv

LEMMA HeaderFrames ==
  ASSUME Inv, WriteHeader
  PROVE  StreamInv'
<1> DEFINE m == outq[1].msg
           L == Len(sock)
<1>1. /\ inFlight \in Seq(Messages) /\ outq \in Seq(Outgoing) /\ sock \in Seq(Unit)
      /\ 1 \in 1..Len(outq) /\ outq # <<>> /\ L \in Nat
  BY DEF WriteHeader, Inv, TypeOK
<1>2. /\ ~outq[1].headerSent
      /\ sock' = Append(sock, Header(m))
      /\ outq' = [outq EXCEPT ![1].headerSent = TRUE]
      /\ UNCHANGED <<in, held, rpc, inFlight>>
  BY DEF WriteHeader, receiving
<1>3. /\ Len(outq') = Len(outq) /\ DOMAIN outq' = DOMAIN outq /\ outq' # <<>>
      /\ outq'[1] = [outq[1] EXCEPT !.headerSent = TRUE]
      /\ \A i \in DOMAIN outq : i > 1 => outq'[i] = outq[i]
  <2> DEFINE o == [outq[1] EXCEPT !.headerSent = TRUE]
  <2>1. outq' = [outq EXCEPT ![1] = o]
    BY <1>2
  <2>2. o \in Outgoing
    BY <1>1, HeadType DEF Inv, Outgoing
  <2> HIDE DEF o
  <2>3. /\ Len(outq') = Len(outq) /\ outq' \in Seq(Outgoing)
        /\ \A i \in 1..Len(outq) : outq'[i] = IF i = 1 THEN o ELSE outq[i]
    BY <1>1, <2>1, <2>2, ExceptSeq
  <2>4. /\ DOMAIN outq' = DOMAIN outq /\ outq' # <<>> /\ outq'[1] = o
        /\ \A i \in DOMAIN outq : i > 1 => outq'[i] = outq[i]
    BY <1>1, <2>3
  <2>5. QED
    BY <2>3, <2>4 DEF o
<1>4. /\ outq'[1].msg = m /\ outq'[1].left = outq[1].left /\ outq'[1].headerSent
  BY <1>1, <1>3, HeadType DEF Inv, Outgoing
<1>5. /\ Len(sock') = L + 1
      /\ \A p \in 1..L : sock'[p] = sock[p]
      /\ sock'[L + 1] = Header(m)
      /\ DOMAIN sock' = 1..L + 1 /\ DOMAIN sock = 1..L
  <2>1. Header(m) \in Unit
    BY <1>1, HeadType DEF Inv, Header, Unit
  <2>2. QED
    BY <1>1, <1>2, <2>1
<1>6. QueueInv'
  <2>1. ASSUME NEW i \in DOMAIN outq
        PROVE  /\ outq'[i].msg = inFlight[Len(inFlight) - Len(outq) + i]
               /\ outq'[i].left <= Size[outq'[i].msg]
               /\ i > 1 => ~outq'[i].headerSent
               /\ ~outq'[i].headerSent => outq'[i].left = Size[outq'[i].msg]
    <3>1. CASE i = 1
      BY <3>1, <1>4 DEF Inv, StreamInv, QueueInv
    <3>2. CASE i > 1
      BY <3>2, <1>3 DEF Inv, StreamInv, QueueInv
    <3>3. QED
      BY <3>1, <3>2, <1>1
  <2>2. QED
    BY <2>1, <1>2, <1>3 DEF Inv, StreamInv, QueueInv
<1>7. ReaderInv'
  BY <1>2 DEF Inv, StreamInv, ReaderInv, Begun, Nothing
<1>8. Framed'
  <2>1. PICK start \in [DOMAIN inFlight -> Int] : Follows(start) /\ Laid(start) /\ Ends(start)
    BY DEF Inv, StreamInv, Framed
  <2>2. Follows(start)'
    BY <2>1, <1>2 DEF Follows, Begun
  <2>3. /\ First \in DOMAIN inFlight /\ inFlight[First] = m /\ start[First] \in Int
        /\ L = start[First] - 1
    BY <2>1, <1>1, <1>2, HeadFrame DEF Ends
  <2>4. ASSUME NEW k \in DOMAIN inFlight
        PROVE  /\ L + 1 = start[k] => m = inFlight[k]
               /\ ~(start[k] < L + 1 /\ L + 1 <= start[k] + Size[inFlight[k]])
    <3>1. start[k] \in Int /\ Size[inFlight[k]] \in Nat /\ k \in Int /\ First \in Int
      BY <1>1, <2>3, SizeType DEF First
    <3>2. Size[inFlight[First]] \in Nat
      BY <1>1, <2>3, SizeType
    <3>3. CASE k = First
      BY <3>1, <3>3, <2>3
    <3>4. CASE k < First
      <4>1. start[k] + Size[inFlight[k]] < start[First]
        BY <3>4, <2>1, <2>3 DEF Follows
      <4>2. QED
        BY <4>1, <3>1, <2>3
    <3>5. CASE k > First
      <4>1. start[First] + Size[inFlight[First]] < start[k]
        BY <3>5, <2>1, <2>3 DEF Follows
      <4>2. QED
        BY <4>1, <3>1, <3>2, <2>3
    <3>6. QED
      BY <3>1, <3>3, <3>4, <3>5
  <2>5. Laid(start)'
    <3>1. ASSUME NEW p \in 1..L + 1, NEW k \in DOMAIN inFlight
          PROVE  /\ p = start[k] => sock'[p] = Header(inFlight[k])
                 /\ start[k] < p /\ p <= start[k] + Size[inFlight[k]] => sock'[p] = Piece(inFlight[k])
      <4>1. CASE p = L + 1
        BY <4>1, <2>4, <1>5
      <4>2. CASE p \in 1..L
        BY <4>2, <2>1, <1>5 DEF Laid
      <4>3. QED
        BY <4>1, <4>2, <1>1
    <3>2. QED
      BY <3>1, <1>2, <1>5 DEF Laid
  <2>6. Ends(start)'
    <3>1. First' = First
      BY <1>2, <1>3 DEF First
    <3>2. Size[m] - outq[1].left = 0
      BY <1>1, <1>2, HeadFrame
    <3>3. QED
      BY <3>1, <3>2, <2>3, <1>1, <1>2, <1>3, <1>4, <1>5 DEF Ends
  <2>7. QED
    BY <1>2, <2>2, <2>5, <2>6 DEF Framed
<1>9. QED
  BY <1>6, <1>7, <1>8 DEF StreamInv

\* Data written behind what was written of the head of the queue lies in its
\* frame.
LEMMA DataLaid ==
  ASSUME Inv, outq # <<>>, outq[1].headerSent,
         NEW n \in 1..outq[1].left, sock' = sock \o Data(outq[1].msg, n),
         UNCHANGED <<in, held, inFlight>>,
         NEW start \in [DOMAIN inFlight -> Int], Follows(start), Laid(start), Ends(start)
  PROVE  Follows(start)' /\ Laid(start)' /\ Len(sock') = Len(sock) + n
<1> DEFINE m == outq[1].msg
           L == Len(sock)
<1>1. /\ inFlight \in Seq(Messages) /\ sock \in Seq(Unit) /\ L \in Nat
      /\ First \in DOMAIN inFlight /\ inFlight[First] = m /\ m \in Messages
      /\ outq[1].left \in 1..Size[m] /\ Size[m] \in Nat /\ n \in Nat /\ n <= outq[1].left
  BY HeadFrame DEF Inv, TypeOK
<1>2. /\ Len(sock') = L + n
      /\ \A p \in 1..L : sock'[p] = sock[p]
      /\ \A p \in L + 1..L + n : sock'[p] = Piece(m)
      /\ DOMAIN sock' = 1..L + n /\ DOMAIN sock = 1..L
  <2>1. Data(m, n) \in Seq(Unit) /\ Len(Data(m, n)) = n /\ \A i \in 1..n : Data(m, n)[i] = Piece(m)
    BY <1>1, DataType
  <2>2. /\ Len(sock') = L + n
        /\ \A p \in 1..L + n : sock'[p] = IF p <= L THEN sock[p] ELSE Data(m, n)[p - L]
        /\ DOMAIN sock' = 1..L + n /\ DOMAIN sock = 1..L
    BY <1>1, <2>1
  <2>3. ASSUME NEW p \in L + 1..L + n PROVE sock'[p] = Piece(m)
    <3>1. p - L \in 1..n /\ p \in 1..L + n /\ ~(p <= L)
      BY <1>1
    <3>2. QED
      BY <2>1, <2>2, <3>1
  <2>4. QED
    BY <1>1, <2>2, <2>3
<1>3. Follows(start)'
  BY DEF Follows, Begun
<1>4. start[First] \in Int /\ L = start[First] + (Size[m] - outq[1].left) /\ L \in Int
  BY <1>1 DEF Ends
<1> HIDE DEF L, m
<1>5. ASSUME NEW k \in DOMAIN inFlight, NEW p \in L + 1..L + n
      PROVE  /\ p # start[k]
             /\ start[k] < p /\ p <= start[k] + Size[inFlight[k]] => m = inFlight[k]
  <2>1. start[k] \in Int /\ Size[inFlight[k]] \in Nat /\ k \in Int /\ First \in Int
    BY <1>1, SizeType DEF First
  <2>2. start[First] < p /\ p <= start[First] + Size[m] /\ Size[m] \in Nat
    <3>1. Size[m] \in Nat /\ n \in Nat /\ outq[1].left \in Nat
          /\ n <= outq[1].left /\ outq[1].left <= Size[m]
      BY <1>1
    <3>2. QED
      BY <3>1, <1>4
  <2>3. CASE k = First
    BY <2>3, <2>2, <1>1, <1>4
  <2>4. CASE k < First
    <3>1. start[k] + Size[inFlight[k]] < start[First]
      BY <2>4, <1>1 DEF Follows
    <3>2. QED
      BY <3>1, <2>1, <2>2, <1>4
  <2>5. CASE k > First
    <3>1. start[First] + Size[m] < start[k]
      BY <2>5, <1>1 DEF Follows
    <3>2. QED
      BY <3>1, <2>1, <2>2, <1>4
  <2>6. QED
    BY <2>1, <2>3, <2>4, <2>5
<1>6. ASSUME NEW p \in 1..L + n, NEW k \in DOMAIN inFlight
      PROVE  /\ p = start[k] => sock'[p] = Header(inFlight[k])
             /\ start[k] < p /\ p <= start[k] + Size[inFlight[k]] => sock'[p] = Piece(inFlight[k])
  <2>1. CASE p \in L + 1..L + n
    BY <2>1, <1>2, <1>5
  <2>2. CASE p \in 1..L
    BY <2>2, <1>2 DEF Laid
  <2>3. p \in 1..L \/ p \in L + 1..L + n
    BY <1>1
  <2>4. QED
    BY <2>1, <2>2, <2>3
<1>7. QED
  BY <1>2, <1>3, <1>6 DEF Laid, L

LEMMA PartFrames ==
  ASSUME Inv, WritePart
  PROVE  StreamInv'
<1>1. /\ outq \in Seq(Outgoing) /\ 1 \in 1..Len(outq) /\ outq # <<>>
      /\ Room \in 1..outq[1].left /\ Room < outq[1].left
      /\ outq[1].msg \in Messages /\ outq[1].left \in Nat
  BY HeadType, UdsAssumption DEF WritePart, Inv, TypeOK, Room
<1>2. /\ outq[1].headerSent
      /\ sock' = sock \o Data(outq[1].msg, Room)
      /\ outq' = [outq EXCEPT ![1].left = @ - Room, ![1].moved = TRUE]
      /\ UNCHANGED <<in, held, rpc, inFlight>>
  BY DEF WritePart, receiving
<1>3. /\ Len(outq') = Len(outq) /\ DOMAIN outq' = DOMAIN outq /\ outq' # <<>>
      /\ \A i \in DOMAIN outq : i > 1 => outq'[i] = outq[i]
      /\ outq'[1] = [outq[1] EXCEPT !.left = @ - Room, !.moved = TRUE]
  <2> DEFINE o == [outq[1] EXCEPT !.left = @ - Room, !.moved = TRUE]
  <2>1. outq' = [outq EXCEPT ![1] = o]
    BY <1>2
  <2>2. o \in Outgoing
    <3>1. outq[1].left - Room \in Nat \ {0}
      BY <1>1
    <3>2. QED
      BY <1>1, <3>1, HeadType DEF Inv, Outgoing
  <2> HIDE DEF o
  <2>3. /\ Len(outq') = Len(outq) /\ outq' \in Seq(Outgoing)
        /\ \A i \in 1..Len(outq) : outq'[i] = IF i = 1 THEN o ELSE outq[i]
    BY <1>1, <2>1, <2>2, ExceptSeq
  <2>4. /\ DOMAIN outq' = DOMAIN outq /\ outq' # <<>> /\ outq'[1] = o
        /\ \A i \in DOMAIN outq : i > 1 => outq'[i] = outq[i]
    BY <1>1, <2>3
  <2>5. QED
    BY <2>3, <2>4 DEF o
<1>4. outq'[1].msg = outq[1].msg /\ outq'[1].left = outq[1].left - Room /\ outq'[1].headerSent
  BY <1>1, <1>2, <1>3, HeadType DEF Inv, Outgoing
<1>5. QueueInv'
  <2>1. ASSUME NEW i \in DOMAIN outq
        PROVE  /\ outq'[i].msg = inFlight[Len(inFlight) - Len(outq) + i]
               /\ outq'[i].left <= Size[outq'[i].msg]
               /\ i > 1 => ~outq'[i].headerSent
               /\ ~outq'[i].headerSent => outq'[i].left = Size[outq'[i].msg]
    <3>1. CASE i = 1
      <4>1. outq[1].left <= Size[outq[1].msg] /\ Size[outq[1].msg] \in Nat
        BY <1>1, HeadFrame
      <4>2. outq'[1].left <= Size[outq'[1].msg]
        BY <4>1, <1>1, <1>4
      <4>3. QED
        BY <3>1, <4>2, <1>4 DEF Inv, StreamInv, QueueInv
    <3>2. CASE i > 1
      BY <3>2, <1>3 DEF Inv, StreamInv, QueueInv
    <3>3. QED
      BY <3>1, <3>2, <1>1
  <2>2. QED
    BY <2>1, <1>2, <1>3 DEF Inv, StreamInv, QueueInv
<1>6. ReaderInv'
  BY <1>2 DEF Inv, StreamInv, ReaderInv, Begun, Nothing
<1>7. Framed'
  <2>1. PICK start \in [DOMAIN inFlight -> Int] : Follows(start) /\ Laid(start) /\ Ends(start)
    BY DEF Inv, StreamInv, Framed
  <2>2. Follows(start)' /\ Laid(start)' /\ Len(sock') = Len(sock) + Room
    BY <1>1, <1>2, <2>1, DataLaid
  <2>3. Ends(start)'
    <3>1. First' = First
      BY <1>2, <1>3 DEF First
    <3>2. Len(sock) = start[First] + (Size[outq[1].msg] - outq[1].left) /\ start[First] \in Int
          /\ First \in DOMAIN inFlight /\ Size[outq[1].msg] \in Nat
      BY <1>1, <1>2, <2>1, HeadFrame DEF Ends
    <3>3. Len(sock') = start[First] + (Size[outq'[1].msg] - outq'[1].left)
      <4>1. Len(sock') = start[First] + (Size[outq[1].msg] - (outq[1].left - Room))
        <5>1. Room \in Int /\ outq[1].left \in Int
          BY <1>1
        <5>2. Len(sock') = Len(sock) + Room
          BY <2>2
        <5>3. QED
          BY <3>2, <5>1, <5>2
      <4>2. QED
        BY <4>1, <1>4
    <3>4. inFlight' # <<>>
      BY <3>2, <1>2
    <3>5. QED
      BY <3>1, <3>3, <3>4, <1>3, <1>4 DEF Ends
  <2>4. QED
    BY <1>2, <2>2, <2>3 DEF Framed
<1>8. QED
  BY <1>5, <1>6, <1>7 DEF StreamInv

LEMMA RestFrames ==
  ASSUME Inv, WriteRest
  PROVE  StreamInv'
<1> DEFINE N == Len(inFlight)
           Q == Len(outq)
<1>1. /\ outq \in Seq(Outgoing) /\ inFlight \in Seq(Messages)
      /\ outq # <<>>
      /\ outq[1].msg \in Messages /\ outq[1].left \in Nat \ {0}
      /\ N \in Nat /\ Q \in Nat \ {0} /\ Q <= N
  BY HeadType DEF WriteRest, Inv, TypeOK, StreamInv, QueueInv
<1>2. /\ outq[1].headerSent
      /\ sock' = sock \o Data(outq[1].msg, outq[1].left)
      /\ outq' = Tail(outq)
      /\ UNCHANGED <<in, held, rpc, inFlight>>
  BY DEF WriteRest, receiving
<1>3. /\ Len(outq') = Q - 1 /\ DOMAIN outq' = 1..Q - 1
      /\ \A i \in 1..Q - 1 : outq'[i] = outq[i + 1]
  BY <1>1, <1>2
<1>4. QueueInv'
  <2>1. ASSUME NEW i \in 1..Q - 1
        PROVE  /\ outq'[i].msg = inFlight[N - (Q - 1) + i]
               /\ outq'[i].left <= Size[outq'[i].msg]
               /\ ~outq'[i].headerSent
               /\ outq'[i].left = Size[outq'[i].msg]
    <3>1. i + 1 \in DOMAIN outq /\ i + 1 > 1 /\ N - Q + (i + 1) = N - (Q - 1) + i
      BY <1>1
    <3>2. QED
      BY <3>1, <1>3 DEF Inv, StreamInv, QueueInv
  <2>2. QED
    BY <2>1, <1>1, <1>2, <1>3 DEF QueueInv
<1>5. ReaderInv'
  BY <1>2 DEF Inv, StreamInv, ReaderInv, Begun, Nothing
<1>6. Framed'
  <2>1. PICK start \in [DOMAIN inFlight -> Int] : Follows(start) /\ Laid(start) /\ Ends(start)
    BY DEF Inv, StreamInv, Framed
  <2>2. Follows(start)' /\ Laid(start)' /\ Len(sock') = Len(sock) + outq[1].left
    <3>1. outq[1].left \in 1..outq[1].left
      BY <1>1
    <3>2. QED
      BY <3>1, <1>1, <1>2, <2>1, DataLaid
  <2>3. /\ First \in 1..N /\ First = N - Q + 1 /\ start[First] \in Int
        /\ Size[inFlight[First]] \in Nat /\ inFlight # <<>>
        /\ Len(sock') = start[First] + Size[inFlight[First]]
    <3>1. /\ First \in DOMAIN inFlight /\ First \in 1..N /\ inFlight[First] = outq[1].msg
          /\ Size[outq[1].msg] \in Nat
      BY <1>1, HeadFrame
    <3>2. Len(sock) = start[First] + (Size[outq[1].msg] - outq[1].left)
      BY <1>1, <1>2, <2>1 DEF Ends
    <3>3. start[First] \in Int
      BY <3>1
    <3>4. QED
      BY <3>1, <3>2, <3>3, <2>2, <1>1 DEF First
  <2>4. Ends(start)'
    <3>1. CASE Q = 1
      BY <3>1, <2>3, <1>1, <1>2, <1>3 DEF Ends
    <3>2. CASE Q # 1
      <4>1. /\ 1 \in 1..Q - 1 /\ 2 \in DOMAIN outq /\ outq' # <<>> /\ outq'[1] = outq[2]
            /\ First' = First + 1 /\ First \in 1..N - 1
        <5>1. First' = N - (Q - 1) + 1
          BY <1>2, <1>3 DEF First
        <5>2. 1 \in 1..Q - 1 /\ 2 \in DOMAIN outq /\ First' = First + 1 /\ First \in 1..N - 1
          <6>1. PICK q \in Nat : q = Q
            BY <1>1
          <6>2. q # 0 /\ q # 1
            BY <6>1, <3>2, <1>1
          <6>3. q > 1
            BY <6>2
          <6>4. QED
            BY <5>1, <6>1, <6>3, <2>3, <1>1
        <5>3. QED
          BY <5>2, <1>3
      <4>2. ~outq'[1].headerSent
        BY <4>1 DEF Inv, StreamInv, QueueInv
      <4>3. start[First + 1] = start[First] + Size[inFlight[First]] + 1
        BY <4>1, <2>1 DEF Follows
      <4>4. Len(sock') = start[First + 1] + (-1)
        BY <4>3, <2>3
      <4>5. inFlight' # <<>>
        BY <2>3, <1>2
      <4>6. QED
        BY <4>1, <4>2, <4>4, <4>5 DEF Ends
    <3>3. QED
      BY <3>1, <3>2
  <2>5. QED
    BY <1>2, <2>2, <2>4 DEF Framed
<1>7. QED
  BY <1>4, <1>5, <1>6 DEF StreamInv

\* A stream that has lost its first units, none of a frame that is not begun:
\* the frames are where they were, counted from the new first unit.
LEMMA Shifted ==
  ASSUME NEW start \in [DOMAIN inFlight -> Int], Laid(start),
         sock \in Seq(Unit), inFlight \in Seq(Messages),
         NEW n \in 0..Len(sock), sock' = SubSeq(sock, n + 1, Len(sock)),
         NEW c \in {0, 1}, Len(inFlight) >= c, inFlight' = SubSeq(inFlight, c + 1, Len(inFlight)),
         NEW s \in [1..Len(inFlight) - c -> Int],
         \A k \in 1..Len(inFlight) - c : s[k] = start[k + c] - n
  PROVE  Laid(s)'
<1>1. /\ DOMAIN sock' = 1..Len(sock) - n /\ Len(sock) \in Nat /\ Len(inFlight) \in Nat
      /\ \A p \in 1..Len(sock) - n : sock'[p] = sock[p + n]
  OBVIOUS
<1>2. /\ DOMAIN inFlight' = 1..Len(inFlight) - c
      /\ \A k \in 1..Len(inFlight) - c : inFlight'[k] = inFlight[k + c]
  OBVIOUS
<1>3. ASSUME NEW p \in 1..Len(sock) - n, NEW k \in 1..Len(inFlight) - c
      PROVE  /\ p = s[k] => sock'[p] = Header(inFlight'[k])
             /\ s[k] < p /\ p <= s[k] + Size[inFlight'[k]] => sock'[p] = Piece(inFlight'[k])
  <2>1. p + n \in DOMAIN sock /\ k + c \in DOMAIN inFlight
    BY <1>1
  <2>2. s[k] = start[k + c] - n /\ start[k + c] \in Int /\ Size[inFlight[k + c]] \in Nat
        /\ inFlight[k + c] \in Messages
    BY <2>1, SizeType
  <2>3. sock'[p] = sock[p + n] /\ inFlight'[k] = inFlight[k + c]
    BY <1>1, <1>2
  <2>4. /\ p + n = start[k + c] => sock[p + n] = Header(inFlight[k + c])
        /\ start[k + c] < p + n /\ p + n <= start[k + c] + Size[inFlight[k + c]]
             => sock[p + n] = Piece(inFlight[k + c])
    BY <2>1 DEF Laid
  <2>5. p \in Int /\ n \in Int
    BY <1>1
  <2>6. p = s[k] => p + n = start[k + c]
    BY <2>2, <2>5
  <2>7. s[k] < p /\ p <= s[k] + Size[inFlight[k + c]]
          => start[k + c] < p + n /\ p + n <= start[k + c] + Size[inFlight[k + c]]
    BY <2>2, <2>5
  <2>8. QED
    BY <2>3, <2>4, <2>6, <2>7
<1>4. QED
  BY <1>1, <1>2, <1>3 DEF Laid

\* With no message begun the first unit is the header of the oldest message in
\* flight.
LEMMA HeaderFirst ==
  ASSUME Inv, ~Begun, sock # <<>>
  PROVE  inFlight # <<>> /\ sock[1] = Header(inFlight[1])
<1>1. PICK start \in [DOMAIN inFlight -> Int] : Follows(start) /\ Laid(start) /\ Ends(start)
  BY DEF Inv, StreamInv, Framed
<1>2. inFlight # <<>>
  BY <1>1 DEF Ends
<1>3. start[1] = 1
  BY <1>1, <1>2 DEF Follows
<1>4. 1 \in DOMAIN inFlight /\ 1 \in DOMAIN sock
  BY <1>2 DEF Inv, TypeOK
<1>5. QED
  BY <1>1, <1>2, <1>3, <1>4 DEF Laid

LEMMA ReceiveHeaderFrames ==
  ASSUME Inv, ReceiveHeader
  PROVE  StreamInv'
<1> DEFINE N == Len(inFlight)
           L == Len(sock)
<1>1. /\ sock \in Seq(Unit) /\ inFlight \in Seq(Messages) /\ outq \in Seq(Outgoing)
      /\ sock # <<>> /\ L \in Nat \ {0} /\ N \in Nat /\ in = Nothing /\ ~Begun
  BY DEF ReceiveHeader, Inv, TypeOK, Begun, Nothing
<1>2. inFlight # <<>> /\ sock[1] = Header(inFlight[1]) /\ inFlight[1] \in Messages
  BY <1>1, HeaderFirst
<1>3. /\ in' = [msg |-> inFlight[1], got |-> 0] /\ rpc' = "data"
      /\ sock' = Tail(sock)
      /\ UNCHANGED <<outq, held, inFlight>>
  BY <1>1, <1>2 DEF ReceiveHeader, sending, Header
<1>4. ~held /\ Begun'
  BY <1>1, <1>2, <1>3, SizeType DEF Inv, StreamInv, ReaderInv, Begun, Nothing
<1>5. QueueInv'
  BY <1>3 DEF Inv, StreamInv, QueueInv
<1>6. ReaderInv'
  BY <1>2, <1>3, <1>4, SizeType DEF ReaderInv
<1>7. Framed'
  <2>1. PICK start \in [DOMAIN inFlight -> Int] : Follows(start) /\ Laid(start) /\ Ends(start)
    BY DEF Inv, StreamInv, Framed
  <2>2. DOMAIN inFlight = 1..N /\ \A k \in 1..N : start[k] \in Int /\ Size[inFlight[k]] \in Nat
    BY <1>1, SizeType
  <2>3. PICK s \in [1..N -> Int] : \A k \in 1..N : s[k] = start[k] - 1
    <3>1. [k \in 1..N |-> start[k] - 1] \in [1..N -> Int]
      BY <2>2
    <3>2. QED
      BY <3>1
  <2>4. Len(sock') = L - 1 /\ sock' = SubSeq(sock, 1 + 1, Len(sock))
    BY <1>1, <1>3
  <2>5. Follows(s)'
    <3>1. 1 \in 1..N /\ start[1] = 1
      BY <1>1, <1>2, <2>1 DEF Follows
    <3>2. s[1] = -in'.got
      BY <3>1, <2>3, <1>3
    <3>3. ASSUME NEW k \in 1..N - 1 PROVE s[k + 1] = s[k] + Size[inFlight[k]] + 1
      <4>1. k \in 1..N /\ k + 1 \in 1..N
        BY <1>1
      <4>2. start[k + 1] = start[k] + Size[inFlight[k]] + 1
        BY <2>1 DEF Follows
      <4>3. QED
        BY <4>1, <4>2, <2>2, <2>3
    <3>4. ASSUME NEW j \in 1..N, NEW k \in 1..N, j < k
          PROVE  s[j] + Size[inFlight[j]] < s[k]
      <4>1. start[j] + Size[inFlight[j]] < start[k]
        BY <3>4, <2>1, <2>2 DEF Follows
      <4>2. QED
        BY <4>1, <2>2, <2>3
    <3>5. QED
      BY <3>2, <3>3, <3>4, <2>2, <1>3, <1>4 DEF Follows
  <2>6. Laid(s)'
    <3>1. inFlight' = SubSeq(inFlight, 0 + 1, Len(inFlight)) /\ 1 \in 0..Len(sock) /\ Len(inFlight) >= 0
      BY <1>1, <1>3
    <3>2. s \in [1..Len(inFlight) - 0 -> Int] /\ \A k \in 1..Len(inFlight) - 0 : s[k] = start[k + 0] - 1
      BY <1>1, <2>2, <2>3
    <3>3. QED
      BY <3>1, <3>2, <2>1, <2>4, <1>1, Shifted
  <2>7. Ends(s)'
    <3>1. CASE outq # <<>>
      <4>1. First' = First /\ First \in 1..N /\ First \in DOMAIN inFlight
        BY <3>1, <1>3, HeadFrame DEF First
      <4>2. s[First] = start[First] - 1 /\ start[First] \in Int /\ Size[outq[1].msg] \in Nat /\ outq[1].left \in Int
        BY <3>1, <4>1, <2>2, <2>3, HeadFrame
      <4>3. L = start[First] + IF outq[1].headerSent THEN Size[outq[1].msg] - outq[1].left ELSE -1
        BY <3>1, <2>1 DEF Ends
      <4>4. PICK a \in Int, b \in Int :
              /\ a = start[First]
              /\ b = IF outq[1].headerSent THEN Size[outq[1].msg] - outq[1].left ELSE -1
        BY <4>2
      <4>5. L = a + b /\ s[First] = a - 1 /\ Len(sock') = L - 1
        BY <4>2, <4>3, <4>4, <2>4
      <4>6. Len(sock') = (a - 1) + b
        BY <4>5
      <4>7. Len(sock') = s[First] + IF outq[1].headerSent THEN Size[outq[1].msg] - outq[1].left ELSE -1
        BY <4>4, <4>5, <4>6
      <4>8. QED
        BY <3>1, <4>1, <4>7, <1>2, <1>3 DEF Ends
    <3>2. CASE outq = <<>>
      <4>1. N \in 1..N
        BY <1>1, <1>2
      <4>2. L = start[N] + Size[inFlight[N]]
        BY <3>2, <1>2, <2>1 DEF Ends
      <4>3. Len(sock') = s[N] + Size[inFlight[N]]
        <5>1. PICK a \in Int, b \in Nat : a = start[N] /\ b = Size[inFlight[N]]
          BY <4>1, <2>2
        <5>2. L = a + b /\ s[N] = a - 1 /\ Len(sock') = L - 1
          BY <5>1, <4>1, <4>2, <2>3, <2>4
        <5>3. Len(sock') = (a - 1) + b
          BY <5>2
        <5>4. QED
          BY <5>1, <5>2, <5>3
      <4>4. QED
        BY <3>2, <4>3, <1>2, <1>3 DEF Ends
    <3>3. QED
      BY <3>1, <3>2
  <2>8. QED
    BY <2>2, <2>5, <2>6, <2>7, <1>3 DEF Framed
<1>8. QED
  BY <1>5, <1>6, <1>7 DEF StreamInv

\* The read that completes a message takes what is missing of it, and the next
\* frame is at the head of the socket; one that does not takes all there is.
LEMMA ReceiveDataFrames ==
  ASSUME Inv, ReceiveData
  PROVE  StreamInv'
<1> DEFINE N == Len(inFlight)
           L == Len(sock)
           Q == Len(outq)
           missing == Size[in.msg] - in.got
           n == IF L < missing THEN L ELSE missing
           c == IF n = missing THEN 1 ELSE 0
<1>1. /\ sock \in Seq(Unit) /\ inFlight \in Seq(Messages) /\ outq \in Seq(Outgoing)
      /\ L \in Nat /\ N \in Nat \ {0} /\ Q \in Nat /\ Q <= N /\ inFlight # <<>>
  BY DEF ReceiveData, Inv, TypeOK, StreamInv, ReaderInv, QueueInv
<1>2. Begun /\ ~held /\ in.msg = inFlight[1] /\ in.msg \in Messages /\ in.msg # NoMessage
  BY DEF ReceiveData, Inv, StreamInv, ReaderInv, Begun, TypeOK
<1>3. in.got \in Nat /\ Size[in.msg] \in Nat /\ in.got < Size[in.msg]
  BY <1>2, SizeType DEF Inv, TypeOK, StreamInv, ReaderInv
<1>4. missing \in Nat \ {0} /\ n \in 0..L /\ n <= missing /\ c \in {0, 1}
  BY <1>1, <1>3
<1>5. /\ sock' = SubSeq(sock, n + 1, Len(sock))
      /\ in' = [in EXCEPT !.got = @ + n]
      /\ held' = (n = missing)
      /\ rpc' = "loop"
      /\ UNCHANGED outq
  BY DEF ReceiveData, sending
<1>6. inFlight' = SubSeq(inFlight, c + 1, Len(inFlight)) /\ Len(inFlight') = N - c
      /\ \A k \in 1..N - c : inFlight'[k] = inFlight[k + c]
  <2>1. inFlight' = IF c = 1 THEN Tail(inFlight) ELSE inFlight
    BY <1>4 DEF ReceiveData
  <2> HIDE DEF c
  <2>2. CASE c = 1
    BY <2>1, <2>2, <1>1
  <2>3. CASE c = 0
    <3>1. inFlight' = inFlight /\ SubSeq(inFlight, 1, N) = inFlight
      BY <2>1, <2>3, <1>1
    <3>2. SubSeq(inFlight, c + 1, N) = inFlight /\ N - c = N /\ \A k \in 1..N : k + c = k
      BY <2>3, <3>1, <1>1
    <3>3. QED
      BY <3>1, <3>2
  <2>4. QED
    BY <2>2, <2>3, <1>4
<1>7. Len(sock') = L - n
  BY <1>1, <1>4, <1>5
<1>8. in'.msg = in.msg /\ in'.got = in.got + n
  BY <1>5 DEF Inv, TypeOK
<1>9. Begun' <=> c = 0
  <2>1. c = 0 <=> n # missing
    OBVIOUS
  <2> HIDE DEF n, c
  <2>2. held' <=> n = missing
    BY <1>5
  <2>3. Begun' <=> ~held'
    BY <1>2, <1>8 DEF Begun
  <2>4. QED
    BY <2>1, <2>2, <2>3
<1> HIDE DEF n, c
<1>10. PICK start \in [DOMAIN inFlight -> Int] : Follows(start) /\ Laid(start) /\ Ends(start)
  BY DEF Inv, StreamInv, Framed
<1>11. /\ DOMAIN inFlight = 1..N
       /\ \A k \in 1..N : start[k] \in Int /\ Size[inFlight[k]] \in Nat
       /\ start[1] = -in.got
  BY <1>1, <1>2, <1>10, SizeType DEF Follows
\* A message that is complete has left the queue of the sender.
<1>12. c = 1 => Q < N
  <2>1. SUFFICES ASSUME c = 1, Q = N PROVE FALSE
    BY <1>1
  <2>2. First = 1 /\ outq # <<>> /\ outq[1].msg = in.msg
    BY <2>1, <1>1, <1>2, HeadFrame DEF First
  <2>3. outq[1].left \in 1..Size[in.msg] /\ L = start[1] + IF outq[1].headerSent THEN Size[in.msg] - outq[1].left ELSE -1
    BY <2>2, <1>10, HeadFrame DEF Ends
  <2>4. L < missing
    BY <2>3, <1>3, <1>11
  <2>5. QED
    BY <2>1, <2>4, <1>3, <1>1 DEF c, n
<1>13. QueueInv'
  <2>1. Q <= N - c /\ N - c \in Nat
    BY <1>1, <1>4, <1>12
  <2>2. ASSUME NEW i \in DOMAIN outq PROVE outq[i].msg = inFlight'[N - c - Q + i]
    <3>1. N - Q + i \in 1..N /\ N - c - Q + i \in 1..N - c /\ N - c - Q + i + c = N - Q + i
      <4>1. i \in 1..Q
        BY <1>1
      <4>2. N - Q + i \in 1..N /\ N - c - Q + i + c = N - Q + i
        BY <4>1, <1>1, <1>4
      <4>3. 1 <= N - c - Q + i /\ N - c - Q + i <= N - c
        BY <4>1, <1>1, <1>4, <2>1
      <4>4. QED
        BY <4>1, <4>2, <4>3, <1>1, <1>4
    <3>2. outq[i].msg = inFlight[N - Q + i]
      BY DEF Inv, StreamInv, QueueInv
    <3>3. QED
      BY <3>1, <3>2, <1>6
  <2>3. QED
    BY <2>1, <2>2, <1>5, <1>6 DEF QueueInv, Inv, StreamInv
<1>14. ReaderInv'
  <2>1. CASE c = 1
    BY <2>1, <1>2, <1>5, <1>8, <1>9 DEF ReaderInv
  <2>2. CASE c = 0
    <3>1. n # missing /\ in.got + n < Size[in.msg]
      BY <2>2, <1>1, <1>3, <1>4 DEF c, n
    <3>2. inFlight' # <<>> /\ inFlight'[1] = inFlight[1]
      BY <2>2, <1>1, <1>6
    <3>3. QED
      BY <3>1, <3>2, <1>2, <1>5, <1>8 DEF ReaderInv
  <2>3. QED
    BY <2>1, <2>2, <1>4
<1>15. Framed'
  <2>1. PICK s \in [1..N - c -> Int] : \A k \in 1..N - c : s[k] = start[k + c] - n
    <3>1. ASSUME NEW k \in 1..N - c PROVE start[k + c] - n \in Int
      <4>1. k + c \in 1..N
        BY <1>1, <1>4
      <4>2. QED
        BY <4>1, <1>4, <1>11
    <3>2. [k \in 1..N - c |-> start[k + c] - n] \in [1..N - c -> Int]
      BY <3>1
    <3>3. QED
      BY <3>2
  <2>2. DOMAIN inFlight' = 1..N - c
    BY <1>1, <1>4, <1>6
  <2>3. Laid(s)'
    <3>1. Len(inFlight) >= c /\ n \in 0..Len(sock) /\ s \in [1..Len(inFlight) - c -> Int]
      BY <2>1, <1>1, <1>4
    <3>2. QED
      BY <3>1, <2>1, <1>1, <1>4, <1>5, <1>6, <1>10, Shifted
  <2>4. Follows(s)'
    <3>1. ASSUME inFlight' # <<>> PROVE s[1] = IF Begun' THEN -in'.got ELSE 1
      <4>1. CASE c = 0
        <5>1. 1 \in 1..N - c /\ 1 + c = 1
          BY <4>1, <1>1
        <5>2. s[1] = -in.got - n
          BY <5>1, <2>1, <1>11
        <5>3. QED
          BY <4>1, <5>2, <1>3, <1>4, <1>8, <1>9
      <4>2. CASE c = 1
        <5>1. 1 \in 1..N - c /\ 1 \in 1..N - 1
          BY <3>1, <4>2, <2>2, <1>1, <1>6
        <5>2. start[2] = -in.got + Size[in.msg] + 1
          BY <5>1, <1>2, <1>10, <1>11 DEF Follows
        <5>3. n = missing
          BY <4>2 DEF c
        <5>4. s[1] = start[2] - n
          BY <4>2, <5>1, <2>1
        <5>5. s[1] = 1
          BY <5>2, <5>3, <5>4, <1>3
        <5>6. QED
          BY <4>2, <5>5, <1>9
      <4>3. QED
        BY <4>1, <4>2, <1>4
    <3>2. ASSUME NEW k \in 1..N - c - 1 PROVE s[k + 1] = s[k] + Size[inFlight'[k]] + 1
      <4>1. k \in 1..N - c /\ k + 1 \in 1..N - c /\ k + c \in 1..N - 1 /\ k + c \in 1..N /\ (k + 1) + c = (k + c) + 1
        BY <1>1, <1>4
      <4>2. start[(k + c) + 1] = start[k + c] + Size[inFlight[k + c]] + 1
        BY <4>1, <1>10 DEF Follows
      <4>3. s[k + 1] = start[(k + c) + 1] - n /\ s[k] = start[k + c] - n
        BY <4>1, <2>1
      <4>4. start[k + c] \in Int /\ Size[inFlight[k + c]] \in Nat /\ inFlight'[k] = inFlight[k + c]
        BY <4>1, <1>6, <1>11
      <4>5. QED
        BY <4>2, <4>3, <4>4, <1>4
    <3>3. ASSUME NEW j \in 1..N - c, NEW k \in 1..N - c, j < k
          PROVE  s[j] + Size[inFlight'[j]] < s[k]
      <4>1. j + c \in 1..N /\ k + c \in 1..N /\ j + c < k + c
        BY <3>3, <1>1, <1>4
      <4>2. start[j + c] + Size[inFlight[j + c]] < start[k + c]
        BY <4>1, <1>10, <1>11 DEF Follows
      <4>3. s[j] = start[j + c] - n /\ s[k] = start[k + c] - n /\ inFlight'[j] = inFlight[j + c]
        BY <2>1, <1>6
      <4>4. QED
        BY <4>1, <4>2, <4>3, <1>4, <1>11
    <3>4. QED
      BY <3>1, <3>2, <3>3, <2>2, <1>6 DEF Follows
  <2>5. Ends(s)'
    <3>1. CASE outq # <<>>
      <4>1. First' = First - c /\ First \in 1..N /\ First = N - Q + 1 /\ First - c \in 1..N - c /\ First - c + c = First
        <5>1. First \in 1..N /\ First = N - Q + 1 /\ First' = N - c - Q + 1
          BY <3>1, <1>5, <1>6, HeadFrame DEF First
        <5>2. First - c >= 1
          BY <5>1, <1>1, <1>4, <1>12
        <5>3. QED
          BY <5>1, <5>2, <1>1, <1>4
      <4>2. s[First - c] = start[First] - n /\ start[First] \in Int
            /\ Size[outq[1].msg] \in Nat /\ outq[1].left \in Int
        BY <3>1, <4>1, <2>1, <1>11, HeadFrame
      <4>3. L = start[First] + IF outq[1].headerSent THEN Size[outq[1].msg] - outq[1].left ELSE -1
        BY <3>1, <1>10 DEF Ends
      <4>4. Len(sock') = s[First - c] + IF outq[1].headerSent THEN Size[outq[1].msg] - outq[1].left ELSE -1
        BY <4>2, <4>3, <1>4, <1>7
      <4>5. inFlight' # <<>>
        <5>1. N - c >= 1 /\ N - c \in Nat
          BY <4>1, <1>1, <1>4
        <5>2. 1 \in DOMAIN inFlight'
          BY <5>1, <2>2
        <5>3. QED
          BY <5>2
      <4>6. QED
        BY <3>1, <4>1, <4>4, <4>5, <1>5 DEF Ends
    <3>2. CASE outq = <<>>
      <4>1. L = start[N] + Size[inFlight[N]] /\ start[N] \in Int /\ Size[inFlight[N]] \in Nat
        BY <3>2, <1>1, <1>10, <1>11 DEF Ends
      <4>2. CASE inFlight' # <<>>
        <5>1. N - c \in 1..N - c /\ N - c + c = N
          BY <4>2, <2>2, <1>1, <1>4, <1>6
        <5>2. s[N - c] = start[N] - n /\ inFlight'[N - c] = inFlight[N]
          BY <5>1, <2>1, <1>6
        <5>3. Len(sock') = s[N - c] + Size[inFlight'[N - c]]
          BY <4>1, <5>2, <1>4, <1>7
        <5>4. QED
          BY <3>2, <4>2, <5>3, <1>5, <1>6 DEF Ends
      <4>3. CASE inFlight' = <<>>
        <5>1. N = 1 /\ c = 1
          BY <4>3, <1>1, <1>4, <1>6
        <5>2. n = missing /\ L = missing
          BY <5>1, <4>1, <1>2, <1>3, <1>11 DEF c
        <5>3. sock' = <<>>
          BY <5>2, <1>1, <1>5
        <5>4. QED
          BY <3>2, <4>3, <5>3, <1>5 DEF Ends
      <4>4. QED
        BY <4>2, <4>3
    <3>3. QED
      BY <3>1, <3>2
  <2>6. QED
    BY <2>2, <2>3, <2>4, <2>5 DEF Framed
<1>16. QED
  BY <1>13, <1>14, <1>15 DEF StreamInv

LEMMA ReleaseFrames ==
  ASSUME Inv, MessageRelease
  PROVE  StreamInv'
<1>1. /\ held /\ ~held' /\ in' = Nothing /\ UNCHANGED <<outq, sock, rpc, inFlight>>
      /\ rpc = "loop"
  BY DEF MessageRelease, sending
<1>2. ~Begun /\ ~Begun'
  BY <1>1 DEF Begun, Nothing
<1>3. QueueInv'
  BY <1>1 DEF Inv, StreamInv, QueueInv
<1>4. ReaderInv'
  BY <1>1, <1>2 DEF ReaderInv
<1>5. Framed'
  BY <1>1, <1>2 DEF Inv, StreamInv, Framed, Follows, Laid, Ends, First
<1>6. QED
  BY <1>3, <1>4, <1>5 DEF StreamInv

-----------------------------------------------------------------------------
(* The theorems *)

LEMMA StreamStep ==
  ASSUME Inv, [Next]_vars
  PROVE  StreamInv'
<1>1. CASE MessageInit \/ Cancel \/ HandleWriteable \/ WriteFails \/ WriteDone
  <2>1. UNCHANGED stream /\ UNCHANGED rpc
    BY <1>1 DEF MessageInit, Cancel, HandleWriteable, WriteFails, WriteDone, receiving, stream
  <2>2. QED
    BY <2>1, Elsewhere DEF Inv, StreamInv, ReaderInv
<1>2. ASSUME NEW m \in Messages, MessageSend(m) PROVE StreamInv'
  BY <1>2, SendFrames
<1>3. CASE WriteHeader
  BY <1>3, HeaderFrames
<1>4. CASE WritePart
  BY <1>4, PartFrames
<1>5. CASE WriteRest
  BY <1>5, RestFrames
<1>6. CASE ReceiveHeader
  BY <1>6, ReceiveHeaderFrames
<1>7. CASE ReceiveMore
  <2>1. UNCHANGED stream /\ Begun
    BY <1>7 DEF ReceiveMore, sending, stream
  <2>2. QED
    BY <2>1, Elsewhere
<1>8. CASE ReceiveData
  BY <1>8, ReceiveDataFrames
<1>9. CASE MessageRelease
  BY <1>9, ReleaseFrames
<1>10. CASE UNCHANGED vars
  <2>1. UNCHANGED stream /\ UNCHANGED rpc
    BY <1>10 DEF vars, stream
  <2>2. QED
    BY <2>1, Elsewhere DEF Inv, StreamInv, ReaderInv
<1>11. QED
  BY <1>1, <1>2, <1>3, <1>4, <1>5, <1>6, <1>7, <1>8, <1>9, <1>10 DEF Next

LEMMA Initially == Init => Inv
<1> SUFFICES ASSUME Init PROVE Inv
  OBVIOUS
<1>1. TypeOK /\ OneEventPerQueue
  <2>1. Capacity \in Nat /\ MaxWriters \in Nat
    BY UdsAssumption
  <2>2. Len(sock) = 0 /\ sock \in Seq(Unit) /\ outq \in Seq(Outgoing) /\ Len(outq) = 0
        /\ inFlight \in Seq(Messages)
    BY DEF Init
  <2>3. /\ writers = 0 /\ outCount = 0 /\ armed = 0 /\ spc = "loop"
        /\ held = FALSE /\ rpc = "loop"
    BY DEF Init
  <2>4. in \in [msg : Messages \cup {NoMessage}, got : Nat]
    BY DEF Init, Nothing
  <2>5. writers \in 0..MaxWriters /\ Len(sock) <= Capacity
    BY <2>1, <2>2, <2>3
  <2>6. TypeOK
    BY <2>2, <2>4, <2>3, <2>5 DEF TypeOK
  <2>7. OneEventPerQueue
    BY <2>2, <2>3 DEF OneEventPerQueue
  <2>8. QED
    BY <2>6, <2>7
<1>2. QueueInv /\ ReaderInv
  BY DEF Init, QueueInv, ReaderInv, Begun, Nothing
<1>3. PICK start \in [DOMAIN inFlight -> Int] : TRUE
  <2>1. [k \in DOMAIN inFlight |-> 1] \in [DOMAIN inFlight -> Int]
    OBVIOUS
  <2>2. QED
    BY <2>1
<1>4. Follows(start) /\ Laid(start) /\ Ends(start)
  BY DEF Init, Follows, Laid, Ends
<1>5. QED
  BY <1>1, <1>2, <1>4 DEF Inv, StreamInv, Framed

\* Every execution keeps the invariant.
THEOREM Invariance == Spec => []Inv
<1>1. Init => Inv
  BY Initially
<1>2. Inv /\ [Next]_vars => Inv'
  BY TypeStep, EventStep, StreamStep DEF Inv
<1>3. QED
  BY <1>1, <1>2, PTL DEF Spec

\* The variables of both processes keep their types; with OneEventPerQueue, no
\* counter of transport_uds.c goes below zero.
THEOREM Typing == Spec => []TypeOK
<1>1. Inv => TypeOK
  BY DEF Inv
<1>2. QED
  BY <1>1, Invariance, PTL

\* out_message_count is the length of the list, and transport_uds_message_send
\* and event_manager_uds_handle_event never request a second writeable event
\* while one is requested, nor one for an empty list.
THEOREM OneEvent == Spec => []OneEventPerQueue
<1>1. Inv => OneEventPerQueue
  BY DEF Inv
<1>2. QED
  BY <1>1, Invariance, PTL

\* transport_uds_message_receive never takes a unit for what it is not: however
\* the socket cuts what is written and what is read, data it reads is of the
\* message it has begun, which is the oldest in flight, and behind it comes the
\* header of the next.
LEMMA InStep ==
  ASSUME Inv
  PROVE  ReaderInStep
<1> DEFINE missing == IF Begun THEN Size[in.msg] - in.got ELSE 0
           next == IF Begun THEN 2 ELSE 1
           N == Len(inFlight)
<1>1. Begun => inFlight # <<>> /\ in.msg = inFlight[1]
  BY DEF Inv, StreamInv, ReaderInv
<1>2. PICK start \in [DOMAIN inFlight -> Int] : Follows(start) /\ Laid(start) /\ Ends(start)
  BY DEF Inv, StreamInv, Framed
<1>3. inFlight \in Seq(Messages) /\ N \in Nat /\ sock \in Seq(Unit) /\ outq \in Seq(Outgoing)
  BY DEF Inv, TypeOK
<1>4. CASE Begun
  <2>1. /\ 1 \in DOMAIN inFlight /\ start[1] = -in.got /\ start[1] \in Int
        /\ in.msg = inFlight[1] /\ in.msg \in Messages /\ missing = Size[in.msg] - in.got
    BY <1>1, <1>2, <1>3, <1>4 DEF Follows
  <2>2. in.got \in Nat /\ Size[in.msg] \in Nat /\ in.got < Size[in.msg]
    BY <2>1, <1>4, SizeType DEF Inv, TypeOK, StreamInv, ReaderInv
  <2>3. ASSUME NEW p \in DOMAIN sock, p <= missing PROVE sock[p] = Piece(in.msg)
    <3>1. p \in Nat \ {0}
      BY <1>3
    <3>2. start[1] < p /\ p <= start[1] + Size[inFlight[1]]
      BY <3>1, <2>1, <2>2, <2>3
    <3>3. QED
      BY <3>2, <2>1, <1>2 DEF Laid
  <2>4. ASSUME NEW p \in DOMAIN sock, p = missing + 1
        PROVE  2 \in DOMAIN inFlight /\ sock[p] = Header(inFlight[2])
    <3>1. Len(sock) > missing /\ Len(sock) \in Nat
      BY <2>1, <2>2, <2>4, <1>3
    <3>2. SUFFICES ASSUME N < 2 PROVE FALSE
      <4>1. SUFFICES ASSUME ~(N < 2) PROVE 2 \in DOMAIN inFlight /\ sock[p] = Header(inFlight[2])
        OBVIOUS
      <4>2. 2 \in DOMAIN inFlight /\ 1 \in 1..N - 1
        BY <4>1, <2>1, <1>3
      <4>3. start[2] = missing + 1
        BY <4>2, <2>1, <2>2, <1>2 DEF Follows
      <4>4. QED
        BY <4>2, <4>3, <2>4, <1>2 DEF Laid
    <3>3. N = 1
      <4>1. PICK k \in Nat : k = N
        BY <1>3
      <4>2. k < 2 /\ k >= 1
        BY <4>1, <3>2, <2>1, <1>3
      <4>3. k = 1
        BY <4>2
      <4>4. QED
        BY <4>1, <4>3
    <3>4. CASE outq = <<>>
      BY <3>1, <3>4, <3>3, <2>1, <2>2, <1>1, <1>2, <1>4 DEF Ends
    <3>5. CASE outq # <<>>
      <4>1. First = 1 /\ outq[1].msg = in.msg /\ outq[1].left \in 1..Size[in.msg]
        BY <3>5, <3>3, <2>1, HeadFrame
      <4>2. Len(sock) = start[1] + IF outq[1].headerSent THEN Size[in.msg] - outq[1].left ELSE -1
        BY <3>5, <4>1, <1>2 DEF Ends
      <4>3. Len(sock) <= start[1] + (Size[in.msg] - 1)
        <5>1. CASE outq[1].headerSent
          BY <5>1, <4>1, <4>2, <2>1, <2>2
        <5>2. CASE ~outq[1].headerSent
          BY <5>2, <4>1, <4>2, <2>1, <2>2
        <5>3. QED
          BY <5>1, <5>2
      <4>4. QED
        BY <3>1, <4>3, <2>1, <2>2
    <3>6. QED
      BY <3>4, <3>5
  <2>5. QED
    BY <2>3, <2>4, <1>1, <1>4 DEF ReaderInStep
<1>5. CASE ~Begun
  <2>1. ASSUME NEW p \in DOMAIN sock
        PROVE  ~(p <= 0) /\ (p = 1 => 1 \in DOMAIN inFlight /\ sock[p] = Header(inFlight[1]))
    BY <1>3, <1>5, HeaderFirst
  <2>2. QED
    BY <2>1, <1>5 DEF ReaderInStep
<1>6. QED
  BY <1>4, <1>5

THEOREM NeverLost == Spec => []ReaderInStep
BY Invariance, InStep, PTL

\* The queue of out_messages outgrows max_buffered_messages by the writers open
\* at once, but for one, and by no more: message_init alone looks at it.
THEOREM Bounded == Spec => []QueueBounded
<1>1. Inv => outCount \in Nat /\ writers \in Nat /\ Len(outq) = outCount
  BY UdsAssumption DEF Inv, TypeOK, OneEventPerQueue
<1>2. Init => QueueBounded
  BY UdsAssumption DEF Init, QueueBounded
<1>3. Inv /\ QueueBounded /\ [Next]_vars => QueueBounded'
  <2> SUFFICES ASSUME Inv, QueueBounded, [Next]_vars PROVE QueueBounded'
    OBVIOUS
  <2> USE <1>1, UdsAssumption DEF QueueBounded, receiving, sending
  <2>1. CASE MessageInit
    BY <2>1 DEF MessageInit
  <2>2. CASE Cancel
    BY <2>2 DEF Cancel
  <2>3. ASSUME NEW m \in Messages, MessageSend(m) PROVE QueueBounded'
    BY <2>3 DEF MessageSend
  <2>4. CASE WriteRest
    BY <2>4 DEF WriteRest
  <2>5. CASE HandleWriteable \/ WriteHeader \/ WriteFails \/ WritePart \/ WriteDone
    BY <2>5 DEF HandleWriteable, WriteHeader, WriteFails, WritePart, WriteDone
  <2>6. CASE ReceiveHeader \/ ReceiveMore \/ MessageRelease
    BY <2>6 DEF ReceiveHeader, ReceiveMore, MessageRelease
  <2>7. CASE ReceiveData
    BY <2>7 DEF ReceiveData
  <2>8. CASE UNCHANGED vars
    BY <2>8 DEF vars
  <2>9. QED
    BY <2>1, <2>2, <2>3, <2>4, <2>5, <2>6, <2>7, <2>8 DEF Next
<1>4. QED
  BY <1>2, <1>3, Invariance, PTL DEF Spec

-----------------------------------------------------------------------------
(* What FlattenSeq returns *)

\* A set of natural numbers that is not empty has a least element.
LEMMA Least ==
  ASSUME NEW T \in SUBSET Nat, T # {}
  PROVE  \E x \in T : \A y \in T : x <= y
<1>1. PICK x \in T : \A y \in T : ~(<<y, x>> \in OpToRel(<, Nat))
  BY NatLessThanWellFounded, WFMin, Zenon
<1>2. \A y \in T : y < x => <<y, x>> \in OpToRel(<, Nat)
  BY DEF OpToRel
<1>3. \A y \in T : ~(y < x)
  BY <1>1, <1>2, Zenon
<1>4. QED
  BY <1>3

LEMMA Single ==
  ASSUME NEW S, NEW x \in S
  PROVE  \E h \in Seq(S) : h = <<x>> /\ Len(h) = 1 /\ h[1] = x
<1>1. <<x>> \in Seq(S)
  OBVIOUS
<1>2. Len(<<x>>) = 1
  OBVIOUS
<1>3. <<x>>[1] = x
  OBVIOUS
<1>4. QED
  BY <1>1, <1>2, <1>3

LEMMA Joined ==
  ASSUME NEW S, NEW x \in Seq(S), NEW y \in Seq(S)
  PROVE  /\ x \o y \in Seq(S) /\ Len(x \o y) = Len(x) + Len(y)
         /\ \A p \in 1..Len(x) + Len(y) :
              /\ p <= Len(x) => (x \o y)[p] = x[p]
              /\ ~(p <= Len(x)) => (x \o y)[p] = y[p - Len(x)]
OBVIOUS

\* The sequences of s are put behind each other: the i-th begins behind the
\* position off[i].
Offsets(s, off) ==
  /\ off \in [1..Len(s) + 1 -> Nat]
  /\ off[1] = 0
  /\ \A i \in 1..Len(s) : off[i + 1] = off[i] + Len(s[i])
  /\ \A i, j \in 1..Len(s) + 1 : i <= j => off[i] <= off[j]

\* Each position belongs to one of the sequences.
LEMMA Placed ==
  ASSUME NEW S, NEW s \in Seq(Seq(S)), NEW off, Offsets(s, off),
         NEW p \in 1..off[Len(s) + 1]
  PROVE  \E k \in 1..Len(s) : off[k] < p /\ p <= off[k + 1]
<1>1. PICK n \in Nat : n = Len(s)
  OBVIOUS
<1>2. off \in [1..n + 1 -> Nat] /\ off[1] = 0 /\ p \in Nat /\ p > 0 /\ p <= off[n + 1]
  BY <1>1 DEF Offsets
<1> DEFINE T == {k \in 1..n : p <= off[k + 1]}
<1>3. n # 0
  <2>1. ASSUME n = 0 PROVE FALSE
    BY <2>1, <1>2
  <2>2. QED
    BY <2>1
<1>4. n \in T
  BY <1>2, <1>3
<1>5. PICK k \in T : \A j \in T : k <= j
  <2>1. T \in SUBSET Nat
    OBVIOUS
  <2>2. T # {}
    BY <1>4, Zenon
  <2> HIDE DEF T
  <2>3. QED
    BY <2>1, <2>2, Least
<1>6. off[k] < p
  <2>1. CASE k = 1
    BY <2>1, <1>2
  <2>2. CASE k # 1
    <3>1. k - 1 \in 1..n /\ (k - 1) + 1 = k
      BY <2>2
    <3>2. ~(p <= off[(k - 1) + 1])
      <4>1. k \in Nat /\ ~(k <= k - 1)
        BY <3>1
      <4>2. k - 1 \notin T
        BY <4>1, <1>5
      <4>3. QED
        BY <4>2, <3>1
    <3>3. off[k] \in Nat
      BY <1>2
    <3>4. QED
      BY <3>1, <3>2, <3>3, <1>2
  <2>3. QED
    BY <2>1, <2>2
<1>7. QED
  BY <1>1, <1>5, <1>6

\* FlattenSeq(s) is as long as they are together, and at the position off[i] + j
\* it has the j-th element of the i-th.
LEMMA Flattened ==
  ASSUME NEW S, NEW s \in Seq(Seq(S)), NEW off, Offsets(s, off)
  PROVE  /\ FlattenSeq(s) \in Seq(S)
         /\ Len(FlattenSeq(s)) = off[Len(s) + 1]
         /\ \A i \in 1..Len(s) : \A j \in 1..Len(s[i]) : FlattenSeq(s)[off[i] + j] = s[i][j]
<1>1. PICK n \in Nat : n = Len(s)
  OBVIOUS
<1>2. /\ off \in [1..n + 1 -> Nat] /\ off[1] = 0
      /\ \A i \in 1..n : off[i + 1] = off[i] + Len(s[i])
      /\ \A i, j \in 1..n + 1 : i <= j => off[i] <= off[j]
      /\ \A i \in 1..n : s[i] \in Seq(S) /\ Len(s[i]) \in Nat
      /\ \A i \in 1..n + 1 : off[i] \in Nat
  <2>1. /\ off \in [1..n + 1 -> Nat] /\ off[1] = 0
        /\ \A i \in 1..n : off[i + 1] = off[i] + Len(s[i])
        /\ \A i, j \in 1..n + 1 : i <= j => off[i] <= off[j]
    BY <1>1 DEF Offsets
  <2>2. ASSUME NEW i \in 1..n PROVE s[i] \in Seq(S) /\ Len(s[i]) \in Nat
    BY <1>1
  <2>3. QED
    BY <2>1, <2>2
<1>3. CASE n = 0
  <2>1. FlattenSeq(s) = s
    BY <1>1, <1>3, Zenon DEF FlattenSeq
  <2>2. s = <<>>
    BY <1>1, <1>3, EmptySeq
  <2>3. <<>> \in Seq(S) /\ Len(<<>>) = 0 /\ 1..0 = {}
    OBVIOUS
  <2>4. QED
    BY <1>1, <1>2, <1>3, <2>1, <2>2, <2>3
<1>4. CASE n # 0
  <2> DEFINE K(p) == CHOOSE k \in 1..n : off[k] < p /\ p <= off[k + 1]
             V(p) == s[K(p)][p - off[K(p)]]
             G == [i \in 1..n |-> [p \in 1..off[i + 1] |-> V(p)]]
  <2>1. ASSUME NEW i \in 1..n, NEW p \in Nat, off[i] < p, p <= off[i + 1]
        PROVE  K(p) = i /\ V(p) = s[i][p - off[i]] /\ V(p) \in S
    <3>1. PICK k \in 1..n : k = K(p) /\ off[k] < p /\ p <= off[k + 1]
      BY <2>1
    <3>2. ~(k < i)
      <4>1. ASSUME k < i PROVE FALSE
        <5>1. k + 1 \in 1..n + 1 /\ i \in 1..n + 1 /\ k + 1 <= i
          BY <4>1
        <5>2. off[k + 1] <= off[i]
          BY <5>1, <1>2
        <5>3. QED
          BY <5>1, <5>2, <3>1, <2>1, <1>2
      <4>2. QED
        BY <4>1
    <3>3. ~(i < k)
      <4>1. ASSUME i < k PROVE FALSE
        <5>1. i + 1 \in 1..n + 1 /\ k \in 1..n + 1 /\ i + 1 <= k
          BY <4>1
        <5>2. off[i + 1] <= off[k]
          BY <5>1, <1>2
        <5>3. QED
          BY <5>1, <5>2, <3>1, <2>1, <1>2
      <4>2. QED
        BY <4>1
    <3>4. K(p) = i
      BY <3>1, <3>2, <3>3
    <3>5. V(p) = s[i][p - off[i]]
      BY <3>4
    <3>6. p - off[i] \in 1..Len(s[i])
      <4>1. off[i] \in Nat /\ off[i + 1] = off[i] + Len(s[i]) /\ Len(s[i]) \in Nat
        BY <1>2
      <4>2. QED
        BY <4>1, <2>1
    <3>7. s[i] \in Seq(S)
      BY <1>2
    <3>8. s[i][p - off[i]] \in S
      BY <3>6, <3>7
    <3>9. QED
      BY <3>4, <3>5, <3>8
  <2>2. ASSUME NEW i \in 1..n, NEW p \in 1..off[i + 1]
        PROVE  V(p) \in S
    <3>1. p \in 1..off[Len(s) + 1]
      <4>1. i + 1 \in 1..n + 1 /\ n + 1 \in 1..n + 1 /\ i + 1 <= n + 1
        OBVIOUS
      <4>2. off[i + 1] <= off[n + 1] /\ off[i + 1] \in Nat /\ off[n + 1] \in Nat
        BY <4>1, <1>2
      <4>3. QED
        BY <4>2, <1>1
    <3>2. PICK k \in 1..n : off[k] < p /\ p <= off[k + 1]
      BY <3>1, <1>1, Placed
    <3>3. p \in Nat
      OBVIOUS
    <3>4. QED
      BY <3>2, <3>3, <2>1
  <2> HIDE DEF K, V
  <2>3. ASSUME NEW i \in 1..n
        PROVE  /\ G[i] \in Seq(S) /\ Len(G[i]) = off[i + 1]
               /\ \A p \in 1..off[i + 1] : G[i][p] = V(p)
    <3>1. PICK e \in Nat : e = off[i + 1]
      BY <1>2
    <3>2. \A p \in 1..e : V(p) \in S
      BY <3>1, <2>2
    <3>3. G[i] = [p \in 1..e |-> V(p)]
      BY <3>1
    <3> HIDE DEF G
    <3>4. G[i] \in Seq(S) /\ Len(G[i]) = e
      BY <3>2, <3>3
    <3>5. \A p \in 1..e : G[i][p] = V(p)
      BY <3>3
    <3>6. QED
      BY <3>1, <3>4, <3>5
  <2> HIDE DEF G
  <2>4. G[1] = s[1]
    <3>1. 1 \in 1..n /\ off[1 + 1] = Len(s[1]) /\ s[1] \in Seq(S) /\ Len(s[1]) \in Nat
      BY <1>2, <1>4
    <3>2. ASSUME NEW p \in 1..Len(s[1]) PROVE G[1][p] = s[1][p]
      <4>1. p \in Nat /\ off[1] < p /\ p <= off[1 + 1] /\ p - off[1] = p
        BY <3>1, <1>2
      <4>2. V(p) = s[1][p - off[1]]
        BY <4>1, <3>1, <2>1
      <4>3. QED
        BY <4>1, <4>2, <3>1, <2>3
    <3>3. QED
      BY <3>1, <3>2, <2>3, SeqEqual
  <2>5. ASSUME NEW i \in 2..n PROVE G[i] = G[i - 1] \o s[i]
    <3>1. i \in 1..n /\ i - 1 \in 1..n /\ (i - 1) + 1 = i
      OBVIOUS
    <3>2. /\ off[i + 1] = off[i] + Len(s[i]) /\ off[i] \in Nat /\ s[i] \in Seq(S)
          /\ Len(s[i]) \in Nat
      BY <3>1, <1>2
    <3>3. /\ G[i - 1] \in Seq(S) /\ Len(G[i - 1]) = off[i]
          /\ \A p \in 1..off[i] : G[i - 1][p] = V(p)
      BY <3>1, <2>3
    <3> DEFINE c == G[i - 1] \o s[i]
    <3>4. /\ c \in Seq(S) /\ Len(c) = off[i + 1]
          /\ \A p \in 1..off[i + 1] :
               /\ p <= off[i] => c[p] = G[i - 1][p]
               /\ ~(p <= off[i]) => c[p] = s[i][p - off[i]]
      <4>1. PICK x \in Seq(S) : x = G[i - 1]
        BY <3>3
      <4>2. PICK y \in Seq(S) : y = s[i]
        BY <3>2
      <4>3. /\ x \o y \in Seq(S) /\ Len(x \o y) = Len(x) + Len(y)
            /\ \A p \in 1..Len(x) + Len(y) :
                 /\ p <= Len(x) => (x \o y)[p] = x[p]
                 /\ ~(p <= Len(x)) => (x \o y)[p] = y[p - Len(x)]
        BY Joined
      <4>4. c = x \o y /\ Len(x) = off[i] /\ Len(x) + Len(y) = off[i + 1]
        BY <4>1, <4>2, <3>2, <3>3
      <4> HIDE DEF c
      <4>5. QED
        BY <4>1, <4>2, <4>3, <4>4
    <3> HIDE DEF c
    <3>5. ASSUME NEW p \in 1..off[i + 1] PROVE G[i][p] = c[p]
      <4>1. G[i][p] = V(p) /\ p \in Nat
        BY <3>1, <2>3
      <4>2. CASE p <= off[i]
        <5>1. p \in 1..off[i]
          BY <4>2, <4>1, <3>2
        <5>2. QED
          BY <5>1, <4>1, <4>2, <3>3, <3>4
      <4>3. CASE ~(p <= off[i])
        <5>1. off[i] < p /\ p <= off[i + 1]
          BY <4>3, <4>1, <3>2
        <5>2. V(p) = s[i][p - off[i]]
          BY <5>1, <4>1, <3>1, <2>1
        <5>3. QED
          BY <5>2, <4>1, <4>3, <3>4
      <4>4. QED
        BY <4>2, <4>3
    <3>6. G[i] = c
      BY <3>1, <3>4, <3>5, <2>3, SeqEqual
    <3>7. QED
      BY <3>6 DEF c
  <2>6. G = [i \in 1..Len(s) |-> IF i = 1 THEN s[i] ELSE G[i - 1] \o s[i]]
    <3>1. G = [i \in 1..n |-> G[i]]
      BY DEF G
    <3>2. \A i \in 1..n : G[i] = IF i = 1 THEN s[i] ELSE G[i - 1] \o s[i]
      <4>1. \A i \in 1..n : i = 1 \/ i \in 2..n
        OBVIOUS
      <4>2. QED
        BY <4>1, <2>4, <2>5
    <3>3. QED
      BY <3>1, <3>2, <1>1
  <2>7. PICK f : /\ f = [i \in 1..Len(s) |-> IF i = 1 THEN s[i] ELSE f[i - 1] \o s[i]]
                 /\ FlattenSeq(s) = f[Len(s)]
    <3>1. Len(s) # 0
      BY <1>1, <1>4
    <3>2. QED
      BY <3>1, <2>6 DEF FlattenSeq
  <2>8. f[1] = s[1] /\ \A i \in 2..n : f[i] = f[i - 1] \o s[i]
    <3>1. ASSUME NEW i \in 1..n
          PROVE  f[i] = IF i = 1 THEN s[i] ELSE f[i - 1] \o s[i]
      BY <2>7, <1>1
    <3>2. 1 \in 1..n /\ \A i \in 2..n : i \in 1..n /\ i # 1
      BY <1>4
    <3>3. QED
      BY <3>1, <3>2
  <2>9. \A i \in 1..n : f[i] = G[i]
    <3> DEFINE T == {i \in 1..n : f[i] # G[i]}
    <3>1. SUFFICES ASSUME T # {} PROVE FALSE
      OBVIOUS
    <3>2. PICK i \in T : \A j \in T : i <= j
      <4>1. T \in SUBSET Nat
        OBVIOUS
      <4> HIDE DEF T
      <4>2. QED
        BY <4>1, <3>1, Least
    <3>3. CASE i = 1
      BY <3>2, <3>3, <2>4, <2>8
    <3>4. CASE i # 1
      <4>1. i \in 2..n /\ i - 1 \in 1..n /\ ~(i <= i - 1)
        BY <3>2, <3>4
      <4>2. f[i - 1] = G[i - 1]
        BY <4>1, <3>2
      <4>3. QED
        BY <4>1, <4>2, <3>2, <2>5, <2>8
    <3>5. QED
      BY <3>3, <3>4
  <2>10. n \in 1..n /\ FlattenSeq(s) = G[n]
    BY <2>7, <2>9, <1>1, <1>4
  <2>11. ASSUME NEW i \in 1..n, NEW j \in 1..Len(s[i])
         PROVE  G[n][off[i] + j] = s[i][j]
    <3>1. i + 1 \in 1..n + 1 /\ n + 1 \in 1..n + 1 /\ i + 1 <= n + 1
      OBVIOUS
    <3>2. /\ off[i + 1] <= off[n + 1] /\ off[i + 1] = off[i] + Len(s[i])
          /\ off[i] \in Nat /\ off[n + 1] \in Nat /\ Len(s[i]) \in Nat
      BY <3>1, <1>2
    <3>3. PICK p \in Nat : p = off[i] + j
      BY <3>2
    <3>4. p \in 1..off[n + 1] /\ off[i] < p /\ p <= off[i + 1] /\ p - off[i] = j
      <4>1. PICK a \in Nat, b \in Nat, c \in Nat, l \in Nat :
              a = off[i] /\ b = off[i + 1] /\ c = off[n + 1] /\ l = Len(s[i])
        BY <3>2
      <4>2. b <= c /\ b = a + l /\ p = a + j /\ 1 <= j /\ j <= l
        BY <4>1, <3>2, <3>3
      <4>3. p \in 1..c /\ a < p /\ p <= b /\ p - a = j
        BY <4>2
      <4>4. QED
        BY <4>1, <4>3
    <3>5. V(p) = s[i][p - off[i]]
      BY <3>4, <2>1
    <3>6. QED
      BY <3>3, <3>4, <3>5, <2>3, <2>10
  <2>12. QED
    BY <2>3, <2>10, <2>11, <1>1
<1>5. QED
  BY <1>3, <1>4

-----------------------------------------------------------------------------
(* The whole stream *)

\* The socket ends where the sender goes on.
GoesOn(at) ==
  Len(sock) = at[First] - 1 +
    IF outq # <<>> /\ outq[1].headerSent THEN 1 + Size[outq[1].msg] - outq[1].left ELSE 0

\* The positions at which the frames in flight begin, and the one behind the
\* last of them.
Positions(at) ==
  /\ at \in [1..Len(inFlight) + 1 -> Int]
  /\ at[1] = IF Begun THEN -in.got ELSE 1
  /\ \A k \in 1..Len(inFlight) : at[k + 1] = at[k] + Size[inFlight[k]] + 1
  /\ \A j, k \in 1..Len(inFlight) + 1 : j < k => at[j] < at[k]

\* The units of a sequence are those of the frames at these positions.
Fits(s, at) ==
  \A p \in 1..Len(s), k \in 1..Len(inFlight) :
    /\ p = at[k] => s[p] = Header(inFlight[k])
    /\ at[k] < p /\ p < at[k + 1] => s[p] = Piece(inFlight[k])

\* The whole stream, from the oldest unit in the socket on, is made of them.
Spells(s, at) ==
  /\ s \in Seq(Unit)
  /\ Len(s) = at[Len(inFlight) + 1] - 1
  /\ Fits(s, at)

LEMMA Located ==
  ASSUME Inv
  PROVE  \E at : Positions(at) /\ Laid(at) /\ GoesOn(at)
<1> DEFINE N == Len(inFlight)
           Q == Len(outq)
<1>1. PICK start \in [DOMAIN inFlight -> Int] : Follows(start) /\ Laid(start) /\ Ends(start)
  BY DEF Inv, StreamInv, Framed
<1>2. /\ inFlight \in Seq(Messages) /\ N \in Nat /\ DOMAIN inFlight = 1..N
      /\ outq \in Seq(Outgoing) /\ Q \in Nat /\ Q <= N /\ in.got \in Nat
  BY DEF Inv, TypeOK, StreamInv, QueueInv
<1>3. \A k \in 1..N : inFlight[k] \in Messages /\ Size[inFlight[k]] \in Nat /\ start[k] \in Int
  BY <1>2, SizeType
<1> DEFINE behind == IF N = 0 THEN 1 ELSE start[N] + Size[inFlight[N]] + 1
           at == [k \in 1..N + 1 |-> IF k = N + 1 THEN behind ELSE start[k]]
<1>4. behind \in Int
  BY <1>2, <1>3
<1>5. /\ at \in [1..N + 1 -> Int] /\ at[N + 1] = behind
      /\ \A k \in 1..N : at[k] = start[k]
  BY <1>2, <1>3, <1>4
<1> HIDE DEF at
<1>6. at[1] = IF Begun THEN -in.got ELSE 1
  <2>1. CASE N = 0
    <3>1. inFlight = <<>>
      BY <1>2, <2>1, EmptySeq
    <3>2. ~Begun
      BY <3>1 DEF Inv, StreamInv, ReaderInv
    <3>3. QED
      BY <3>2, <2>1, <1>5
  <2>2. CASE N # 0
    <3>1. inFlight # <<>> /\ 1 \in 1..N
      BY <1>2, <2>2
    <3>2. QED
      BY <3>1, <1>1, <1>5 DEF Follows
  <2>3. QED
    BY <2>1, <2>2
<1>7. ASSUME NEW k \in 1..N PROVE at[k + 1] = at[k] + Size[inFlight[k]] + 1
  <2>1. CASE k = N
    BY <2>1, <1>2, <1>5
  <2>2. CASE k # N
    <3>1. k \in 1..N - 1 /\ k + 1 \in 1..N
      <4>1. PICK n \in Nat : n = N
        BY <1>2
      <4>2. k \in 1..n /\ k # n
        BY <4>1, <2>2
      <4>3. k \in 1..n - 1 /\ k + 1 \in 1..n
        BY <4>2
      <4>4. QED
        BY <4>1, <4>3
    <3>2. QED
      BY <3>1, <1>1, <1>5 DEF Follows
  <2>3. QED
    BY <2>1, <2>2
<1>8. ASSUME NEW j \in 1..N + 1, NEW k \in 1..N + 1, j < k PROVE at[j] < at[k]
  <2>1. j \in 1..N /\ at[j] = start[j] /\ start[j] \in Int /\ Size[inFlight[j]] \in Nat
    BY <1>8, <1>2, <1>3, <1>5
  <2>2. CASE k = N + 1
    <3>1. at[k] = start[N] + Size[inFlight[N]] + 1 /\ N \in 1..N /\ Size[inFlight[N]] \in Nat
          /\ start[N] \in Int
      BY <2>1, <2>2, <1>2, <1>3, <1>5
    <3>2. CASE j = N
      BY <3>1, <3>2, <2>1
    <3>3. CASE j # N
      <4>1. start[j] + Size[inFlight[j]] < start[N]
        <5>1. PICK n \in Nat : n = N
          BY <1>2
        <5>2. j \in 1..n /\ n \in 1..n /\ j # n
          BY <5>1, <3>1, <3>3, <2>1
        <5>3. j < n
          BY <5>2
        <5>4. QED
          BY <5>1, <5>2, <5>3, <1>1, <1>2 DEF Follows
      <4>2. QED
        BY <4>1, <3>1, <2>1
    <3>4. QED
      BY <3>2, <3>3
  <2>3. CASE k # N + 1
    <3>1. k \in 1..N /\ at[k] = start[k] /\ start[k] \in Int
      BY <2>3, <1>2, <1>3, <1>5
    <3>2. start[j] + Size[inFlight[j]] < start[k]
      BY <3>1, <2>1, <1>8, <1>1, <1>2 DEF Follows
    <3>3. QED
      BY <3>1, <3>2, <2>1
  <2>4. QED
    BY <2>2, <2>3
<1>9. Positions(at)
  BY <1>5, <1>6, <1>7, <1>8 DEF Positions
<1>10. Laid(at)
  BY <1>1, <1>2, <1>5 DEF Laid
<1>11. GoesOn(at)
  <2>1. CASE outq # <<>>
    <3>1. First \in 1..N /\ at[First] = start[First] /\ start[First] \in Int
          /\ outq[1].left \in Nat /\ Size[outq[1].msg] \in Nat /\ outq[1].headerSent \in BOOLEAN
      <4>1. Q > 0
        BY <2>1, <1>2
      <4>2. First \in 1..N
        BY <4>1, <1>2 DEF First
      <4>3. outq[1].msg \in Messages /\ outq[1].left \in Nat /\ outq[1].headerSent \in BOOLEAN
        BY <2>1, HeadType DEF Inv
      <4>4. QED
        BY <4>2, <4>3, <1>3, <1>5, SizeType
    <3>2. Len(sock) = start[First] + IF outq[1].headerSent THEN Size[outq[1].msg] - outq[1].left ELSE -1
      BY <2>1, <1>1 DEF Ends
    <3>3. CASE outq[1].headerSent
      BY <3>1, <3>2, <3>3, <2>1 DEF GoesOn
    <3>4. CASE ~outq[1].headerSent
      BY <3>1, <3>2, <3>4, <2>1 DEF GoesOn
    <3>5. QED
      BY <3>3, <3>4
  <2>2. CASE outq = <<>>
    <3>1. First = N + 1 /\ at[First] = behind
      <4>1. Q = 0
        BY <2>2
      <4>2. QED
        BY <4>1, <1>2, <1>5 DEF First
    <3>2. Len(sock) = behind - 1
      <4>1. CASE N = 0
        <5>1. inFlight = <<>>
          BY <1>2, <4>1, EmptySeq
        <5>2. sock = <<>>
          BY <5>1, <1>1 DEF Ends
        <5>3. QED
          BY <5>2, <4>1
      <4>2. CASE N # 0
        <5>1. inFlight # <<>> /\ N \in 1..N
          BY <1>2, <4>2
        <5>2. QED
          BY <5>1, <4>2, <2>2, <1>1, <1>3 DEF Ends
      <4>3. QED
        BY <4>1, <4>2
    <3>3. QED
      BY <3>1, <3>2, <2>2, <1>4 DEF GoesOn
  <2>3. QED
    BY <2>1, <2>2
<1>12. QED
  BY <1>9, <1>10, <1>11

LEMMA SameSpelling ==
  ASSUME Inv, NEW at, Positions(at), NEW s, NEW t, Spells(s, at), Spells(t, at)
  PROVE  s = t
<1>1. PICK n \in Nat : n = Len(inFlight)
  BY DEF Inv, TypeOK
<1>2. /\ at \in [1..n + 1 -> Int] /\ (at[1] <= 1) /\ in.got \in Nat
      /\ \A k \in 1..n : at[k + 1] \in Int /\ at[k] \in Int
  <2>1. in.got \in Nat
    BY DEF Inv, TypeOK
  <2>2. at \in [1..n + 1 -> Int] /\ at[1] = IF Begun THEN -in.got ELSE 1
    BY <1>1 DEF Positions
  <2>3. at[1] <= 1
    BY <2>1, <2>2
  <2>4. QED
    BY <2>1, <2>2, <2>3
<1>3. s \in Seq(Unit) /\ t \in Seq(Unit) /\ Len(s) = at[n + 1] - 1 /\ Len(t) = Len(s)
  BY <1>1 DEF Spells, Fits
<1>4. ASSUME NEW p \in 1..Len(s) PROVE s[p] = t[p]
  <2>1. p \in Nat /\ p > 0 /\ p < at[n + 1]
    BY <1>2, <1>3
  <2> DEFINE T == {k \in 1..n : p < at[k + 1]}
  <2>2. T \in SUBSET Nat
    OBVIOUS
  <2>3. n \in T
    <3>1. n # 0
      BY <2>1, <1>2
    <3>2. QED
      BY <3>1, <2>1
  <2>4. PICK k \in T : \A j \in T : k <= j
    <3> HIDE DEF T
    <3>1. QED
      BY <2>2, <2>3, Least
  <2>5. at[k] <= p
    <3>1. CASE k = 1
      BY <3>1, <2>1, <1>2
    <3>2. CASE k # 1
      <4>1. k - 1 \in 1..n /\ (k - 1) + 1 = k /\ k \in Nat /\ ~(k <= k - 1)
        BY <3>2
      <4>2. k - 1 \notin T
        BY <4>1, <2>4
      <4>3. ~(p < at[k])
        BY <4>1, <4>2
      <4>4. QED
        BY <4>3, <2>1, <1>2
    <3>3. QED
      BY <3>1, <3>2
  <2>6. k \in 1..n /\ p < at[k + 1] /\ at[k] \in Int
    BY <1>2
  <2>7. CASE p = at[k]
    BY <2>6, <2>7, <1>1, <1>3 DEF Spells, Fits
  <2>8. CASE p # at[k]
    <3>1. at[k] < p
      BY <2>1, <2>5, <2>6, <2>8
    <3>2. QED
      BY <3>1, <2>6, <1>1, <1>3 DEF Spells, Fits
  <2>9. QED
    BY <2>7, <2>8
<1>5. QED
  BY <1>3, <1>4, SeqEqual

\* A part of the stream, and behind it the frames from the lo-th on, the first
\* one without the sk units that are in the part before.
Continues(parts, lo, sk) ==
  /\ parts \in Seq(Seq(Unit))
  /\ Len(parts) = Len(inFlight) - lo + 1
  /\ Len(parts) = 0 => sk = 0
  /\ \A i \in 1..Len(parts) :
       LET m == inFlight[lo + i - 1]
           skip == IF i = 1 THEN sk ELSE 0
       IN /\ Len(parts[i]) = Size[m] + 1 - skip
          /\ \A j \in 1..Len(parts[i]) :
               parts[i][j] = IF j + skip = 1 THEN Header(m) ELSE Piece(m)

LEMMA Continued ==
  ASSUME Inv, NEW at, Positions(at),
         NEW x \in Seq(Unit), NEW lo \in 1..Len(inFlight) + 1, NEW parts, NEW sk \in Nat,
         Continues(parts, lo, sk), Len(x) = at[lo] - 1 + sk, Fits(x, at)
  PROVE  Spells(x \o FlattenSeq(parts), at)
<1>1. PICK N \in Nat : N = Len(inFlight)
  BY DEF Inv, TypeOK
<1>2. PICK n \in Nat : n = Len(parts)
  <2>1. parts \in Seq(Seq(Unit))
    BY DEF Continues
  <2>2. Len(parts) \in Nat
    BY <2>1
  <2>3. QED
    BY <2>2
<1>3. PICK X \in Nat : X = Len(x)
  OBVIOUS
<1>4. /\ lo \in 1..N + 1 /\ n = N - lo + 1 /\ X = at[lo] - 1 + sk
      /\ n = 0 => sk = 0
      /\ parts \in Seq(Seq(Unit))
      /\ \A i \in 1..n : lo + i - 1 \in 1..N
  <2>1. n = N - lo + 1 /\ (n = 0 => sk = 0) /\ parts \in Seq(Seq(Unit))
    BY <1>1, <1>2 DEF Continues
  <2>2. QED
    BY <2>1, <1>1, <1>3
<1>5. \A k \in 1..N : inFlight[k] \in Messages /\ Size[inFlight[k]] \in Nat
  BY <1>1, SizeType DEF Inv, TypeOK
<1>6. /\ \A k \in 1..N + 1 : at[k] \in Int
      /\ \A k \in 1..N : at[k + 1] = at[k] + Size[inFlight[k]] + 1
      /\ \A j, k \in 1..N + 1 : j < k => at[j] < at[k]
  BY <1>1 DEF Positions
<1> DEFINE skip(i) == IF i = 1 THEN sk ELSE 0
           of(i) == inFlight[lo + i - 1]
           off == [i \in 1..n + 1 |-> at[lo + i - 1] - 1 + skip(i) - X]
           last == at[N + 1] - 1 - X
<1>7. /\ off[1] = 0
      /\ \A i \in 1..n : X + off[i] = at[lo + i - 1] - 1 + skip(i)
      /\ off[n + 1] = last
      /\ \A i \in 2..n + 1 : off[i] = at[lo + i - 1] - 1 - X
      /\ off \in [1..n + 1 -> Int]
  <2>1. \A i \in 1..n + 1 : lo + i - 1 \in 1..N + 1
    BY <1>4
  <2>2. \A i \in 1..n + 1 : at[lo + i - 1] \in Int /\ skip(i) \in Nat
    BY <2>1, <1>6
  <2>3. \A i \in 1..n + 1 : off[i] = at[lo + i - 1] - 1 + skip(i) - X
    OBVIOUS
  <2>4. off \in [1..n + 1 -> Int]
    <3>1. ASSUME NEW i \in 1..n + 1 PROVE at[lo + i - 1] - 1 + skip(i) - X \in Int
      <4>1. at[lo + i - 1] \in Int /\ skip(i) \in Nat
        BY <2>2
      <4> HIDE DEF skip
      <4>2. QED
        BY <4>1
    <3> HIDE DEF skip
    <3>2. QED
      BY <3>1
  <2> HIDE DEF off
  <2>5. off[1] = 0
    <3>1. 1 \in 1..n + 1 /\ lo + 1 - 1 = lo /\ lo \in 1..N + 1
      BY <1>4
    <3>2. off[1] = at[lo] - 1 + sk - X /\ at[lo] \in Int
      BY <3>1, <2>3, <1>6
    <3>3. QED
      BY <3>2, <1>4
  <2>6. off[n + 1] = last
    <3>1. n + 1 \in 1..n + 1 /\ lo + (n + 1) - 1 = N + 1
      BY <1>4
    <3>2. skip(n + 1) = 0
      BY <1>4
    <3>3. at[N + 1] \in Int
      BY <1>6
    <3>4. off[n + 1] = at[N + 1] - 1 + skip(n + 1) - X
      BY <3>1, <2>3
    <3>5. QED
      BY <3>2, <3>3, <3>4
  <2>7. ASSUME NEW i \in 1..n PROVE X + off[i] = at[lo + i - 1] - 1 + skip(i)
    <3>1. i \in 1..n + 1
      OBVIOUS
    <3>2. off[i] = at[lo + i - 1] - 1 + skip(i) - X /\ at[lo + i - 1] \in Int /\ skip(i) \in Nat
      BY <3>1, <2>2, <2>3
    <3> HIDE DEF skip
    <3>3. QED
      BY <3>2
  <2>8. ASSUME NEW i \in 2..n + 1 PROVE off[i] = at[lo + i - 1] - 1 - X
    <3>1. i \in 1..n + 1 /\ skip(i) = 0
      OBVIOUS
    <3>2. off[i] = at[lo + i - 1] - 1 + skip(i) - X /\ at[lo + i - 1] \in Int
      BY <3>1, <2>2, <2>3
    <3>3. QED
      BY <3>1, <3>2
  <2>9. QED
    BY <2>4, <2>5, <2>6, <2>7, <2>8
<1> HIDE DEF off
<1>8. ASSUME NEW i \in 1..n
      PROVE  /\ Len(parts[i]) = Size[of(i)] + 1 - skip(i)
             /\ \A j \in 1..Len(parts[i]) :
                  parts[i][j] = IF j + skip(i) = 1 THEN Header(of(i)) ELSE Piece(of(i))
             /\ Len(parts[i]) \in Nat /\ skip(i) \in Nat
             /\ off[i + 1] = off[i] + Len(parts[i])
  <2>1. /\ Len(parts[i]) = Size[of(i)] + 1 - skip(i)
        /\ \A j \in 1..Len(parts[i]) :
             parts[i][j] = IF j + skip(i) = 1 THEN Header(of(i)) ELSE Piece(of(i))
    BY <1>2 DEF Continues
  <2>2. parts[i] \in Seq(Unit) /\ Len(parts[i]) \in Nat /\ skip(i) \in Nat
    <3>1. parts[i] \in Seq(Unit)
      <4>1. i \in 1..Len(parts) /\ parts \in Seq(Seq(Unit))
        BY <1>2, <1>4
      <4>2. QED
        BY <4>1
    <3>2. skip(i) \in Nat
      OBVIOUS
    <3>3. QED
      BY <3>1, <3>2
  <2>3. off[i + 1] = off[i] + Len(parts[i])
    <3>1. i \in 1..n + 1 /\ i + 1 \in 2..n + 1 /\ lo + i - 1 \in 1..N
          /\ lo + (i + 1) - 1 = (lo + i - 1) + 1
      BY <1>4
    <3>2. off[i + 1] = at[(lo + i - 1) + 1] - 1 - X
      BY <3>1, <1>7
    <3>3. at[(lo + i - 1) + 1] = at[lo + i - 1] + Size[of(i)] + 1
      BY <3>1, <1>6
    <3>4. X + off[i] = at[lo + i - 1] - 1 + skip(i)
      BY <1>7
    <3>5. at[lo + i - 1] \in Int /\ Size[of(i)] \in Nat /\ off[i] \in Int
      BY <3>1, <1>5, <1>6, <1>7
    <3> HIDE DEF skip, of
    <3>6. PICK c \in Int, d \in Int, e \in Nat, f \in Nat, g \in Nat :
            /\ c = at[lo + i - 1] /\ d = off[i] /\ e = Size[of(i)] /\ f = skip(i)
            /\ g = Len(parts[i])
      BY <3>5, <2>2
    <3>7. g = e + 1 - f /\ X + d = c - 1 + f /\ off[i + 1] = (c + e + 1) - 1 - X
      BY <3>2, <3>3, <3>4, <3>6, <2>1
    <3>8. off[i + 1] = d + g
      BY <3>7
    <3>9. QED
      BY <3>6, <3>8
  <2>4. QED
    BY <2>1, <2>2, <2>3
<1> HIDE DEF skip, of
<1>9. ASSUME NEW i \in 1..n + 1, NEW j \in 1..n + 1, i <= j PROVE off[i] <= off[j]
  <2>1. CASE i = j
    BY <2>1, <1>7
  <2>2. ASSUME NEW k \in 2..n + 1 PROVE 0 <= off[k] /\ off[2] <= off[k]
    <3>1. 1 \in 1..n /\ 1 + 1 = 2 /\ 2 \in 2..n + 1
      BY <1>4
    <3>2. off[2] = off[1] + Len(parts[1]) /\ Len(parts[1]) \in Nat
      BY <3>1, <1>8
    <3>3. 0 <= off[2]
      BY <3>2, <1>7
    <3>4. off[2] <= off[k]
      <4>1. CASE k = 2
        BY <4>1, <1>7
      <4>2. CASE k # 2
        <5>1. lo + 2 - 1 \in 1..N + 1 /\ lo + k - 1 \in 1..N + 1 /\ lo + 2 - 1 < lo + k - 1
          BY <4>2, <1>4
        <5>2. at[lo + 2 - 1] < at[lo + k - 1] /\ at[lo + 2 - 1] \in Int /\ at[lo + k - 1] \in Int
          BY <5>1, <1>6
        <5>3. off[2] = at[lo + 2 - 1] - 1 - X /\ off[k] = at[lo + k - 1] - 1 - X
          BY <3>1, <1>7
        <5>4. QED
          BY <5>2, <5>3
      <4>3. QED
        BY <4>1, <4>2
    <3>5. QED
      BY <3>1, <3>3, <3>4, <1>7
  <2>3. CASE i = 1 /\ j # 1
    <3>1. j \in 2..n + 1
      BY <2>3
    <3>2. QED
      BY <3>1, <2>2, <2>3, <1>7
  <2>4. CASE i # 1 /\ i # j
    <3>1. /\ i \in 2..n + 1 /\ j \in 2..n + 1
          /\ lo + i - 1 \in 1..N + 1 /\ lo + j - 1 \in 1..N + 1 /\ lo + i - 1 < lo + j - 1
      BY <2>4, <1>9, <1>4
    <3>2. at[lo + i - 1] < at[lo + j - 1] /\ at[lo + i - 1] \in Int /\ at[lo + j - 1] \in Int
      BY <3>1, <1>6
    <3>3. off[i] = at[lo + i - 1] - 1 - X /\ off[j] = at[lo + j - 1] - 1 - X
      BY <3>1, <1>7
    <3>4. QED
      BY <3>2, <3>3
  <2>5. QED
    BY <2>1, <2>3, <2>4, <1>9
<1>10. Offsets(parts, off)
  <2>1. \A i \in 1..n + 1 : off[i] \in Nat
    <3>1. ASSUME NEW i \in 1..n + 1 PROVE off[i] \in Nat
      <4>1. 1 \in 1..n + 1 /\ 1 <= i
        OBVIOUS
      <4>2. off[1] <= off[i] /\ off[i] \in Int
        BY <4>1, <1>7, <1>9
      <4>3. QED
        BY <4>2, <1>7
    <3>2. QED
      BY <3>1
  <2>2. off \in [1..n + 1 -> Nat]
    BY <2>1, <1>7
  <2>3. QED
    BY <2>2, <1>2, <1>7, <1>8, <1>9 DEF Offsets
<1> DEFINE fs == FlattenSeq(parts)
<1>11. /\ fs \in Seq(Unit) /\ Len(fs) = last
       /\ \A i \in 1..n : \A j \in 1..Len(parts[i]) : fs[off[i] + j] = parts[i][j]
  <2>1. /\ fs \in Seq(Unit) /\ Len(fs) = off[Len(parts) + 1]
        /\ \A i \in 1..Len(parts) : \A j \in 1..Len(parts[i]) : fs[off[i] + j] = parts[i][j]
    BY <1>4, <1>10, Flattened
  <2> HIDE DEF fs, last
  <2>2. QED
    BY <2>1, <1>2, <1>7
<1> HIDE DEF fs
<1> DEFINE s == x \o fs
<1>12. /\ s \in Seq(Unit) /\ Len(s) = at[N + 1] - 1 /\ last \in Nat
       /\ \A p \in 1..Len(s) : /\ p <= X => s[p] = x[p]
                               /\ ~(p <= X) => s[p] = fs[p - X]
  <2>1. at[N + 1] \in Int
    BY <1>6
  <2>2. last \in Nat /\ X + last = at[N + 1] - 1
    BY <2>1, <1>11
  <2>3. /\ s \in Seq(Unit) /\ Len(s) = Len(x) + Len(fs)
        /\ \A p \in 1..Len(x) + Len(fs) : /\ p <= Len(x) => s[p] = x[p]
                                          /\ ~(p <= Len(x)) => s[p] = fs[p - Len(x)]
    <3>1. PICK y \in Seq(Unit) : y = fs
      BY <1>11
    <3>2. /\ x \o y \in Seq(Unit) /\ Len(x \o y) = Len(x) + Len(y)
          /\ \A p \in 1..Len(x) + Len(y) : /\ p <= Len(x) => (x \o y)[p] = x[p]
                                           /\ ~(p <= Len(x)) => (x \o y)[p] = y[p - Len(x)]
      BY Joined
    <3>3. QED
      BY <3>1, <3>2
  <2> HIDE DEF s, last
  <2>4. QED
    BY <2>2, <2>3, <1>3, <1>11
<1> HIDE DEF s, last
<1>13. ASSUME NEW p \in 1..Len(s), NEW k \in 1..N, at[k] <= p, p < at[k + 1]
       PROVE  s[p] = IF p = at[k] THEN Header(inFlight[k]) ELSE Piece(inFlight[k])
  <2>1. at[k] \in Int /\ at[k + 1] \in Int /\ at[k + 1] = at[k] + Size[inFlight[k]] + 1 /\ p \in Nat
        /\ Size[inFlight[k]] \in Nat
    BY <1>5, <1>6
  <2>2. CASE p <= X
    <3>1. p \in 1..Len(x) /\ s[p] = x[p]
      BY <2>2, <1>3, <1>12
    <3>2. p = at[k] => x[p] = Header(inFlight[k])
      BY <3>1, <1>1 DEF Fits
    <3>3. p # at[k] => x[p] = Piece(inFlight[k])
      <4>1. p # at[k] => at[k] < p
        BY <2>1, <1>13
      <4>2. QED
        BY <4>1, <3>1, <1>1, <1>13 DEF Fits
    <3>4. QED
      BY <3>1, <3>2, <3>3
  <2>3. CASE ~(p <= X)
    <3>1. ~(k < lo)
      <4>1. ASSUME k < lo PROVE FALSE
        <5>1. k + 1 \in 1..N + 1 /\ lo \in 1..N + 1 /\ at[lo] \in Int
          BY <1>4, <1>6
        <5>2. at[k + 1] <= at[lo]
          <6>1. CASE k + 1 = lo
            BY <6>1, <5>1
          <6>2. CASE k + 1 # lo
            <7>1. k + 1 < lo
              BY <6>2, <4>1, <5>1
            <7>2. QED
              BY <7>1, <5>1, <1>6, <2>1
          <6>3. QED
            BY <6>1, <6>2
        <5>3. QED
          BY <5>1, <5>2, <2>1, <2>3, <1>4, <1>13
      <4>2. QED
        BY <4>1
    <3>2. PICK i \in 1..n : i = k - lo + 1
      <4>1. k - lo + 1 \in 1..n
        BY <3>1, <1>4
      <4>2. QED
        BY <4>1
    <3>3. lo + i - 1 = k /\ of(i) = inFlight[k]
      <4>1. lo + i - 1 = k
        BY <3>2, <1>4
      <4>2. QED
        BY <4>1 DEF of
    <3>4. /\ X + off[i] = at[k] - 1 + skip(i) /\ off[i] \in Int /\ skip(i) \in Nat
          /\ Len(parts[i]) = Size[inFlight[k]] + 1 - skip(i)
      <4>1. off[i] \in Int
        BY <1>7
      <4>2. X + off[i] = at[lo + i - 1] - 1 + skip(i)
        BY <1>7
      <4>3. QED
        BY <4>1, <4>2, <3>3, <1>8
    <3>5. PICK a \in Int, o \in Int, h \in Nat, z \in Nat :
            /\ a = at[k] /\ o = off[i] /\ h = skip(i) /\ z = Size[inFlight[k]]
      BY <3>4, <2>1
    <3>6. /\ X + o = a - 1 + h /\ Len(parts[i]) = z + 1 - h
          /\ a <= p /\ p < a + z + 1 /\ p > X /\ (i # 1 => h = 0) /\ (i = 1 => o = 0)
      <4>1. i # 1 => h = 0
        BY <3>5 DEF skip
      <4>2. i = 1 => o = 0
        BY <3>5, <1>7
      <4>3. QED
        BY <4>1, <4>2, <3>4, <3>5, <2>1, <2>3, <1>13
    <3>7. PICK j \in Int : j = p - X - o
      OBVIOUS
    <3>8. j >= 1
      <4>1. CASE i = 1
        BY <4>1, <3>6, <3>7, <2>1
      <4>2. CASE i # 1
        BY <4>2, <3>6, <3>7, <2>1
      <4>3. QED
        BY <4>1, <4>2
    <3>9. j \in 1..Len(parts[i]) /\ j + skip(i) = p - a + 1 /\ off[i] + j = p - X
      <4>1. PICK q \in Nat : q = p
        BY <2>1
      <4>2. X + o = a - 1 + h /\ q < a + z + 1 /\ j = q - X - o
        BY <4>1, <3>6, <3>7
      <4>3. j <= z + 1 - h /\ j + h = q - a + 1 /\ o + j = q - X
        BY <4>2
      <4>4. QED
        BY <4>1, <4>3, <3>5, <3>6, <3>8
    <3>10. s[p] = fs[off[i] + j]
      BY <3>9, <2>3, <1>12
    <3>11. fs[off[i] + j] = IF j + skip(i) = 1 THEN Header(inFlight[k]) ELSE Piece(inFlight[k])
      BY <3>9, <3>3, <1>8, <1>11
    <3>12. j + skip(i) = 1 <=> p = a
      <4>1. PICK q \in Nat : q = p
        BY <2>1
      <4>2. PICK c \in Int : c = q - a + 1
        OBVIOUS
      <4>3. c = 1 <=> q = a
        BY <4>2
      <4>4. QED
        BY <4>1, <4>2, <4>3, <3>9
    <3>13. QED
      BY <3>5, <3>10, <3>11, <3>12
  <2>4. QED
    BY <2>2, <2>3
<1>14. Spells(s, at)
  <2>1. ASSUME NEW p \in 1..Len(s), NEW k \in 1..N
        PROVE  /\ p = at[k] => s[p] = Header(inFlight[k])
               /\ at[k] < p /\ p < at[k + 1] => s[p] = Piece(inFlight[k])
    <3>1. at[k] \in Int /\ at[k + 1] \in Int /\ at[k] < at[k + 1] /\ p \in Nat
      <4>1. k \in 1..N + 1 /\ k + 1 \in 1..N + 1 /\ k < k + 1
        OBVIOUS
      <4>2. QED
        BY <4>1, <1>6
    <3>2. CASE p = at[k]
      <4>1. at[k] <= p /\ p < at[k + 1]
        BY <3>1, <3>2
      <4>2. QED
        BY <4>1, <3>1, <3>2, <1>13
    <3>3. CASE at[k] < p /\ p < at[k + 1]
      <4>1. at[k] <= p /\ p # at[k]
        BY <3>1, <3>3
      <4>2. QED
        BY <4>1, <3>3, <1>13
    <3>4. QED
      BY <3>2, <3>3
  <2>2. QED
    BY <2>1, <1>1, <1>12 DEF Spells, Fits
<1>15. QED
  BY <1>14 DEF s, fs

\* The sender continues what is in the socket with what it has not sent.
LEMMA SentSpells ==
  ASSUME Inv, NEW at, Positions(at), Laid(at), GoesOn(at)
  PROVE  Spells(sock \o FlattenSeq(Unsent), at)
<1>1. /\ inFlight \in Seq(Messages) /\ outq \in Seq(Outgoing) /\ sock \in Seq(Unit)
      /\ Len(outq) <= Len(inFlight)
  BY DEF Inv, TypeOK, StreamInv, QueueInv
<1>2. PICK N \in Nat, Q \in Nat : N = Len(inFlight) /\ Q = Len(outq) /\ Q <= N
  BY <1>1
<1> DEFINE sk == IF outq # <<>> /\ outq[1].headerSent THEN 1 + Size[outq[1].msg] - outq[1].left ELSE 0
           skip(i) == IF i = 1 THEN sk ELSE 0
<1>3. First \in 1..N + 1 /\ N - First + 1 = Q
  BY <1>2 DEF First
<1>4. Q = 0 => outq = <<>>
  BY <1>1, <1>2, EmptySeq
<1>5. sk \in Nat
  <2>1. CASE outq # <<>> /\ outq[1].headerSent
    <3>1. /\ outq[1].msg \in Messages /\ outq[1].left \in Nat
          /\ outq[1].left <= Size[outq[1].msg]
      <4>1. outq[1].msg \in Messages /\ outq[1].left \in Nat
        BY <2>1, HeadType DEF Inv
      <4>2. 1 \in DOMAIN outq
        BY <2>1, <1>1
      <4>3. outq[1].left <= Size[outq[1].msg]
        BY <4>2 DEF Inv, StreamInv, QueueInv
      <4>4. QED
        BY <4>1, <4>3
    <3>2. Size[outq[1].msg] \in Nat
      BY <3>1, SizeType
    <3>3. QED
      BY <3>1, <3>2, <2>1
  <2>2. CASE ~(outq # <<>> /\ outq[1].headerSent)
    BY <2>2
  <2>3. QED
    BY <2>1, <2>2
<1>6. /\ Len(sock) = at[First] - 1 + sk
      /\ Q = 0 => sk = 0
  BY <1>4 DEF GoesOn
<1>7. ASSUME NEW i \in 1..Q
      PROVE  LET m == inFlight[First + i - 1]
             IN /\ Unsent[i] \in Seq(Unit)
                /\ Len(Unsent[i]) = Size[m] + 1 - skip(i)
                /\ \A j \in 1..Len(Unsent[i]) :
                     Unsent[i][j] = IF j + skip(i) = 1 THEN Header(m) ELSE Piece(m)
  <2> DEFINE m == inFlight[First + i - 1]
             left == outq[i].left
             front == IF outq[i].headerSent THEN <<>> ELSE <<Header(outq[i].msg)>>
  <2>1. i \in DOMAIN outq /\ First + i - 1 = Len(inFlight) - Len(outq) + i /\ First + i - 1 \in 1..N
        /\ DOMAIN inFlight = 1..N
    BY <1>1, <1>2, <1>3 DEF First
  <2>2. /\ outq[i].msg = m /\ left <= Size[m] /\ (i > 1 => ~outq[i].headerSent)
        /\ ~outq[i].headerSent => left = Size[m]
    BY <2>1 DEF Inv, StreamInv, QueueInv
  <2>3. /\ m \in Messages /\ Size[m] \in Nat /\ left \in Nat /\ left > 0
        /\ outq[i].headerSent \in BOOLEAN
    <3>1. m \in Messages
      BY <2>1, <1>1
    <3>2. outq[i] \in Outgoing
      BY <2>1, <1>1
    <3>3. QED
      BY <3>1, <3>2, SizeType DEF Outgoing
  <2>4. Unsent[i] = front \o Data(m, left)
    BY <2>1, <2>2 DEF Unsent
  <2>5. PICK d \in Seq(Unit) : /\ d = Data(m, left) /\ Len(d) = left
                               /\ \A j \in 1..left : d[j] = Piece(m)
    BY <2>3, DataType
  <2>6. CASE outq[i].headerSent
    <3>1. i = 1 /\ outq # <<>>
      BY <2>1, <2>2, <2>6, <1>1
    <3>2. skip(i) = 1 + Size[m] - left
      BY <3>1, <2>2, <2>6
    <3>3. Unsent[i] = d
      <4>1. Unsent[i] = <<>> \o d
        BY <2>4, <2>5, <2>6
      <4>2. QED
        BY <4>1, ConcatEmptySeq
    <3> HIDE DEF skip, m, left
    <3>4. PICK z \in Nat, e \in Nat, h \in Int : z = Size[m] /\ e = left /\ h = skip(i) /\ h = 1 + z - e
      BY <3>2, <2>3
    <3>5. Len(d) = z + 1 - h /\ \A j \in 1..e : j + h # 1
      <4>1. e <= z /\ Len(d) = e
        BY <3>4, <2>2, <2>5
      <4>2. QED
        BY <4>1, <3>4
    <3>6. QED
      BY <3>3, <3>4, <3>5, <2>5 DEF m
  <2>7. CASE ~outq[i].headerSent
    <3>1. skip(i) = 0 /\ left = Size[m]
      BY <2>2, <2>7
    <3>2. PICK h \in Seq(Unit) : h = <<Header(m)>> /\ Len(h) = 1 /\ h[1] = Header(m)
      <4>1. Header(m) \in Unit
        BY <2>3 DEF Header, Unit
      <4>2. QED
        BY <4>1, Single
    <3>3. Unsent[i] = h \o d
      BY <2>2, <2>4, <2>5, <2>7, <3>2
    <3>4. /\ h \o d \in Seq(Unit) /\ Len(h \o d) = 1 + left
          /\ \A j \in 1..1 + left : /\ j <= 1 => (h \o d)[j] = h[j]
                                    /\ ~(j <= 1) => (h \o d)[j] = d[j - 1]
      <4>1. /\ h \o d \in Seq(Unit) /\ Len(h \o d) = Len(h) + Len(d)
            /\ \A j \in 1..Len(h) + Len(d) : /\ j <= Len(h) => (h \o d)[j] = h[j]
                                             /\ ~(j <= Len(h)) => (h \o d)[j] = d[j - Len(h)]
        BY Joined
      <4>2. QED
        BY <4>1, <3>2, <2>5
    <3>5. ASSUME NEW j \in 1..1 + left
          PROVE  (h \o d)[j] = IF j = 1 THEN Header(m) ELSE Piece(m)
      <4>1. CASE j = 1
        BY <4>1, <3>2, <3>4
      <4>2. CASE j # 1
        <5>1. ~(j <= 1) /\ j - 1 \in 1..left
          BY <4>2, <2>3
        <5>2. QED
          BY <4>2, <5>1, <3>4, <2>5
      <4>3. QED
        BY <4>1, <4>2
    <3> HIDE DEF skip, m, left
    <3>6. \A j \in 1..1 + left : j + skip(i) = j
      BY <3>1, <2>3
    <3>7. 1 + left = Size[m] + 1 - skip(i)
      BY <3>1, <2>3
    <3>8. QED
      BY <3>3, <3>4, <3>5, <3>6, <3>7 DEF m
  <2>8. QED
    BY <2>6, <2>7, <2>3
<1> HIDE DEF sk
<1>8. Continues(Unsent, First, sk)
  <2>1. Unsent \in Seq(Seq(Unit)) /\ Len(Unsent) = Q
    <3>1. DOMAIN outq = 1..Q /\ \A i \in 1..Q : Unsent[i] \in Seq(Unit)
      BY <1>1, <1>2, <1>7
    <3>2. Unsent = [i \in 1..Q |-> Unsent[i]]
      BY <3>1 DEF Unsent
    <3> HIDE DEF Unsent
    <3>3. QED
      BY <3>1, <3>2
  <2>2. Q = Len(inFlight) - First + 1
    BY <1>2, <1>3
  <2>3. QED
    BY <2>1, <2>2, <1>6, <1>7 DEF Continues
<1>9. Fits(sock, at)
  <2>1. ASSUME NEW p \in 1..Len(sock), NEW k \in 1..Len(inFlight)
        PROVE  /\ p = at[k] => sock[p] = Header(inFlight[k])
               /\ at[k] < p /\ p < at[k + 1] => sock[p] = Piece(inFlight[k])
    <3>1. p \in DOMAIN sock /\ k \in DOMAIN inFlight /\ inFlight[k] \in Messages
      BY <1>1
    <3>2. at[k + 1] = at[k] + Size[inFlight[k]] + 1 /\ at[k] \in Int /\ Size[inFlight[k]] \in Nat
      BY <3>1, <1>2, SizeType DEF Positions
    <3>3. p < at[k + 1] => p <= at[k] + Size[inFlight[k]]
      BY <3>2
    <3>4. QED
      BY <3>1, <3>3 DEF Laid
  <2>2. QED
    BY <2>1 DEF Fits
<1>10. QED
  BY <1>1, <1>2, <1>3, <1>5, <1>6, <1>8, <1>9, Continued

\* Whole frames continue what is missing of the message that is begun.
LEMMA FramesSpell ==
  ASSUME Inv, NEW at, Positions(at)
  PROVE  LET behind == IF Begun THEN Tail(inFlight) ELSE inFlight
             rest == IF Begun THEN Data(in.msg, Size[in.msg] - in.got) ELSE <<>>
         IN Spells(rest \o FlattenSeq([i \in DOMAIN behind |-> Frame(behind[i])]), at)
<1> DEFINE behind == IF Begun THEN Tail(inFlight) ELSE inFlight
           rest == IF Begun THEN Data(in.msg, Size[in.msg] - in.got) ELSE <<>>
           lo == IF Begun THEN 2 ELSE 1
           frames == [i \in DOMAIN behind |-> Frame(behind[i])]
<1>1. inFlight \in Seq(Messages) /\ in.got \in Nat
  BY DEF Inv, TypeOK
<1>2. PICK N \in Nat : N = Len(inFlight) /\ DOMAIN inFlight = 1..N
  BY <1>1
<1>3. Begun => /\ N > 0 /\ in.msg = inFlight[1] /\ in.msg \in Messages
               /\ Size[in.msg] \in Nat /\ in.got < Size[in.msg]
  <2>1. Begun => inFlight # <<>> /\ in.msg = inFlight[1] /\ in.got < Size[in.msg]
    BY DEF Inv, StreamInv, ReaderInv
  <2>2. inFlight # <<>> => N > 0 /\ inFlight[1] \in Messages
    BY <1>1, <1>2
  <2>3. QED
    BY <2>1, <2>2, SizeType
<1>4. /\ behind \in Seq(Messages) /\ Len(behind) = N - lo + 1 /\ lo \in 1..N + 1
      /\ \A i \in 1..N - lo + 1 : behind[i] = inFlight[lo + i - 1] /\ behind[i] \in Messages
  <2>1. CASE Begun
    <3>1. /\ Tail(inFlight) \in Seq(Messages) /\ Len(Tail(inFlight)) = N - 1
          /\ \A i \in 1..N - 1 : Tail(inFlight)[i] = inFlight[i + 1] /\ inFlight[i + 1] \in Messages
      BY <2>1, <1>1, <1>2, <1>3
    <3>2. behind = Tail(inFlight) /\ lo = 2
      BY <2>1
    <3> HIDE DEF behind, lo
    <3>3. N - lo + 1 = N - 1 /\ lo \in 1..N + 1 /\ \A i \in 1..N - 1 : lo + i - 1 = i + 1
      BY <3>2, <2>1, <1>3
    <3>4. QED
      BY <3>1, <3>2, <3>3
  <2>2. CASE ~Begun
    <3>1. behind = inFlight /\ lo = 1
      BY <2>2
    <3> HIDE DEF behind, lo
    <3>2. N - lo + 1 = N /\ lo \in 1..N + 1 /\ \A i \in 1..N : lo + i - 1 = i
      BY <3>1
    <3>3. QED
      BY <3>1, <3>2, <1>1, <1>2
  <2>3. QED
    BY <2>1, <2>2
<1>5. rest \in Seq(Unit) /\ Len(rest) = at[lo] - 1 + 0 /\ Fits(rest, at)
  <2>1. \A k \in 1..N + 1 : at[k] \in Int
    BY <1>2 DEF Positions
  <2>2. CASE Begun
    <3>1. 1 \in 1..N /\ 1 + 1 = 2 /\ 1 \in 1..N + 1
      BY <2>2, <1>3
    <3>2. at[1] = -in.got /\ at[2] = at[1] + Size[inFlight[1]] + 1
      BY <3>1, <2>2, <1>2 DEF Positions
    <3>3. PICK n \in Nat : n = Size[in.msg] - in.got
      BY <2>2, <1>1, <1>3
    <3>4. rest \in Seq(Unit) /\ Len(rest) = n /\ \A p \in 1..n : rest[p] = Piece(in.msg)
      BY <3>3, <2>2, <1>3, DataType
    <3>5. at[2] = n + 1
      BY <3>2, <3>3, <2>2, <1>1, <1>3
    <3> HIDE DEF rest
    <3>6. ASSUME NEW p \in 1..Len(rest), NEW k \in 1..Len(inFlight)
          PROVE  /\ p = at[k] => rest[p] = Header(inFlight[k])
                 /\ at[k] < p /\ p < at[k + 1] => rest[p] = Piece(inFlight[k])
      <4>1. CASE k = 1
        <5>1. at[1] < p /\ rest[p] = Piece(inFlight[1])
          BY <3>2, <3>4, <2>2, <1>1, <1>3
        <5>2. at[1] \in Int
          BY <3>1, <2>1
        <5>3. QED
          BY <4>1, <5>1, <5>2
      <4>2. CASE k # 1
        <5>1. k \in 2..N /\ 2 \in 1..N + 1 /\ k \in 1..N + 1
          BY <4>2, <1>2
        <5>2. at[2] <= at[k]
          <6>1. CASE k = 2
            BY <6>1, <5>1, <2>1
          <6>2. CASE k # 2
            <7>1. 2 < k
              BY <5>1, <6>2
            <7>2. at[2] < at[k] /\ at[2] \in Int /\ at[k] \in Int
              BY <7>1, <5>1, <2>1, <1>2 DEF Positions
            <7>3. QED
              BY <7>2
          <6>3. QED
            BY <6>1, <6>2
        <5>3. p < at[k]
          BY <5>1, <5>2, <3>4, <3>5, <2>1
        <5>4. at[k] \in Int /\ p \in Nat
          BY <5>1, <2>1
        <5>5. QED
          BY <5>3, <5>4
      <4>3. QED
        BY <4>1, <4>2
    <3>7. Fits(rest, at)
      BY <3>6 DEF Fits
    <3>8. QED
      BY <3>4, <3>5, <3>7, <2>2
  <2>3. CASE ~Begun
    <3>1. rest = <<>> /\ lo = 1 /\ at[1] = 1
      BY <2>3 DEF Positions
    <3>2. <<>> \in Seq(Unit) /\ Len(<<>>) = 0 /\ 1..0 = {}
      OBVIOUS
    <3> HIDE DEF rest, lo
    <3>3. Fits(rest, at)
      BY <3>1, <3>2 DEF Fits
    <3>4. QED
      BY <3>1, <3>2, <3>3
  <2>4. QED
    BY <2>2, <2>3
<1> HIDE DEF behind, rest, lo
<1>6. ASSUME NEW m \in Messages
      PROVE  /\ Frame(m) \in Seq(Unit) /\ Len(Frame(m)) = Size[m] + 1
             /\ \A j \in 1..Size[m] + 1 : Frame(m)[j] = IF j = 1 THEN Header(m) ELSE Piece(m)
  <2>1. PICK z \in Nat : z = Size[m]
    BY SizeType
  <2>2. PICK h \in Seq(Unit) : h = <<Header(m)>> /\ Len(h) = 1 /\ h[1] = Header(m)
    <3>1. Header(m) \in Unit
      BY DEF Header, Unit
    <3>2. QED
      BY <3>1, Single
  <2>3. PICK d \in Seq(Unit) : d = Data(m, z) /\ Len(d) = z /\ \A j \in 1..z : d[j] = Piece(m)
    BY <2>1, DataType
  <2>4. Frame(m) = h \o d
    BY <2>1, <2>2, <2>3 DEF Frame
  <2>5. /\ h \o d \in Seq(Unit) /\ Len(h \o d) = 1 + z
        /\ \A j \in 1..1 + z : /\ j <= 1 => (h \o d)[j] = h[j]
                               /\ ~(j <= 1) => (h \o d)[j] = d[j - 1]
    <3>1. /\ h \o d \in Seq(Unit) /\ Len(h \o d) = Len(h) + Len(d)
          /\ \A j \in 1..Len(h) + Len(d) : /\ j <= Len(h) => (h \o d)[j] = h[j]
                                           /\ ~(j <= Len(h)) => (h \o d)[j] = d[j - Len(h)]
      BY Joined
    <3>2. QED
      BY <3>1, <2>2, <2>3
  <2>6. ASSUME NEW j \in 1..z + 1
        PROVE  (h \o d)[j] = IF j = 1 THEN Header(m) ELSE Piece(m)
    <3>1. j \in 1..1 + z
      OBVIOUS
    <3>2. CASE j = 1
      BY <3>1, <3>2, <2>2, <2>5
    <3>3. CASE j # 1
      <4>1. ~(j <= 1) /\ j - 1 \in 1..z
        BY <3>3
      <4>2. QED
        BY <3>1, <3>3, <4>1, <2>3, <2>5
    <3>4. QED
      BY <3>2, <3>3
  <2>7. QED
    BY <2>1, <2>4, <2>5, <2>6
<1>7. Continues(frames, lo, 0)
  <2>1. PICK n \in Nat : n = Len(behind) /\ DOMAIN behind = 1..n /\ n = N - lo + 1
    BY <1>4
  <2>2. \A i \in 1..n : frames[i] = Frame(behind[i]) /\ frames[i] \in Seq(Unit)
    BY <2>1, <1>4, <1>6
  <2>3. frames \in Seq(Seq(Unit)) /\ Len(frames) = n
    <3>1. frames = [i \in 1..n |-> frames[i]]
      BY <2>1
    <3> HIDE DEF frames
    <3>2. QED
      BY <3>1, <2>2
  <2> HIDE DEF frames
  <2>4. ASSUME NEW i \in 1..n
        PROVE  LET m == inFlight[lo + i - 1]
                   skip == IF i = 1 THEN 0 ELSE 0
               IN /\ Len(frames[i]) = Size[m] + 1 - skip
                  /\ \A j \in 1..Len(frames[i]) :
                       frames[i][j] = IF j + skip = 1 THEN Header(m) ELSE Piece(m)
    <3>1. PICK m \in Messages : m = inFlight[lo + i - 1] /\ frames[i] = Frame(m)
      BY <2>1, <2>2, <1>4
    <3>2. Size[m] \in Nat
      BY SizeType
    <3>3. Size[m] + 1 - 0 = Size[m] + 1 /\ \A j \in 1..Size[m] + 1 : j + 0 = j
      BY <3>2
    <3>4. QED
      BY <3>1, <3>2, <3>3, <1>6
  <2>5. QED
    BY <2>1, <2>3, <2>4, <1>2 DEF Continues
<1> HIDE DEF frames
<1>8. Spells(rest \o FlattenSeq(frames), at)
  BY <1>2, <1>4, <1>5, <1>7, Continued
<1>9. QED
  BY <1>8 DEF behind, rest, frames

\* transport_uds_write_messages and transport_uds_message_receive agree on the
\* whole stream: what is in the socket and what is still to be sent, put
\* together, is the rest of the message being received and whole frames.
THEOREM WellFramed == Spec => []StreamFramed
<1>1. ASSUME Inv PROVE StreamFramed
  <2>1. PICK at : Positions(at) /\ Laid(at) /\ GoesOn(at)
    BY <1>1, Located
  <2>2. Spells(sock \o FlattenSeq(Unsent), at)
    BY <1>1, <2>1, SentSpells
  <2>3. QED
    BY <1>1, <2>1, <2>2, FramesSpell, SameSpelling DEF StreamFramed
<1>2. QED
  BY <1>1, Invariance, PTL

-----------------------------------------------------------------------------
(* Refinement *)

\* The message a step completes is the head of the channel's queue; no other
\* step of either process moves a message.
LEMMA ChannelStep ==
  ASSUME Inv, [Next]_vars
  PROVE  [C!Next]_C!vars
<1> USE DEF receiving, sending, C!vars
<1>1. CASE MessageInit \/ Cancel \/ HandleWriteable \/ WriteHeader \/ WriteFails \/ WriteDone
  <2>1. UNCHANGED receiving
    BY <1>1 DEF MessageInit, Cancel, HandleWriteable, WriteHeader, WriteFails, WriteDone
  <2>2. QED
    BY <2>1
<1>2. CASE WritePart \/ WriteRest
  <2>1. UNCHANGED receiving
    BY <1>2 DEF WritePart, WriteRest
  <2>2. QED
    BY <2>1
<1>3. ASSUME NEW m \in Messages, MessageSend(m) PROVE C!Send(m)
  <2>1. m \notin C!Queued /\ (held => m # in.msg)
    BY <1>3 DEF MessageSend, C!Queued, ToSet
  <2>2. QED
    BY <2>1, <1>3 DEF MessageSend, C!Send
<1>4. CASE ReceiveHeader
  <2>1. ~held
    BY <1>4 DEF ReceiveHeader, Inv, StreamInv, ReaderInv, Nothing
  <2>2. UNCHANGED <<held, inFlight>>
    BY <1>4 DEF ReceiveHeader
  <2>3. QED
    BY <2>1, <2>2
<1>5. CASE ReceiveMore
  BY <1>5 DEF ReceiveMore
<1>6. CASE ReceiveData
  <2> DEFINE missing == Size[in.msg] - in.got
             n == IF Len(sock) < missing THEN Len(sock) ELSE missing
  <2>1. Begun /\ ~held /\ inFlight # <<>> /\ in.msg = inFlight[1] /\ in.msg \in Messages
        /\ in.got < Size[in.msg] /\ in.got \in Nat /\ Size[in.msg] \in Nat
    <3>1. Begun /\ ~held /\ inFlight # <<>> /\ in.msg = inFlight[1] /\ in.msg \in Messages
          /\ in.got < Size[in.msg] /\ in.got \in Nat
      BY <1>6 DEF ReceiveData, Inv, TypeOK, StreamInv, ReaderInv, Begun
    <3>2. QED
      BY <3>1, SizeType
  <2>2. in'.msg = in.msg /\ held' = (n = missing)
        /\ inFlight' = IF 0 < n /\ n = missing THEN Tail(inFlight) ELSE inFlight
    BY <1>6 DEF ReceiveData, Inv, TypeOK
  <2>3. CASE n = missing
    <3>1. held' /\ inFlight' = Tail(inFlight)
      <4>1. 0 < missing
        BY <2>1
      <4>2. 0 < n
        BY <4>1, <2>3
      <4>3. QED
        BY <4>2, <2>2, <2>3
    <3>2. C!Receive
      BY <3>1, <2>1, <2>2 DEF C!Receive, Inv, TypeOK
    <3>3. QED
      BY <3>2 DEF C!Next
  <2>4. CASE n # missing
    BY <2>1, <2>2, <2>4
  <2>5. QED
    BY <2>3, <2>4
<1>7. CASE MessageRelease
  <2>1. in.msg \in Messages
    BY <1>7 DEF MessageRelease, Inv, TypeOK, StreamInv, ReaderInv
  <2>2. C!Release(in.msg)
    BY <1>7 DEF MessageRelease, C!Release
  <2>3. QED
    BY <2>1, <2>2 DEF C!Next
<1>8. CASE UNCHANGED vars
  BY <1>8 DEF vars
<1>9. QED
  BY <1>1, <1>2, <1>3, <1>4, <1>5, <1>6, <1>7, <1>8 DEF Next, C!Next

\* One direction of the socket transport is a message channel: what is sent is
\* handed out once, in order, and one message at a time.
THEOREM Implements == Spec => Refinement
<1>1. Init => C!Init
  BY DEF Init, C!Init
<1>2. Inv /\ [Next]_vars => [C!Next]_C!vars
  BY ChannelStep
<1>3. QED
  BY <1>1, <1>2, Invariance, PTL DEF Spec, Refinement, C!Spec
=============================================================================
