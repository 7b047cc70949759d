------------------------------- MODULE Client -------------------------------
(***************************************************************************)
(* Two processes that use the library from init to destroy: the message    *)
(* writers and messages of both transports (message_writer.c, message.c,   *)
(* message_writer_shm.c, message_shm.c, message_writer_uds.c,              *)
(* message_uds.c), composed of the life of a transport (TransportLife) and *)
(* the documents of its messages (Documents).  One process writes          *)
(* messages, the other reads them.                                         *)
(*                                                                         *)
(* How a transport moves messages is modelled by ShmArena, ShmEvents and   *)
(* UdsTransport: here a message that is sent is in the mapping or, of a    *)
(* socket, in the queue of its process until the socket takes it.          *)
(***************************************************************************)
EXTENDS Documents, TransportLife

CONSTANTS
  Sender,
  Scenarios        \* bounds: room in a buffer, messages, failures, sizes

ASSUME ClientAssumption ==
  /\ Sender \in Processes
  /\ Scenarios \subseteq [room : Nat, messages : Nat, failures : Nat,
                     sizes : SUBSET BufferSizes]

Receiver == PeerOf[Sender]

VARIABLES
  scenario,    \* the bounds of this behaviour
  outgoing,    \* out_messages of the sender's socket, oldest first
  channel,     \* messages in the mapping, or in the socket
  held,        \* messages the receiver has not destroyed
  sent,        \* history: messages sent
  received     \* history: messages received, by number

client == <<scenario, outgoing, channel, held, sent, received>>
vars == <<writing, reading, life, client>>

\* A message: its number, the fields of its document, and whether the document
\* can be read (a nested writer may have been left open).
Message == [number : Nat, written : Seq(Field), valid : BOOLEAN]

TypeOK ==
  /\ DocumentsTypeOK
  /\ LifeTypeOK
  /\ scenario \in Scenarios
  /\ outgoing \in Seq(Message)
  /\ channel \in Seq(Message)
  /\ held \in Seq(Message) /\ Len(held) <= 1
  /\ sent \in 0..scenario.messages
  /\ received \in Seq(Nat)

Init ==
  /\ LifeInit
  /\ writer = "none" /\ room = 0 /\ elements = <<>> /\ inner = FALSE /\ open = <<>> /\ misused = FALSE
  /\ reader = "none" /\ document = <<>> /\ cursor = 0 /\ lookups = <<>>
  /\ scenario \in Scenarios
  /\ failuresLeft = scenario.failures
  /\ outgoing = <<>> /\ channel = <<>> /\ held = <<>>
  /\ sent = 0 /\ received = <<>>

-----------------------------------------------------------------------------
(* The sender *)

Writing == at[Sender] = "up" /\ writer = "writer"

\* transport_message_init: whatever doc_writer_from_buffer returns is put into
\* the message writer, which is handed out also when that is NULL (its buffer
\* and logger are not set then).
MessageInit ==
  /\ at[Sender] = "up"
  /\ sent < scenario.messages
  /\ FromBuffer(scenario.room)
  /\ UNCHANGED <<reading, life, client>>

\* Something is written with a writer that is none, or with the dangling
\* addresses in one.
WriterMisleads ==
  /\ at[Sender] = "up" /\ writer # "none"
  /\ Reach(Sender, Mislead)
  /\ UNCHANGED <<writing, reading, client, kind, bufferSize, fields, owned, pages, totalSize,
                 ring, failuresLeft>>

WriteDocument ==
  /\ Writing
  /\ \/ \E key \in Keys : \/ \E type \in ScalarTypes : DocAppend(key, type)
                          \/ DocDocumentBegin(key)
                          \/ DocArrayBegin(key)
     \/ \E type \in ScalarTypes : ArrAppend(type)
     \/ ArrDocumentBegin \/ ArrArrayBegin
     \/ DocDocumentEnd \/ ArrFinish \/ ArrDocumentEnd \/ ArrArrayEnd
  /\ UNCHANGED <<reading, life, client>>

Ready == [number |-> sent + 1, written |-> elements, valid |-> Valid]

\* message_send, also with nested writers that are not ended.  (Without a writer
\* it ends as WriterMisleads says: the size is taken from it first.)  The message
\* writer is freed, the document writer is not.  The first message in the queue
\* of a socket asks for a writeable event.
MessageSend ==
  /\ Writing
  /\ IF kind = "shm"
     THEN channel' = Append(channel, Ready) /\ UNCHANGED <<outgoing, ring>>
     ELSE /\ outgoing' = Append(outgoing, Ready)
          /\ ring' = [ring EXCEPT ![Sender] = @ \cup {"write"}]
          /\ UNCHANGED channel
  /\ sent' = sent + 1
  /\ Discard
  /\ UNCHANGED <<reading, kind, at, bufferSize, fields, owned, pages, totalSize,
                 failuresLeft, scenario, held, received>>

\* message_cancel frees the message writer and then takes the document writer
\* from it: it is there still, or it is not.  Only a writer passes the assertion
\* then; with no document writer a socket's buffer, which is freed too, is not
\* set.
MessageCancel ==
  /\ at[Sender] = "up" /\ writer # "none"
  /\ \/ writer = "writer" /\ UNCHANGED at
     \/ writer = "null" /\ Reach(Sender, "aborted")
     \/ Reach(Sender, "undefined")
  /\ Discard
  /\ UNCHANGED <<reading, client, kind, bufferSize, fields, owned, pages, totalSize, ring,
                 failuresLeft>>

\* The end of p's socket is closed.
Closed(p) == kind = "uds" /\ at[p] # "none" /\ "socket" \notin owned[p]

CanWrite == kind = "uds" /\ at[Sender] = "up" /\ "write" \in ring[Sender]

\* (mutant) The socket is written from the end of the queue.
WriteMessagesLast ==
  /\ CanWrite /\ ~Closed(Receiver)
  /\ \E n \in 1..Len(outgoing) :
       /\ channel' = channel \o SubSeq(outgoing, Len(outgoing) - n + 1, Len(outgoing))
       /\ outgoing' = SubSeq(outgoing, 1, Len(outgoing) - n)
  /\ ring' = [ring EXCEPT ![Sender] = IF outgoing' = <<>> THEN @ \ {"write"} ELSE @]
  /\ UNCHANGED <<writing, reading, kind, at, bufferSize, fields, owned, pages, totalSize,
                 failuresLeft, scenario, held, sent, received>>

\* transport_uds_write_messages, when the socket takes some of the messages.
WriteMessages ==
  /\ CanWrite /\ ~Closed(Receiver)
  /\ \E n \in 1..Len(outgoing) :
       /\ channel' = channel \o SubSeq(outgoing, 1, n)
       /\ outgoing' = SubSeq(outgoing, n + 1, Len(outgoing))
  /\ ring' = [ring EXCEPT ![Sender] = IF outgoing' = <<>> THEN @ \ {"write"} ELSE @]
  /\ UNCHANGED <<writing, reading, kind, at, bufferSize, fields, owned, pages, totalSize,
                 failuresLeft, scenario, held, sent, received>>

\* The other process has destroyed its transport: send raises SIGPIPE, which
\* nothing ignores.
WriteToClosed ==
  /\ CanWrite /\ Closed(Receiver)
  /\ Reach(Sender, "killed")
  /\ UNCHANGED <<writing, reading, client, kind, bufferSize, fields, owned, pages, totalSize,
                 ring, failuresLeft>>

-----------------------------------------------------------------------------
(* The receiver *)

\* event_manager_shm_wait_messages; a socket asks again with every event.
WaitMessages ==
  /\ kind = "shm" /\ at[Receiver] = "up" /\ ring[Receiver] = {}
  /\ ring' = [ring EXCEPT ![Receiver] = {"read"}]
  /\ UNCHANGED <<writing, reading, client, kind, at, bufferSize, fields, owned, pages, totalSize,
                 failuresLeft>>

\* The event of a message: the next message.  (The receiver destroys a message
\* before it receives the next: with sockets it has to.)
MessageReceive ==
  /\ at[Receiver] = "up" /\ "read" \in ring[Receiver]
  /\ channel # <<>> /\ held = <<>>
  /\ held' = <<Head(channel)>>
  /\ channel' = Tail(channel)
  /\ received' = Append(received, Head(channel).number)
  /\ ring' = [ring EXCEPT ![Receiver] = IF kind = "shm" THEN {} ELSE @]
  /\ UNCHANGED <<writing, reading, kind, at, bufferSize, fields, owned, pages, totalSize,
                 failuresLeft, scenario, outgoing, sent>>

\* document_from_data with the bytes of the message.  (Nothing in src/ calls it
\* for a received message: this is the application's use of document.h.)
OpenDocument ==
  /\ at[Receiver] = "up" /\ held # <<>>
  /\ FromData(held[1].written, held[1].valid)
  /\ UNCHANGED <<writing, life, client>>

ReadDocument ==
  /\ at[Receiver] = "up"
  /\ \E key \in Keys : DocumentLookUp(key) \/ \E type \in ScalarTypes : DocumentGet(key, type)
  /\ UNCHANGED <<writing, life, client>>

\* All functions of document.c assert that they have a document.
ReadNothing ==
  /\ at[Receiver] = "up" /\ reader = "null"
  /\ Reach(Receiver, "aborted")
  /\ UNCHANGED <<writing, reading, client, kind, bufferSize, fields, owned, pages, totalSize,
                 ring, failuresLeft>>

CloseDocument ==
  /\ at[Receiver] = "up"
  /\ Close
  /\ UNCHANGED <<writing, life, client>>

\* message_destroy, when no document looks at its bytes any more.
MessageDestroy ==
  /\ at[Receiver] = "up" /\ held # <<>> /\ reader = "none"
  /\ held' = <<>>
  /\ UNCHANGED <<writing, reading, life, scenario, outgoing, channel, sent, received>>

-----------------------------------------------------------------------------
\* Whether p is about to make a message writer, to queue a message for its
\* socket or to make the message it receives.
Allocates(p) ==
  /\ at[p] = "up"
  /\ \/ p = Sender /\ writer = "none" /\ sent < scenario.messages
     \/ p = Sender /\ writer = "writer" /\ kind = "uds"
     \/ p = Receiver /\ "read" \in ring[p] /\ channel # <<>> /\ held = <<>>

\* There is no memory for that: what malloc returns is used unseen.
NoMemory(p) ==
  /\ Allocates(p)
  /\ MayFail
  /\ Reach(p, "undefined")
  /\ UNCHANGED <<writing, reading, client, kind, bufferSize, fields, owned, pages, totalSize, ring>>

\* An application destroys a transport when it has no writer and no message of
\* it.  What a socket's queue still has is freed.
TransportDestroy(p) ==
  /\ at[p] = "up"
  /\ p = Sender => writer = "none"
  /\ p = Receiver => held = <<>>
  /\ Destroy(p, owned[p], "gone")
  /\ outgoing' = IF p = Sender THEN <<>> ELSE outgoing
  /\ UNCHANGED <<writing, reading, kind, bufferSize, fields, totalSize, ring, failuresLeft,
                 scenario, channel, held, sent, received>>

Next ==
  \/ \E p \in Processes : \/ LifeNext(p, scenario.sizes) /\ UNCHANGED <<writing, reading, client>>
                          \/ NoMemory(p)
                          \/ TransportDestroy(p)
  \/ MessageInit \/ WriterMisleads \/ WriteDocument \/ MessageSend \/ MessageCancel
  \/ WriteMessages \/ WriteToClosed
  \/ WaitMessages \/ MessageReceive
  \/ OpenDocument \/ ReadDocument \/ ReadNothing \/ CloseDocument \/ MessageDestroy

Spec == Init /\ [][Next]_vars

-----------------------------------------------------------------------------
\* The fields an application has asked a document for are found as long as they
\* were written in that order, other fields between them or not; after the first
\* that is out of order none is found.
Asked(n) == [i \in 1..n |-> lookups[i].key]
KeysOf(fs) == [i \in DOMAIN fs |-> fs[i].key]

ReadInOrder ==
  reader = "document" =>
    \A n \in DOMAIN lookups :
      lookups[n].outcome # "absent" <=> IsSubsequenceOf(Asked(n), KeysOf(held[1].written))

\* Messages are received in the order they were sent, and none is missing: but
\* a socket's queue is lost with its transport.
Numbers(ms) == [i \in DOMAIN ms |-> ms[i].number]

SentMessagesSurvive ==
  LET all == received \o Numbers(channel) \o Numbers(outgoing)
      order == [i \in 1..sent |-> i]
  IN /\ IsPrefix(all, order)
     /\ kind = "shm" \/ at[Sender] = "up" => all = order
=============================================================================
