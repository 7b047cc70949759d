-------------------------------- MODULE Rpc --------------------------------
(***************************************************************************)
(* The RPC layer (rpc.c) of two processes connected by a transport.  A     *)
(* request takes an id from id_counter and, once sent, an entry of the     *)
(* sender's registry with the callback for its responses; the entry of a   *)
(* call goes with the first response, that of a subscription stays.  Each  *)
(* process uses its rpc from one thread (the registry has no lock); the    *)
(* processes interleave between any two calls, and between the send and    *)
(* the registration of a request.  A callback is code of the application:  *)
(* while it runs it may send, respond, receive, and destroy the rpc.       *)
(*                                                                         *)
(* The transport is external here and is a queue for each direction        *)
(* (MessageChannel); a socket gives out the next message only when the     *)
(* last one was destroyed.  So is the BSON library.  rpc.c writes the type *)
(* of a message as an int32 and reads it as an int64, for which libbson    *)
(* returns 0: reading = "zero".  With "value" the module says what rpc.c   *)
(* does with a type that is read as it was written.                        *)
(***************************************************************************)
EXTENDS Naturals, Sequences, FiniteSets

CONSTANTS
  Processes,
  PeerOf,          \* the process at the other end of the transport
  MaxIds,          \* bound: the last id each process takes
  MaxRequests,     \* bound: the ids all processes take
  MaxResponses,    \* bound: responses each process sends to a request
  MaxMishaps,      \* bound: cancels, unreadable messages, failed mallocs, and
                   \* rpcs that are destroyed
  MaxRunning,      \* bound: callbacks that run inside each other
  KeyValues,       \* ids the registry tells apart: its key is an int
  Readings         \* what reading an int32 as an int64 may return

ASSUME RpcAssumption ==
  /\ PeerOf \in [Processes -> Processes]
  /\ \A p \in Processes : PeerOf[p] # p /\ PeerOf[PeerOf[p]] = p
  /\ MaxIds \in [Processes -> Nat]
  /\ MaxResponses \in [Processes -> Nat]
  /\ {MaxRequests, MaxMishaps} \subseteq Nat
  /\ {KeyValues, MaxRunning} \subseteq Nat \ {0}
  /\ Readings \subseteq {"zero", "value"}

MESSAGE == 0
CALL == 1
SUBSCRIPTION == 2
RESPONSE == 3
UNREADABLE == 4      \* no id or no type can be found in the document

VARIABLES
  single,      \* the transport gives out one message at a time
  reading,     \* what reading an int32 as an int64 returns
  idCounter,   \* id_counter of each process
  writing,     \* ids of the requests being written
  typeOf,      \* the type each id taken was written with
  channel,     \* messages on their way to each process
  entries,     \* calls_registry.entries
  inHand,      \* messages the application has and has not released: as what
               \* each is read, and (history) as what it was sent
  kept,        \* messages that nobody has and that are not destroyed
  pc,          \* in the application, in rpc_message_send, or ended
  unregistered, \* the request whose rpc_message_send is not over
  running,     \* entries whose callback is running, innermost last
  mishaps,     \* how many of MaxMishaps have happened
  answers,     \* history: responses each process has sent, by request
  ran,         \* history: runs of the callback of each request
  reentered    \* history: requests whose callback was running when another
               \* response to them came, or when the rpc was destroyed

setting == <<single, reading>>
local == <<idCounter, writing, typeOf, unregistered>>
history == <<answers, ran, reentered>>
vars == <<setting, local, channel, entries, inHand, kept, pc, running, mishaps, history>>

Ids == UNION {1..MaxIds[p] : p \in Processes}
Taken(p) == 1..(idCounter[p] - 1)
AllTaken == UNION {{p} \X Taken(p) : p \in Processes}
Key(id) == id % KeyValues

\* The process that took the id of a message p has.
Asker(p, m) == IF m.sentAs = RESPONSE THEN p ELSE PeerOf[p]

TypeOK ==
  /\ single \in BOOLEAN /\ reading \in Readings
  /\ typeOf \in [Processes -> [Ids -> MESSAGE..SUBSCRIPTION]]
  /\ \A p \in Processes :
       /\ idCounter[p] \in 1..(MaxIds[p] + 1)
       /\ writing[p] \subseteq Taken(p)
       /\ channel[p] \in Seq([id : Ids, type : MESSAGE..UNREADABLE, nth : Nat])
       /\ entries[p] \subseteq [id : 0..(KeyValues - 1), type : {CALL, SUBSCRIPTION}, request : Taken(p)]
       /\ inHand[p] \subseteq [id : Ids, type : MESSAGE..SUBSCRIPTION,
                                sentAs : MESSAGE..RESPONSE, nth : Nat]
       /\ \A m \in inHand[p] : m.id \in Taken(Asker(p, m))
       /\ unregistered[p] \in Taken(p) \cup {0}
       /\ Len(running[p]) <= MaxRunning
       /\ \A i \in DOMAIN running[p] : running[p][i].request \in Taken(p)
  /\ pc \in [Processes -> {"application", "send", "overflow", "crashed", "undefined", "destroyed"}]
  /\ kept \in [Processes -> 0..MaxMishaps]
  /\ mishaps \in 0..MaxMishaps
  /\ \A p \in Processes : answers[p] \in [Ids -> 0..MaxResponses[p]]
  /\ ran \in [Processes -> [Ids -> Nat]]
  /\ reentered \in [Processes -> SUBSET Ids]

\* rpc_init on both sides
Init ==
  /\ single \in BOOLEAN /\ reading \in Readings
  /\ idCounter = [p \in Processes |-> 1]
  /\ writing = [p \in Processes |-> {}]
  /\ typeOf = [p \in Processes |-> [i \in Ids |-> MESSAGE]]
  /\ channel = [p \in Processes |-> <<>>]
  /\ entries = [p \in Processes |-> {}]
  /\ inHand = [p \in Processes |-> {}]
  /\ kept = [p \in Processes |-> 0]
  /\ pc = [p \in Processes |-> "application"]
  /\ unregistered = [p \in Processes |-> 0]
  /\ running = [p \in Processes |-> <<>>]
  /\ mishaps = 0
  /\ answers = [p \in Processes |-> [i \in Ids |-> 0]]
  /\ ran = [p \in Processes |-> [i \in Ids |-> 0]]
  /\ reentered = [p \in Processes |-> {}]

-----------------------------------------------------------------------------
(* Requests *)

Mishap == mishaps < MaxMishaps /\ mishaps' = mishaps + 1

\* The message nth of its type for this id.
Transmit(p, id, type, nth) ==
  channel' = [channel EXCEPT ![PeerOf[p]] = Append(@, [id |-> id, type |-> type, nth |-> nth])]

\* What reads as empty, because a nested writer was not ended when it was sent.
TransmitOpen(p, id) == Transmit(p, id, UNREADABLE, 0) /\ Mishap

TransmitRequest(p, id) ==
  \/ Transmit(p, id, typeOf[p][id], 0) /\ UNCHANGED mishaps
  \/ TransmitOpen(p, id)

\* rpc_message, rpc_call and rpc_subscribe: a writer with an id of its own.
\* (When there is no memory for it, no id is taken: nothing changes here.)
Open(p, type) ==
  LET id == idCounter[p] IN
  /\ pc[p] = "application"
  /\ id <= MaxIds[p] /\ Cardinality(AllTaken) < MaxRequests
  /\ idCounter' = [idCounter EXCEPT ![p] = @ + 1]
  /\ typeOf' = [typeOf EXCEPT ![p][id] = type]
  /\ writing' = [writing EXCEPT ![p] = @ \cup {id}]
  /\ UNCHANGED <<setting, unregistered, channel, entries, inHand, kept, pc, running, mishaps, history>>

\* The writer of rpc_message is the transport's own: nothing is registered.
SendMessage(p, id) ==
  /\ pc[p] = "application"
  /\ id \in writing[p] /\ typeOf[p][id] = MESSAGE
  /\ writing' = [writing EXCEPT ![p] = @ \ {id}]
  /\ TransmitRequest(p, id)
  /\ UNCHANGED <<setting, idCounter, typeOf, unregistered, entries, inHand, kept, pc, running, history>>

\* rpc_message_send: the transport sends the request first ...
SendRequest(p, id) ==
  /\ pc[p] = "application"
  /\ id \in writing[p] /\ typeOf[p][id] # MESSAGE
  /\ writing' = [writing EXCEPT ![p] = @ \ {id}]
  /\ TransmitRequest(p, id)
  /\ pc' = [pc EXCEPT ![p] = "send"]
  /\ unregistered' = [unregistered EXCEPT ![p] = id]
  /\ UNCHANGED <<setting, idCounter, typeOf, entries, inHand, kept, running, history>>

\* ... and then its entry is added.  The key is the id cut to an int, and an
\* entry with the same key may already be there.
Register(p) ==
  LET id == unregistered[p] IN
  /\ pc[p] = "send"
  /\ entries' = [entries EXCEPT ![p] =
                   @ \cup {[id |-> Key(id), type |-> typeOf[p][id], request |-> id]}]
  /\ pc' = [pc EXCEPT ![p] = "application"]
  /\ unregistered' = [unregistered EXCEPT ![p] = 0]
  /\ UNCHANGED <<setting, idCounter, writing, typeOf, channel, inHand, kept, running, mishaps, history>>

\* There is no memory for the entry, and nothing checks that.
RegisterFails(p) ==
  /\ pc[p] = "send"
  /\ Mishap
  /\ pc' = [pc EXCEPT ![p] = "crashed"]
  /\ unregistered' = [unregistered EXCEPT ![p] = 0]
  /\ UNCHANGED <<setting, idCounter, writing, typeOf, channel, entries, inHand, kept, running, history>>

\* message_cancel on the writer of a request calls rpc_message_cancel, which
\* calls message_cancel on the same writer, until the stack is used up.
Cancel(p, id) ==
  /\ pc[p] = "application"
  /\ id \in writing[p] /\ typeOf[p][id] # MESSAGE
  /\ Mishap
  /\ pc' = [pc EXCEPT ![p] = "overflow"]
  /\ UNCHANGED <<setting, local, channel, entries, inHand, kept, running, history>>

-----------------------------------------------------------------------------
(* Incoming messages *)

\* bson_iter_int64 on the type field.
Read(type) == IF reading = "zero" THEN MESSAGE ELSE type

Held(p) == Cardinality(inHand[p]) + Len(running[p]) + kept[p]

\* The transport has a message for rpc_handle_incoming_message.
Incoming(p) ==
  /\ pc[p] = "application"
  /\ channel[p] # <<>>
  /\ single => Held(p) = 0

Take(p) == channel' = [channel EXCEPT ![p] = Tail(@)]

Found(p, id) == {e \in entries[p] : e.id = Key(id)}

\* A response is given to the callback of an entry with its key: among several,
\* of the one the table finds.
RunCallback(p, e) ==
  /\ Len(running[p]) < MaxRunning
  /\ ran' = [ran EXCEPT ![p][e.request] = @ + 1]
  /\ running' = [running EXCEPT ![p] = Append(@, e)]
  /\ reentered' = [reentered EXCEPT ![p] =
       IF \E i \in DOMAIN running[p] : running[p][i] = e THEN @ \cup {e.request} ELSE @]

\* (mutant) The entry of a call goes before its callback runs.
HandleResponseFreeingFirst(p, id) ==
  /\ Take(p)
  /\ IF Found(p, id) = {}
     THEN UNCHANGED <<entries, running, ran, reentered>>
     ELSE \E e \in Found(p, id) :
            /\ RunCallback(p, e)
            /\ entries' = IF e.type = CALL THEN [entries EXCEPT ![p] = @ \ {e}] ELSE entries
  /\ UNCHANGED inHand

\* (mutant) A response nobody waits for is not destroyed: the transport does
\* not go on to the next one.
HandleResponseHolding(p, id) ==
  /\ Found(p, id) # {}
  /\ Take(p)
  /\ \E e \in Found(p, id) : RunCallback(p, e)
  /\ UNCHANGED <<entries, inHand>>

\* (mutant) A response nobody waits for is given to the application.
HandleResponsePassing(p, id) ==
  /\ Take(p)
  /\ IF Found(p, id) = {}
     THEN /\ inHand' = [inHand EXCEPT ![p] =
                          @ \cup {[id |-> id, type |-> RESPONSE, sentAs |-> RESPONSE, nth |-> 1]}]
          /\ UNCHANGED <<running, ran, reentered>>
     ELSE (\E e \in Found(p, id) : RunCallback(p, e)) /\ UNCHANGED inHand
  /\ UNCHANGED entries

\* A response without an entry is destroyed.
HandleResponse(p, id) ==
  /\ Take(p)
  /\ IF Found(p, id) = {}
     THEN UNCHANGED <<running, ran, reentered>>
     ELSE \E e \in Found(p, id) : RunCallback(p, e)
  /\ UNCHANGED <<entries, inHand>>

\* (mutant) The entry of a call stays after its response.
CallbackReturnsKeeping(p) ==
  LET e == running[p][Len(running[p])] IN
  /\ pc[p] \in {"application", "destroyed"} /\ running[p] # <<>>
  /\ running' = [running EXCEPT ![p] = SubSeq(@, 1, Len(@) - 1)]
  /\ UNCHANGED <<entries, pc>>
  /\ UNCHANGED <<setting, local, channel, inHand, kept, mishaps, history>>

\* (mutant) The entry of a subscription goes with a response, too.
CallbackReturnsDropping(p) ==
  LET e == running[p][Len(running[p])] IN
  /\ pc[p] \in {"application", "destroyed"} /\ running[p] # <<>>
  /\ running' = [running EXCEPT ![p] = SubSeq(@, 1, Len(@) - 1)]
  /\ IF e \in entries[p]
     THEN entries' = [entries EXCEPT ![p] = @ \ {e}] /\ UNCHANGED pc
     ELSE pc' = [pc EXCEPT ![p] = "undefined"] /\ UNCHANGED entries
  /\ UNCHANGED <<setting, local, channel, inHand, kept, mishaps, history>>

\* The callback returns.  The entry is looked at, which may have been freed
\* while it ran; the entry of a call goes.  The message is destroyed.
CallbackReturns(p) ==
  LET e == running[p][Len(running[p])] IN
  /\ pc[p] \in {"application", "destroyed"} /\ running[p] # <<>>
  /\ running' = [running EXCEPT ![p] = SubSeq(@, 1, Len(@) - 1)]
  /\ IF e \in entries[p]
     THEN /\ entries' = IF e.type = CALL THEN [entries EXCEPT ![p] = @ \ {e}] ELSE entries
          /\ UNCHANGED pc
     ELSE pc' = [pc EXCEPT ![p] = "undefined"] /\ UNCHANGED entries
  /\ UNCHANGED <<setting, local, channel, inHand, kept, mishaps, history>>

\* What is not read as a response is given to the application.
HandRequest(p, m) ==
  /\ Take(p)
  /\ inHand' = [inHand EXCEPT ![p] =
       @ \cup {[id |-> m.id, type |-> Read(m.type), sentAs |-> m.type, nth |-> m.nth]}]
  /\ UNCHANGED <<entries, running, ran, reentered>>

\* rpc_handle_incoming_message on the next message the transport receives.
HandleIncomingMessage(p) ==
  /\ Incoming(p)
  /\ LET m == Head(channel[p])
     IN /\ m.type # UNREADABLE
        /\ IF Read(m.type) = RESPONSE THEN HandleResponse(p, m.id) ELSE HandRequest(p, m)
  /\ UNCHANGED <<setting, local, kept, pc, mishaps, answers>>

\* A message without an id or a type, and one for which there is no memory, is
\* not handed over; it is not destroyed, either.
KeepMessage(p) ==
  /\ Incoming(p)
  /\ \/ Head(channel[p]).type = UNREADABLE /\ UNCHANGED mishaps
     \/ /\ Head(channel[p]).type # UNREADABLE
        /\ Read(Head(channel[p]).type) # RESPONSE
        /\ Mishap
  /\ Take(p)
  /\ kept' = [kept EXCEPT ![p] = @ + 1]
  /\ UNCHANGED <<setting, local, entries, inHand, pc, running, history>>

\* rpc_message_respond and message_send: to a request of any type, as often as
\* the application likes while it has the message.  (An application does not
\* respond to what was sent as a response.)
Respond(p, m) ==
  /\ pc[p] = "application"
  /\ m \in inHand[p] /\ m.sentAs # RESPONSE
  /\ \/ /\ answers[p][m.id] < MaxResponses[p]
        /\ Transmit(p, m.id, RESPONSE, answers[p][m.id] + 1)
        /\ answers' = [answers EXCEPT ![p][m.id] = @ + 1]
        /\ UNCHANGED mishaps
     \/ TransmitOpen(p, m.id) /\ UNCHANGED answers
  /\ UNCHANGED <<setting, local, entries, inHand, kept, pc, running, ran, reentered>>

\* rpc_message_release
Release(p, m) ==
  /\ pc[p] = "application"
  /\ m \in inHand[p]
  /\ inHand' = [inHand EXCEPT ![p] = @ \ {m}]
  /\ UNCHANGED <<setting, local, channel, entries, kept, pc, running, mishaps, history>>

\* rpc_destroy, when the application has no message and no writer of it left:
\* all entries are freed.  Nothing says that a callback may not do it.
DestroyRpc(p) ==
  /\ pc[p] = "application"
  /\ inHand[p] = {} /\ writing[p] = {}
  /\ Mishap
  /\ entries' = [entries EXCEPT ![p] = {}]
  /\ pc' = [pc EXCEPT ![p] = "destroyed"]
  /\ reentered' = [reentered EXCEPT ![p] =
                     @ \cup {running[p][i].request : i \in DOMAIN running[p]}]
  /\ UNCHANGED <<setting, local, channel, inHand, kept, running, answers, ran>>

-----------------------------------------------------------------------------
Next == \E p \in Processes :
  \/ \E type \in MESSAGE..SUBSCRIPTION : Open(p, type)
  \/ \E id \in writing[p] : SendMessage(p, id) \/ SendRequest(p, id) \/ Cancel(p, id)
  \/ Register(p) \/ RegisterFails(p)
  \/ HandleIncomingMessage(p) \/ KeepMessage(p) \/ CallbackReturns(p)
  \/ \E m \in inHand[p] : Respond(p, m) \/ Release(p, m)
  \/ DestroyRpc(p)

Spec == Init /\ [][Next]_vars

\* A process takes what its transport receives, returns from send and from its
\* callbacks, and releases what it has.
FairSpec ==
  Spec /\ \A p \in Processes :
            /\ WF_vars(HandleIncomingMessage(p) \/ KeepMessage(p))
            /\ WF_vars(Register(p) \/ RegisterFails(p))
            /\ WF_vars(CallbackReturns(p))
            /\ WF_vars(\E m \in inHand[p] : Release(p, m))

-----------------------------------------------------------------------------
\* Responses that can be read: on their way to p, and arrived there.
OnTheirWay(p, id) ==
  Cardinality({i \in DOMAIN channel[p] : channel[p][i].id = id /\ channel[p][i].type = RESPONSE})

Received(p, id) == answers[PeerOf[p]][id] - OnTheirWay(p, id)

\* How often a callback has to have run when so many responses have arrived.
Due(type, received) ==
  CASE type = SUBSCRIPTION -> received
    [] type = CALL -> (IF received = 0 THEN 0 ELSE 1)
    [] type = MESSAGE -> 0

SharesKey(p, id) == \E other \in Taken(p) \ {id} : Key(other) = Key(id)

\* However the two sides interleave, a response that can be read runs the
\* callback of its own request, when its type is read as it was written: of a
\* subscription each time, of a call the first time, of a message never.  One
\* sent between the send and the registration of its request is not missed.
\* When every type is read as 0, as rpc.c does, no callback ever runs.
\* (Not covered: a request whose callback handles another response to it, which
\* is called again, and two requests with one key in the registry.)
AnswersDelivered ==
  \A p \in Processes : \A id \in Taken(p) \ reentered[p] :
    SharesKey(p, id)
      \/ ran[p][id] = IF reading = "zero" THEN 0 ELSE Due(typeOf[p][id], Received(p, id))

\* The registry holds the subscriptions that were sent, and the calls whose
\* callback has not returned; nothing else stays there.
Sent(p) == Taken(p) \ (writing[p] \cup {unregistered[p]})
Running(p) == {running[p][i].request : i \in DOMAIN running[p]}

RegistryExact ==
  \A p \in Processes : pc[p] \in {"application", "send"} =>
    {e.request : e \in entries[p]} \ reentered[p] =
      {id \in Sent(p) : \/ typeOf[p][id] = SUBSCRIPTION
                        \/ typeOf[p][id] = CALL /\ (ran[p][id] = 0 \/ id \in Running(p))}
        \ reentered[p]

\* The entry of a callback is there while it runs, for rpc_handle_incoming_message
\* to look at afterwards: only a second response to a call, handled inside its
\* callback, and an rpc that is destroyed there free it.
EntryOutlivesCallback ==
  \A p \in Processes : \A i \in DOMAIN running[p] :
    running[p][i] \in entries[p] \/ running[p][i].request \in reentered[p]

\* A process that goes on gets to the end of what is on its way to it, unless
\* its transport waits for a message that was not destroyed.
Ended == {"overflow", "crashed", "undefined", "destroyed"}

Handled ==
  \A p \in Processes :
    channel[p] # <<>> ~> (channel[p] = <<>> \/ pc[p] \in Ended \/ (single /\ kept[p] > 0))

-----------------------------------------------------------------------------
\* What a test of the repository says, and the code does not do: a message is
\* handed out with the type it was sent with.
TypeCarried ==
  \A p \in Processes : \A m \in inHand[p] : m.type = m.sentAs
=============================================================================
