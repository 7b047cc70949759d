----------------------------- MODULE ShmEvents -----------------------------
(***************************************************************************)
(* The event manager of the shared-memory transport                        *)
(* (shmem/event_manager_shm.c) on one io_uring.  The process waits for     *)
(* messages with a futex wait on num_messages of each read arena, handles  *)
(* the completions in its event loop, and signals the messages it sends    *)
(* itself with a futex wake it submits to the same ring and whose          *)
(* completion it waits for.  The peers of the transports are the           *)
(* environment: they count a message (ShmArena's SendCount), then wake.    *)
(* The ring is external: a submitted request completes with an entry at    *)
(* the end of the completion queue.                                        *)
(***************************************************************************)
EXTENDS Integers, Sequences, FiniteSets

CONSTANTS
  Transports,     \* the transports of the process, all on one ring
  NoTransport,
  MaxArrivals,    \* bound: messages each peer sends
  MaxSends        \* bound: messages the process sends

ASSUME EventsAssumption ==
  /\ IsFiniteSet(Transports) /\ NoTransport \notin Transports
  /\ MaxArrivals \in Nat /\ MaxSends \in Nat

VARIABLES
  num,        \* num_messages of the read arena of each transport
  toWake,     \* messages a peer has counted and not yet signalled
  armed,      \* futex waits asleep in the kernel on each num_messages
  cq,         \* the completion queue, oldest entry first
  pc,         \* where the process is: in its loop, or in a call
  current,    \* the transport of that call
  arrivals,   \* messages sent by each peer
  sends       \* messages sent by the process

vars == <<num, toWake, armed, cq, pc, current, arrivals, sends>>

\* An entry: of a wait or of a wake-up, and of which transport's manager.
\* A wait that found messages there has the result -EAGAIN.
Results == {"woken", "-EAGAIN", "wake done"}
Entries == [of : Transports, res : Results]

TypeOK ==
  /\ num \in [Transports -> 0..MaxArrivals]
  /\ toWake \in [Transports -> 0..MaxArrivals]
  /\ armed \in [Transports -> Nat]
  /\ cq \in Seq(Entries)
  /\ pc \in {"loop", "receive", "rearm", "await"}
  /\ current \in Transports \cup {NoTransport}
  /\ arrivals \in [Transports -> 0..MaxArrivals]
  /\ sends \in 0..MaxSends

\* The application has found every arena empty and has called wait_messages.
Init ==
  /\ num = [t \in Transports |-> 0]
  /\ toWake = [t \in Transports |-> 0]
  /\ armed = [t \in Transports |-> 1]
  /\ cq = <<>>
  /\ pc = "loop" /\ current = NoTransport
  /\ arrivals = [t \in Transports |-> 0]
  /\ sends = 0

-----------------------------------------------------------------------------
(* The peers *)

PeerCount(t) ==
  /\ arrivals[t] < MaxArrivals
  /\ arrivals' = [arrivals EXCEPT ![t] = @ + 1]
  /\ num' = [num EXCEPT ![t] = @ + 1]
  /\ toWake' = [toWake EXCEPT ![t] = @ + 1]
  /\ UNCHANGED <<armed, cq, pc, current, sends>>

\* A wake-up of one waiter, if there is one.
PeerWake(t) ==
  /\ toWake[t] > 0
  /\ toWake' = [toWake EXCEPT ![t] = @ - 1]
  /\ IF armed[t] > 0
     THEN /\ armed' = [armed EXCEPT ![t] = @ - 1]
          /\ cq' = Append(cq, [of |-> t, res |-> "woken"])
     ELSE UNCHANGED <<armed, cq>>
  /\ UNCHANGED <<num, pc, current, arrivals, sends>>

-----------------------------------------------------------------------------
(* event_manager_shm_handle_event and event_manager_shm_wait_messages *)

\* (mutant) The retry branch as it reads: -EAGAIN waits again and receives
\* nothing.
HandleEventRetrying ==
  /\ pc = "loop"
  /\ cq # <<>>
  /\ cq' = Tail(cq)
  /\ current' = Head(cq).of
  /\ pc' = IF Head(cq).res = "-EAGAIN" THEN "rearm" ELSE "receive"
  /\ UNCHANGED <<num, toWake, armed, arrivals, sends>>

\* The loop takes an entry to the manager it belongs to.  handle_event
\* compares the result with EINTR and EAGAIN, and the kernel reports errors as
\* negative numbers: whatever the entry is, receive is called.
HandleEvent ==
  /\ pc = "loop"
  /\ cq # <<>>
  /\ cq' = Tail(cq)
  /\ current' = Head(cq).of
  /\ pc' = "receive"
  /\ UNCHANGED <<num, toWake, armed, arrivals, sends>>

\* (mutant) The counter is decremented without a look at it.
ReceiveUnchecked ==
  /\ pc = "receive"
  /\ num' = [num EXCEPT ![current] = @ - 1]
  /\ pc' = "rearm"
  /\ UNCHANGED <<toWake, armed, cq, current, arrivals, sends>>

\* transport_shm_message_receive (ShmArena has its steps).
ReceiveMessage ==
  /\ pc = "receive"
  /\ num' = [num EXCEPT ![current] = IF @ = 0 THEN 0 ELSE @ - 1]
  /\ pc' = "rearm"
  /\ UNCHANGED <<toWake, armed, cq, current, arrivals, sends>>

\* (mutant) The wait does not say which value it expects.
WaitUncompared(t) == armed' = [armed EXCEPT ![t] = @ + 1] /\ UNCHANGED cq

\* A futex wait for the counter to leave 0 is submitted: the kernel compares
\* and sleeps in one step.
Wait(t) ==
  IF num[t] = 0
  THEN armed' = [armed EXCEPT ![t] = @ + 1] /\ UNCHANGED cq
  ELSE cq' = Append(cq, [of |-> t, res |-> "-EAGAIN"]) /\ UNCHANGED armed

\* (mutant) The application waits again only when it got a message.
WaitMessagesIfEmpty ==
  /\ pc = "rearm"
  /\ IF num[current] > 0 THEN UNCHANGED <<armed, cq>> ELSE Wait(current)
  /\ pc' = "loop" /\ current' = NoTransport
  /\ UNCHANGED <<num, toWake, arrivals, sends>>

\* handle_event does not wait again: the application does, once per event.
WaitMessages ==
  /\ pc = "rearm"
  /\ Wait(current)
  /\ pc' = "loop" /\ current' = NoTransport
  /\ UNCHANGED <<num, toWake, arrivals, sends>>

-----------------------------------------------------------------------------
(* event_manager_shm_signal_new_message, at the end of message_send *)

\* The wake-up of the peer is submitted; it completes at once.
SignalSubmit(t) ==
  /\ pc = "loop"
  /\ sends < MaxSends
  /\ sends' = sends + 1
  /\ cq' = Append(cq, [of |-> t, res |-> "wake done"])
  /\ pc' = "await" /\ current' = t
  /\ UNCHANGED <<num, toWake, armed, arrivals>>

\* The oldest entry of the queue, of whichever request, is taken for the
\* completion and removed.
SignalComplete ==
  /\ pc = "await"
  /\ cq # <<>>
  /\ cq' = Tail(cq)
  /\ pc' = "loop" /\ current' = NoTransport
  /\ UNCHANGED <<num, toWake, armed, arrivals, sends>>

-----------------------------------------------------------------------------
Proceed == HandleEvent \/ ReceiveMessage \/ WaitMessages \/ SignalComplete

Next ==
  \/ HandleEvent \/ ReceiveMessage \/ WaitMessages \/ SignalComplete
  \/ \E t \in Transports : PeerCount(t) \/ PeerWake(t) \/ SignalSubmit(t)

Spec == Init /\ [][Next]_vars

\* The process runs its loop and a peer that has counted a message goes on to
\* wake.  Nobody has to send.
FairSpec ==
  /\ Spec
  /\ WF_vars(Proceed)
  /\ \A t \in Transports : WF_vars(PeerWake(t))

-----------------------------------------------------------------------------
\* The waits asleep, told apart.
Asleep == UNION {{t} \X (1..armed[t]) : t \in Transports}

\* Whatever completion a signal takes, another one is left in its place: over
\* all transports, the ring never runs out of events that lead to a wait, and
\* they do not pile up.  (A signal in progress counts for two: its own entry
\* and the call that will remove one.)
WaitsConserved ==
  Cardinality(Asleep) + Len(cq) + (IF pc = "loop" THEN 0 ELSE 1)
    = Cardinality(Transports) + IF pc = "await" THEN 2 ELSE 0

\* With a ring of its own, a process that has nothing to do has no message to
\* receive but those whose wake-up is still to come.
NoMissedWake ==
  cq = <<>> /\ pc = "loop" => \A t \in Transports : num[t] > 0 => toWake[t] > 0

\* A message that was counted is received in the end.
Drained == \A t \in Transports : num[t] > 0 ~> num[t] = 0

=============================================================================
