-------------------------- MODULE MessageChannel ---------------------------
(***************************************************************************)
(* What one direction of a krossbar transport promises (transport.h): a    *)
(* message given to message_send is handed out by message_receive once,    *)
(* after those sent before it, and its contents stay as they were sent     *)
(* until the receiver releases it.                                         *)
(***************************************************************************)
EXTENDS Sequences

CONSTANT Messages

VARIABLES
  queue,       \* messages sent and not yet received, oldest first
  held         \* messages received and not yet released

vars == <<queue, held>>

Queued == {queue[i] : i \in DOMAIN queue}

Init == queue = <<>> /\ held = {}

Send(m) ==
  /\ m \notin Queued \cup held
  /\ queue' = Append(queue, m)
  /\ UNCHANGED held

Receive ==
  /\ queue # <<>>
  /\ queue' = Tail(queue)
  /\ held' = held \cup {Head(queue)}

Release(m) ==
  /\ m \in held
  /\ held' = held \ {m}
  /\ UNCHANGED queue

Next == Receive \/ (\E m \in Messages : Send(m) \/ Release(m))

Spec == Init /\ [][Next]_vars
=============================================================================
