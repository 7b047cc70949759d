----------------------------- MODULE ShmArena ------------------------------
(***************************************************************************)
(* One arena of the shared-memory transport (shmem/transport_shm.c): the   *)
(* memory through which the threads of one process send messages to the    *)
(* threads of another.  Messages are blocks of the arena chained in a      *)
(* list; `first` and `last` are its ends, `num` its counter, which the     *)
(* receiver reads without the lock and both sides change without it.       *)
(*                                                                         *)
(* One action is one access to shared memory, or the accesses of one       *)
(* critical section that nothing outside it can tell apart.  The lock is   *)
(* the abstract Mutex that FutexLock implements; the allocator is the set  *)
(* of free blocks it hands out (ShmAllocator has its detail).              *)
(***************************************************************************)
EXTENDS Naturals, Sequences, FiniteSets

CONSTANTS
  Senders,      \* threads that call transport_shm_message_send
  Receivers,    \* threads that call transport_shm_message_receive
  NoThread,     \* the lock is free
  Blocks,       \* the blocks of the arena
  NULL,         \* NULL_OFFSET
  Messages,     \* what a block can carry
  CountMax      \* the largest value of num_messages, a uint32_t

ASSUME ArenaAssumption ==
  /\ Senders \cap Receivers = {}
  /\ NoThread \notin Senders \cup Receivers
  /\ NULL \notin Blocks
  /\ IsFiniteSet(Blocks) /\ IsFiniteSet(Senders) /\ IsFiniteSet(Receivers)
  /\ CountMax \in Nat /\ Cardinality(Blocks) <= CountMax

VARIABLES
  first, last,  \* first_message_offset, last_message_offset
  next,         \* next_message_offset of each block
  num,          \* num_messages
  lock,         \* the thread inside the arena's critical section
  body,         \* what each block carries
  free,         \* the blocks the allocator can hand out
  held,         \* the blocks received and not yet released
  cancelled,    \* the blocks of writers that were cancelled
  pc,           \* where each thread is
  blk,          \* a sender's message_header, a receiver's incoming_message
  seen,         \* a sender's last_message_offset
  list          \* history: the blocks linked and not yet unlinked, in order

shared == <<first, last, next, num>>
vars == <<first, last, next, num, lock, body, free, held, cancelled, pc, blk, seen, list>>

Threads == Senders \cup Receivers
BlockOrNull == Blocks \cup {NULL}

L == INSTANCE Mutex WITH owner <- lock

SenderLabels == {"idle", "writing", "link", "store", "count"}
ReceiverLabels == {"idle", "peek", "lock", "unlink", "unlock", "count", "aborted"}

TypeOK ==
  /\ first \in BlockOrNull /\ last \in BlockOrNull
  /\ next \in [Blocks -> BlockOrNull]
  /\ num \in 0..CountMax
  /\ lock \in Threads \cup {NoThread}
  /\ body \in [Blocks -> Messages]
  /\ free \subseteq Blocks /\ held \subseteq Blocks /\ cancelled \subseteq Blocks
  /\ pc \in [Threads -> SenderLabels \cup ReceiverLabels]
  /\ \A s \in Senders : pc[s] \in SenderLabels
  /\ \A r \in Receivers : pc[r] \in ReceiverLabels
  /\ blk \in [Threads -> BlockOrNull]
  /\ \A s \in Senders : pc[s] # "idle" => blk[s] \in Blocks
  /\ \A r \in Receivers : pc[r] \in {"lock", "unlink", "unlock", "count"} => blk[r] \in Blocks
  /\ seen \in [Senders -> BlockOrNull]
  /\ list \in Seq(Blocks)

\* transport_shm_create_mapping, then transport_shm_init by the writing side.
\* What fresh memory holds does not matter: any message.
Init ==
  /\ first = NULL /\ last = NULL
  /\ next \in [Blocks -> {NULL}]
  /\ num = 0
  /\ L!Init
  /\ \E m \in Messages : body = [b \in Blocks |-> m]
  /\ free = Blocks /\ held = {} /\ cancelled = {}
  /\ pc = [t \in Threads |-> "idle"]
  /\ blk = [t \in Threads |-> NULL]
  /\ seen = [s \in Senders |-> NULL]
  /\ list = <<>>

Go(t, from, to) == pc[t] = from /\ pc' = [pc EXCEPT ![t] = to]

\* atomic_fetch_add and atomic_fetch_sub on a uint32_t
Incremented(n) == IF n = CountMax THEN 0 ELSE n + 1
Decremented(n) == IF n = 0 THEN CountMax ELSE n - 1

-----------------------------------------------------------------------------
(* transport_shm_message_init and transport_shm_message_send *)

\* (mutant) The header of a recycled block keeps its link.
MessageInitKeepingLink(s, b, m) ==
  /\ Go(s, "idle", "writing")
  /\ b \in free
  /\ m \notin {body[c] : c \in Blocks \ free}
  /\ free' = free \ {b}
  /\ body' = [body EXCEPT ![b] = m]
  /\ blk' = [blk EXCEPT ![s] = b]
  /\ UNCHANGED <<first, last, next, num, lock, held, cancelled, seen, list>>

\* (mutant) A failed allocation goes unnoticed.
MessageInitUnchecked(s, b, m) ==
  /\ Go(s, "idle", "writing")
  /\ free = {} \/ b \in free
  /\ free' = free \ {b}
  /\ blk' = [blk EXCEPT ![s] = IF free = {} THEN NULL ELSE b]
  /\ UNCHANGED <<first, last, next, num, lock, body, held, cancelled, seen, list>>

\* A writer is opened on a free block and the message is written into it.
\* (With no free block message_init returns NULL and nothing changes.)
\* Messages in use are told apart.
MessageInit(s, b, m) ==
  /\ Go(s, "idle", "writing")
  /\ b \in free
  /\ m \notin {body[c] : c \in Blocks \ free}
  /\ free' = free \ {b}
  /\ body' = [body EXCEPT ![b] = m]
  /\ next' = [next EXCEPT ![b] = NULL]
  /\ blk' = [blk EXCEPT ![s] = b]
  /\ UNCHANGED <<first, last, num, lock, held, cancelled, seen, list>>

\* message_writer_shm_cancel: the writer is given up, its block is not freed.
Cancel(s) ==
  /\ Go(s, "writing", "idle")
  /\ cancelled' = cancelled \cup {blk[s]}
  /\ blk' = [blk EXCEPT ![s] = NULL]
  /\ UNCHANGED <<shared, lock, body, free, held, seen, list>>

\* (mutant) The counter runs ahead of the list.
SendLockCounting(s) ==
  /\ Go(s, "writing", "link")
  /\ L!Acquire(s)
  /\ seen' = [seen EXCEPT ![s] = last]
  /\ num' = Incremented(num)
  /\ UNCHANGED <<first, last, next, body, free, held, cancelled, blk, list>>

\* arena_lock, and the first read inside it.
SendLock(s) ==
  /\ Go(s, "writing", "link")
  /\ L!Acquire(s)
  /\ seen' = [seen EXCEPT ![s] = last]
  /\ UNCHANGED <<shared, body, free, held, cancelled, blk, list>>

\* The message is chained behind the last one, or becomes the first one.
SendLink(s) ==
  /\ Go(s, "link", "store")
  /\ IF seen[s] # NULL
     THEN next' = [next EXCEPT ![seen[s]] = blk[s]] /\ UNCHANGED first
     ELSE first' = blk[s] /\ UNCHANGED next
  /\ list' = Append(list, blk[s])
  /\ UNCHANGED <<last, num, lock, body, free, held, cancelled, blk, seen>>

\* It becomes the last one, and the lock is released.
SendStore(s) ==
  /\ Go(s, "store", "count")
  /\ last' = blk[s]
  /\ L!Release(s)
  /\ UNCHANGED <<first, next, num, body, free, held, cancelled, blk, seen, list>>

\* (mutant) The counter is stored, not added to.
SendCountStoring(s) ==
  /\ Go(s, "count", "idle")
  /\ num' = 1
  /\ blk' = [blk EXCEPT ![s] = NULL]
  /\ UNCHANGED <<first, last, next, lock, body, free, held, cancelled, seen, list>>

\* num_messages is incremented after the lock is released; the receiver is
\* then woken (ShmEvents).
SendCount(s) ==
  /\ Go(s, "count", "idle")
  /\ num' = Incremented(num)
  /\ blk' = [blk EXCEPT ![s] = NULL]
  /\ UNCHANGED <<first, last, next, lock, body, free, held, cancelled, seen, list>>

-----------------------------------------------------------------------------
(* transport_shm_message_receive and transport_shm_message_release *)

\* With num = 0 receive returns NULL and nothing changes.
RecvCheck(r) ==
  /\ Go(r, "idle", "peek")
  /\ num # 0
  /\ UNCHANGED <<shared, lock, body, free, held, cancelled, blk, seen, list>>

\* The head of the list is read without the lock.  The program ends on a
\* failed assertion when there is none.
RecvPeek(r) ==
  /\ Go(r, "peek", IF first = NULL THEN "aborted" ELSE "lock")
  /\ blk' = [blk EXCEPT ![r] = first]
  /\ UNCHANGED <<shared, lock, body, free, held, cancelled, seen, list>>

RecvLock(r) ==
  /\ Go(r, "lock", "unlink")
  /\ L!Acquire(r)
  /\ UNCHANGED <<shared, body, free, held, cancelled, blk, seen, list>>

\* The successor of the message that was peeked at becomes the first one.
RecvUnlink(r) ==
  /\ Go(r, "unlink", "unlock")
  /\ first' = next[blk[r]]
  /\ list' = IF list = <<>> THEN <<>> ELSE Tail(list)
  /\ UNCHANGED <<last, next, num, lock, body, free, held, cancelled, blk, seen>>

\* (mutant) The tail of the list is not reset when the list becomes empty.
RecvUnlockKeepingLast(r) ==
  /\ Go(r, "unlock", "count")
  /\ L!Release(r)
  /\ UNCHANGED <<shared, body, free, held, cancelled, blk, seen, list>>

\* An empty list has no last message either; the lock is released.
RecvUnlock(r) ==
  /\ Go(r, "unlock", "count")
  /\ last' = IF first = NULL THEN NULL ELSE last
  /\ L!Release(r)
  /\ UNCHANGED <<first, next, num, body, free, held, cancelled, blk, seen, list>>

\* (mutant) The counter stays.
RecvCountForgotten(r) ==
  /\ Go(r, "count", "idle")
  /\ held' = held \cup {blk[r]}
  /\ blk' = [blk EXCEPT ![r] = NULL]
  /\ UNCHANGED <<shared, lock, body, free, cancelled, seen, list>>

\* (mutant) The block goes back to the allocator as it is received.
RecvCountFreeing(r) ==
  /\ Go(r, "count", "idle")
  /\ num' = Decremented(num)
  /\ held' = held \cup {blk[r]}
  /\ free' = free \cup {blk[r]}
  /\ blk' = [blk EXCEPT ![r] = NULL]
  /\ UNCHANGED <<first, last, next, lock, body, cancelled, seen, list>>

\* num_messages is decremented after the lock is released, and the message
\* goes to the caller.
RecvCount(r) ==
  /\ Go(r, "count", "idle")
  /\ num' = Decremented(num)
  /\ held' = held \cup {blk[r]}
  /\ blk' = [blk EXCEPT ![r] = NULL]
  /\ UNCHANGED <<first, last, next, lock, body, free, cancelled, seen, list>>

\* kb_message_destroy: the receiving process, in any thread, gives the block
\* back to the allocator.
MessageRelease(b) ==
  /\ b \in held
  /\ held' = held \ {b}
  /\ free' = free \cup {b}
  /\ UNCHANGED <<shared, lock, body, cancelled, pc, blk, seen, list>>

-----------------------------------------------------------------------------
Receive(r) ==
  RecvCheck(r) \/ RecvPeek(r) \/ RecvLock(r) \/ RecvUnlink(r) \/ RecvUnlock(r) \/ RecvCount(r)

FinishSend(s) == SendLink(s) \/ SendStore(s) \/ SendCount(s)

Next ==
  \/ \E s \in Senders :
       \/ \E b \in Blocks, m \in Messages : MessageInit(s, b, m)
       \/ Cancel(s)
       \/ SendLock(s) \/ SendLink(s) \/ SendStore(s) \/ SendCount(s)
  \/ \E r \in Receivers :
       \/ RecvCheck(r) \/ RecvPeek(r) \/ RecvLock(r)
       \/ RecvUnlink(r) \/ RecvUnlock(r) \/ RecvCount(r)
  \/ \E b \in Blocks : MessageRelease(b)

Spec == Init /\ [][Next]_vars

\* Receivers poll, and a sender inside message_send goes on.  Nobody has to
\* send or to release anything.  The lock is not fair to anyone.
FairSpec ==
  /\ Spec
  /\ \A r \in Receivers : WF_vars(Receive(r))
  /\ \A s \in Senders : WF_vars(FinishSend(s))

-----------------------------------------------------------------------------
Linked == {list[i] : i \in DOMAIN list}
Drafts == {s \in Senders : pc[s] \in {"writing", "link"}}
Uncounted == {s \in Senders : pc[s] \in {"store", "count"}}
InHand == {r \in Receivers : pc[r] \in {"unlock", "count"}}

\* No receiver runs into `assert(incoming_message != NULL)`: a count seen
\* above zero means there is a message, although both the counter and the head
\* of the list are read without the lock.
NoAbort == \A r \in Receivers : pc[r] # "aborted"

\* The pointers in shared memory spell the messages in the order in which they
\* were linked, whatever is half-way through its critical section.
ListSpelled ==
  /\ first = IF list = <<>> THEN NULL ELSE Head(list)
  /\ \A i \in DOMAIN list :
       next[list[i]] = IF i = Len(list) THEN NULL ELSE list[i + 1]
  /\ (lock = NoThread) => last = IF list = <<>> THEN NULL ELSE list[Len(list)]

\* The counter is behind the list by the messages linked and not yet counted,
\* and ahead of it by those unlinked and not yet counted off; it never wraps.
CountTracksList ==
  num + Cardinality(Uncounted) = Len(list) + Cardinality(InHand)

\* Every block is in exactly one place: free, being written, in the list, on
\* its way to the caller of receive, held by it, or lost with a cancelled writer.
\* Nothing else loses a block, and none is in use twice.
BlocksOwnedOnce ==
  /\ Blocks = UNION {free, {blk[s] : s \in Drafts}, Linked, {blk[r] : r \in InHand}, held, cancelled}
  /\ Cardinality(Blocks) = Cardinality(free) + Cardinality(Drafts) + Len(list)
                             + Cardinality(InHand) + Cardinality(held) + Cardinality(cancelled)

\* A sent message is received in the end.
Delivered == \A b \in Blocks : b \in Linked ~> b \in held

\* An arena with one receiver is a message channel: message_send takes effect
\* when it links the message, message_receive when it unlinks it.
C == INSTANCE MessageChannel WITH
       queue <- [i \in DOMAIN list |-> body[list[i]]],
       held <- {body[b] : b \in held \cup {blk[r] : r \in InHand}}

Refinement == C!Spec
=============================================================================
