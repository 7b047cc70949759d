# A TLA+ model of libkrossbar

libkrossbar passes BSON messages between processes of one machine: through
shared memory (`src/src/shmem`) or through a Unix-domain socket
(`src/src/uds`), with an event manager on an io_uring for each, and an RPC
layer on top (`src/src/rpc.c`).  This directory models the library in TLA+,
checks the models with TLC and proves theorems about them with TLAPS.  Paths
below are those of the repository, from `src/`.

## 1. The system

| part | state | operations | talks to |
|---|---|---|---|
| futex locks (`transport_shm.c:24-63`, `allocator.c:74-113`) | a word in shared memory | lock, unlock | threads of two processes, the kernel's futex |
| arena (`transport_shm.c`) | in shared memory: first and last message, counter, a link in each message | message_init, message_send, message_receive, message_release, create_mapping, init, destroy | its lock, its allocator, its event manager; the sender and the receiver are different processes |
| allocator (`allocator.c`) | in shared memory: list of free blocks, a header and a footer per block, free_size | create, attach, alloc, trim, free | its own lock; called by the sender (alloc, trim) and the receiver (free) |
| shm event manager (`event_manager_shm.c`) | none of its own; the io_uring and the arena's counter, used as a futex | wait_messages, signal_new_message, handle_event | message_send calls signal, the application's loop calls the others |
| UDS transport (`transport_uds.c`) | queue of outgoing messages and its length, one incoming message | message_init, message_send, write_messages, message_receive, message_release | a non-blocking stream socket |
| UDS event manager (`event_manager_uds.c`) | none of its own; requests on the io_uring | wait_readable, wait_writeable, handle_event | message_send requests the event, handle_event writes or reads |
| RPC (`rpc.c`) | id counter, table of requests that wait for responses | message, call, subscribe, send, cancel, respond, release, handle_incoming_message | one transport, the application's callbacks |
| message and writer objects (`message.c`, `message_writer.c`, `message_*shm.c`, `message_*uds.c`) | a document, a buffer, function pointers | init, send, cancel, destroy | the transports |
| document and array writers (`document_writer.c`, `array_writer.c`) | a libbson document per open writer, pointers to the parent | append, begin and end nested documents and arrays | libbson |
| document reader (`document.c`) | one libbson cursor | has_field, get_value, value_type, the typed gets | libbson |
| peer (`peer.c`) | - | - | empty |

What is hard in it: two processes change one list and one heap, partly under a
lock and partly not; a counter in shared memory is a semaphore, a futex and a
statistic at once; the completions of waits and of wake-ups share one queue; a
stream socket cuts messages anywhere; a request is on its way before it is
registered, and a callback may use the RPC layer that is calling it; every step
of an init may fail and calls the same destroy; a nested writer has to find its
parent through pointers that not every function sets; any process may end
anywhere.  What each part owes:

* locks: mutual exclusion, no lost wake-up, a free lock is taken by somebody
  who wants it;
* arena: the list is a FIFO queue, the receiver never trusts a counter that is
  ahead of the list, every block has exactly one owner;
* allocator: the blocks tile the memory, the free list is exact, no owner's
  block is disturbed, no fragmentation that outlives the messages;
* event managers: an event is never lost for good and never requested twice;
* UDS: both sides agree on the frames, nothing is reordered, the queue is
  bounded;
* RPC: a response runs the callback of its own request, the right number of
  times, and the entry of a running callback stays;
* lives: destroy gives back what init took, and a failed init what it had
  taken; what was sent before the end of a process arrives;
* documents: a nested writer ends in its parent; fields that are read in the
  order in which they were written are found.

## 2. The modules

| module | models | size of a step |
|---|---|---|
| `Mutex` | what a lock promises (abstract) | - |
| `FutexLock` | both futex locks, down to compare-and-swap, sleep and wake | one atomic access or system call |
| `FutexLockProofs` | theorems about `FutexLock` | - |
| `MessageChannel` | what one direction of a transport promises (abstract) | - |
| `ShmArena` | one arena: senders of one process, receivers of the other | one access to shared memory, or the accesses of a critical section nobody else can tell apart |
| `ShmArenaProofs` | theorems about `ShmArena` | - |
| `ShmAllocator` | the allocator's headers, footers and free list | one operation (all hold the lock) |
| `ShmAllocatorProofs` | theorems about `ShmAllocator` | - |
| `ShmEvents` | the shm event manager on an io_uring | one completion, one submission, one call |
| `ShmEventsProofs` | theorems about `ShmEvents` | - |
| `UdsTransport` | one direction over a socket, both processes, both events | one system call |
| `UdsTransportProofs` | theorems about `UdsTransport` | - |
| `Rpc` | the RPC layer of two processes | one call; sending and registering a request are two steps, and so are the begin and the return of a callback |
| `RpcProofs`, `RpcDeliveryProofs` | theorems about `Rpc`: the registry, and the responses | - |
| `Documents` | the writers of a document and its nested documents and arrays, and the reader | one call |
| `TransportLife` | create_mapping, init and destroy of both transports, with their event managers and allocators | one step of init that may fail; destroy |
| `Client` | two processes from init to destroy, with the writers and messages of both transports; extends the two above | one call |
| `ClientProofs` | theorems about `Client` | - |
| `MC*` | instances for TLC | - |

Composition: `FutexLock` implements `Mutex`, and `ShmArena` takes `Mutex` as
its lock (`L == INSTANCE Mutex WITH owner <- lock`).  `ShmArena` and
`UdsTransport` each implement `MessageChannel`.  `ShmArena` has a set of free
blocks where `ShmAllocator` has the real thing: the set is what
`FreeListExact` and `OwnersUndisturbed` say an allocator provides.
`ShmEvents` has the counter and the wake-up of `ShmArena` as its environment.
`Rpc` runs over two queues, which `MessageChannel` says a transport is.
`Client` extends `Documents` and `TransportLife`: what one process writes into
a document, the other reads from the message, while both go through the lives
of their transports.

### Correspondence to the code

`FutexLock`.  `pc[t]` is where thread t is in lock/unlock; `CasSucceeds`,
`CasFails` are line 33 of `transport_shm.c` (83 of `allocator.c`),
`FutexSleeps`, `FutexChanged` line 39, `Unlock`, `UnlockFails` line 54 and
`FutexWake` line 56.  `expected[t]` is the local `zero`, a const object that a
failed compare-and-swap writes to; that is undefined, so `CasOutcomes` says
which outcomes the build has: `"kept"` (the constant is folded) or
`"observed"` (the write happens).  `Exit` is the end of a process anywhere,
with the `exit(1)` after EINTR as one case.

`ShmArena`.  `first`, `last`, `num`, `next` are the fields of
`kb_arena_header_s` and `kb_message_header_s`; `blk[t]` is `message_header` of
a sender and `incoming_message` of a receiver, `seen[s]` is line 290.
`SendLock`, `SendLink`, `SendStore`, `SendCount` are lines 288-290, 292-303,
305-306, 308; `RecvCheck`, `RecvPeek`, `RecvLock`, `RecvUnlink`, `RecvUnlock`,
`RecvCount` are lines 325, 330-332, 336, 338, 339-345, 346.  The reads at 325
and 330 and the counter are outside the lock, as in the code.  `list` is a
history variable: what has been linked and not unlinked.

`ShmAllocator`.  Words of 8 bytes from the allocator's header; `mem.hdr` and
`mem.ftr` are partial functions from offsets to tags, and a tag that comes to
lie inside a block disappears.  Every helper of `allocator.c` is an operator,
every public operation an action.  An assertion that fails (`InRange`) sets
`aborted` and leaves the memory as it is at that point, with the lock taken.
`free_size` is left out: the allocator only writes it.

`ShmEvents`.  `armed[t]` are futex waits asleep in the kernel, `cq` the
completion queue.  `SignalSubmit` and `SignalComplete` are the two halves of
`signal_new_message`; the second takes the oldest entry, whichever it is, as
`io_uring_wait_cqe` does.  The comparison of results with positive errno values
never holds, so an entry with an error leads to a receive like any other.
`WaitsConserved` counts the waits that are asleep (`Asleep`), completions and the
step under way; `NoMissedWake` says what it is for: a process that sleeps with a
message in its arena has a wake-up coming.

`UdsTransport`.  The socket is a sequence of units: a header (5 bytes, which a
stream socket of this family never splits) or a piece of data.  `Written` is
the end of `handle_event`'s writeable branch.  A partial write moves the
buffer's pointer and the last one frees it: the heap ends the process
(`spc = "aborted"`).  `inFlight` is a history variable: the messages sent and not
wholly received, with which the socket is compared.

`Rpc`.  `entries` is the hash table with `Key`, the id cut to the `int` that
is its key.  libbson is external: reading an int32 as an int64 returns 0, so in
the program as it is every message is read as one of type 0 (`reading = "zero"`).
`reading` is chosen by the initial state from the constant `Readings`:
`rpc_type` has the program as it is, `rpc_registry` and the proofs also
`"value"`, the reading the tests expect, and say what the rest of `rpc.c` does
then.  A message in hand has the type as which it was read and, as history, the
type as which it was sent (`sentAs`) and which of the responses to its request
it is (`nth`).  Line 185 of `rpc.c` calls the
application: `HandleResponse` begins the callback and `CallbackReturns` is what
comes after it (186-199); `running` is the stack of the callbacks between the
two, which may send, respond, handle messages and destroy the rpc.  `reentered`
is a history variable: requests whose callback ran while another response to
them was handled, or while the rpc was destroyed; what `CallbackReturns` then
looks at was freed.  `UNREADABLE` is a message in which no id or no type is
found: a request or a response that was sent while a nested writer was open
(`TransmitOpen`).  It, and a message for which there is no memory, is kept
(`KeepMessage`, 163-173 and 203-209): neither handed over nor destroyed.  With
`single`, as on a socket, the transport then gives out nothing more.
`RegisterFails` is the unchecked malloc of line 102, and ends the process; so
does the cancel of a request, which recurses without end.  `MaxMishaps` bounds
these, the kept messages and `DestroyRpc` together, `MaxRequests` the ids that
are taken by both processes.

`Documents`.  `open` is the stack of the writers that are open; each has the two
pointers of `kb_document_writer_s` as positions in the stack, `Null`, or `Wild`
for whatever malloc returned.  Begins set one of them, leave the other or copy
it, as the code does; ends use the one the code tests first, and `misused`
records an end in anything but the writer it was opened in.  `Write` fails when
there is no `room`: `kb_bson_realloc` never gives more.  Values are their types.
`elements` are the fields of the document itself; of what nested writers write only
the room is seen, and `inner` says whether the last value was one of theirs.
`FromBuffer` makes the writer: doc_writer_from_buffer returns NULL, or it ends
without a return of its result, and what the caller then has is the `writer` or
something `"other"`.  What it made looks through the addresses of parameters
that are gone, so that any use of it may be undefined besides what the other
actions say (`Mislead`).  `Valid` says whether libbson will take the bytes: it
adds the length of a nested document to its parent when it is ended, and while
one is open the length of the root ends inside what was written.  `FromData`
gives NULL when there is no memory or the bytes are refused.  The reader
is a list of fields with a `cursor`; every lookup, also one of the wrong type or
of has_field, moves it, and `lookups` is the history.

`TransportLife`.  `at[p]` is how far the init of p is; each step that may fail
has an action that fails, which takes one of the `failuresLeft` and calls
`Destroy` on what there is.  `fields` are the three pointers `Destroy` looks at,
`"null"` or `"wild"` until they are set (the structures come from malloc).
`owned` are the objects and files a process has, `pages` the pages it has mapped
of the two mappings, `totalSize` the number in the header of the mapping from
which both processes compute what to unmap; `Given` and `Unmapped` are what
`Destroy` gives back.  Sizes are unsigned in the code: that of a mapping which is
smaller than the header of the arena wraps, and is negative here (`Memory`); no
check finds it too small, and the first block is laid over whatever comes
(`CreateOverruns`).  `ring` are requests of the event manager that the kernel
has: destroy does not cancel them (`LateEvent`).  A process in which something
undefined happens, an assertion fails or a signal arrives stays at
`"undefined"`, `"aborted"` or `"killed"`: nothing is said of it after that.

`Client`.  `MessageInit` to `MessageCancel` are `message_writer.c` with both
implementations of send; a message is its number, the fields written to its
document, and whether libbson takes it.  `outgoing` is `out_messages` of the
socket, `channel` the mapping or the socket.  How these move in detail is
`ShmArena` and `UdsTransport`; here a socket takes any part of the queue at
whole messages.  A message writer is handed out with whatever came of its
document writer, also with NULL; `WriterMisleads` is a use that goes wrong, and
`MessageCancel` takes the document writer from the memory it has just freed.
`OpenDocument` to `CloseDocument` are an application that reads a message with
`document.h` (the library itself reads with libbson, in `rpc.c`); without a
document every function asserts (`ReadNothing`).  `NoMemory` are the mallocs of
message writers, messages and queue entries, which nothing checks.

## 3. The runs

Each run checks one module; "violation" runs show a disagreement between the
code and a comment, an assertion or a test.

| run | shows | bounds |
|---|---|---|
| `lock_kept` | exclusion, no lost wake-up, progress, refinement of `Mutex`, in a build that folds the constant | 3 threads of 2 processes, 1 process ends |
| `lock_exclusion` (violation) | where the write happens the lock is taken while held | the same |
| `arena_channel` | list, counter, ownership of blocks, refinement of `MessageChannel`, delivery | 2 senders, 1 receiver, 3 blocks |
| `arena_receivers` (violation) | a second receiver makes the assertion at `transport_shm.c:332` fail | 1 sender, 2 receivers |
| `alloc_blocks` | tags, free list, blocks in use stay as they are and a trimmed one keeps its message, no lasting fragmentation | 87 words, messages of 3 and 18 words of at most 18, 1 cancel |
| `alloc_end` (violation) | a block at the end of the memory cannot be freed (`allocator.c:207`) | 55 words: two blocks |
| `events_one` | with one transport on a ring waits are conserved, no wake-up is missed and messages are received | 3 messages each way |
| `events_starve` (violation) | with two transports on a ring a signal consumes the wait of the other | 1 message each |
| `uds_stream` | frames, queue, events, refinement of `MessageChannel`, delivery unless stalled | messages of 1, 2 and 4 units, a socket of 3, queue of 2, 2 writers |
| `rpc_registry` | callbacks, registry, entries that outlive their callbacks, no blocked response | both readings of the type; 2 requests in all, of one process or of both; 1 and 2 responses to a request; 1 mishap; 2 callbacks inside each other |
| `client_life` | ends of nested writers, lookups in order, what destroy and a failed init leave, sent messages survive | 3 scenarios, below; 4 writers deep, 2 keys, 3 lookups |
| `rpc_type` (violation) | a call arrives as a message (`test_rpc.cpp:68`) | 1 id each, 1 response |

Why the bounds are enough.  Three threads are the fewest where one sleeps while
another overtakes the one that was woken; a second process lets the sleeper's
lock be orphaned.  Two senders overtake each other between unlock and count,
and three blocks give a list with a middle while a block is recycled.  87 words
hold one block of the largest size (23 words) three times with room for
remainders of both kinds, so that frees merge with the predecessor, the
successor, both and neither.  A message of 4 units does not fit the socket of 3
and is always cut; the others are cut or not according to what is before them.
Two writers with a queue of two overfill it by one.  Two requests of one process
with two responses each give responses to calls that are late, repeated and
overtaken by others' responses; with two callbacks inside each other a second
response meets the entry of the first, and one mishap is enough for each of
cancel, an unreadable message, a failed malloc and a destroyed rpc.

`client_life` has three scenarios, chosen by the initial state, because their
product would add nothing but size.  One message with room for three elements:
every nesting of documents and arrays three deep, with every value of the unset
pointers, and three lookups in every order.  Two messages with room for one
element: cancels, queues and ends of either process around a second message.
One message without room, with one failing step and mappings of 1, 2, 5, 6, 8,
9 and 16 bytes: with pages of 8 bytes, headers of 3 (arena), 2 (allocator) and 1
(message) and messages of at most 2, these are too small for a message, too
small for the arena's header but accepted, large enough for init but not for the
allocator's assertion, for the assertion but not for its check, exactly a page,
just over one (with a last page that destroy forgets), and two.

That no wake-up is lost in a build that writes the constant is not a run but
the theorem `WakeupOwed`, which holds for every `CasOutcomes`.

`CHECK_DEADLOCK FALSE` stands where the system may really stop: a process has
ended with the lock, all blocks are lost to cancelled writers, an assertion has
failed, the bounds of arrivals and requests are used up, the UDS sender has
stalled, both clients are gone.

### Fairness

* `FutexLock`: weak fairness of each thread that is inside lock, unlock or the
  section between them: the sections are straight-line code and the scheduler
  runs every thread.  Nobody has to call lock, and the lock itself is not fair.
* `ShmArena`: receivers poll; a sender that holds the lock or owes the count
  goes on.  A sender need not get the lock, and need not send.
* `ShmEvents`: the process runs its loop; a peer that has counted goes on to
  wake.
* `UdsTransport`: both loops run; the application releases what it received
  (the transport receives nothing before).
* `Rpc`: a process handles (or keeps) what its transport receives, returns from
  send and from its callbacks, and releases what it has: one thread runs these
  one after the other.  Nobody has to send or to respond.  `Handled` excepts a
  process that has ended and a socket that waits for a kept message.
* `Client` states no fairness: its properties are all of safety.

### Known behaviours without a run

They were met while modelling; the models contain them.

* A write that finds the socket full ends all writing (`event_manager_uds.c:115`,
  `transport_uds.c:106`); `Delivered` of `UdsTransport` excepts exactly this
  (`Stalled`) and the freeing of a moved pointer (`transport_uds.c:150,156`).
* `max_buffered_messages` is exceeded by writers opened early; `QueueBounded`
  says by how many.
* A cancelled writer of the shm transport loses its block
  (`message_writer_shm.c:40`); `BlocksOwnedOnce` counts them apart.
* The allocator takes the first block that fits where the comment at
  `allocator.c:240` says best fit; `free_size` is not changed by trim; `create`
  accepts memory too small for a block (`allocator.c:126`).
* Ids of requests are cut to an int (`rpc.h:31`), and a subscription's entry
  stays: a response may run the callback of another request with the same key.
  `AnswersDelivered` excepts requests that share a key.
* A message that rpc.c cannot read, or has no memory for, is not destroyed
  (`rpc.c:163`): a socket receives nothing after it; `Handled` excepts this.
  Requests and responses sent with an open nested writer are such messages.
* The mallocs of a registry entry (`rpc.c:102`), of message writers
  (`message_writer_shm.c:13`, `message_writer_uds.c:13`), of messages and of the
  entries of a socket's queue (`transport_uds.c:95`) are not checked.
* A callback that handles messages itself may be called again for the same call,
  whose entry is then freed under it (`rpc.c:185`); `EntryOutlivesCallback` says
  that this and `rpc_destroy` are the only ways.
* destroy leaves the page of `create_mapping` and, with unlucky sizes, the last
  page of a mapping (`transport_shm.c:390`); `DestroyReleases` says which.
* A failed init may use, or assert on, fields it has not set
  (`transport_shm.c:147`), and leaves the files and mappings of the steps it took;
  `FailedInitLeaves` says which.
* `init` accepts a mapping that is smaller than its headers, by wrapped sizes
  (`transport_shm.c:202`), and one on which the allocator's assertion fails
  (`transport_shm.c:183`, `allocator.c:121`).
* `doc_writer_from_buffer` lacks the return of its result and leaves in it the
  addresses of its parameters (`document_writer.c:28,34`): every use of a document
  writer is undefined.  `message_cancel` uses what it has freed
  (`message_writer.c:51`).  A request that is in the ring completes after its event
  manager is freed (`event_manager_uds.c:39`).  The models have these outcomes as
  steps into `"undefined"`, next to the usual ones; no property lists the causes,
  because any use of a writer is one.
* A peer that closes its socket ends a sender with SIGPIPE, and the queue of a
  socket is dropped by destroy (`transport_uds.c:140,251`);
  `SentMessagesSurvive` excepts exactly these.

Not in the models, as they touch nothing the models have: the unchecked malloc
of a message's bytes (`transport_uds.c:195`; recv then fails); `rpc.c:66` loses the
transport's writer when there is no memory for the wrapper (a writer that is
never sent, for the allocator the same as a cancelled one);
`document_get_string` writes 32 bits of a `size_t` (`document.c:245`); destroy
frees the moved pointer of a partly written message (`transport_uds.c:257`, as
150 does); a readable event of a closed peer is requested again and again
(`event_manager_uds.c:99`); document writers are not freed with their messages.

## 4. The proofs

`FutexLockProofs` proves, for any finite or infinite set of threads and
processes, any number of processes that end:

* `Typing`: `Spec => []TypeOK`;
* `WakeupOwed`: `Spec => []NoLostWakeup`, whatever `CasOutcomes` is.  The
  invariant is inductive with the typing: a thread falls asleep only on a taken
  word, the word is freed only by a thread that then owes the wake-up, and the
  wake-up leaves no sleeper;
* `Exclusion`: `Spec => []MutualExclusion` if `CasOutcomes = {"kept"}`.  The
  property alone is not inductive: the strengthening says that `expected` is
  always 0 and that the word is taken exactly while somebody is inside;
* `Implements`: `Spec => Refinement` under the same assumption, by mapping each
  action to a step of `Mutex` or a stutter.

The assumption is needed: `lock_exclusion` is the counterexample without it.
The other assumptions are those of the module.

`ShmArenaProofs` proves, for any finite sets of senders, receivers and blocks,
any messages, and any counter wide enough for the blocks:

* `Typing`: `Spec => []TypeOK`;

and, if there is at most one receiver (`OneReceiver`):

* `Spelled`: `Spec => []ListSpelled`;
* `OwnedOnce`: `Spec => []BlocksOwnedOnce`;
* `Counted`: `Spec => []CountTracksList`;
* `NeverAborts`: `Spec => []NoAbort`;
* `Implements`: `Spec => Refinement`, the arena is a message channel.

None of them is inductive alone.  `ListInv` is, with the typing; its parts are
`LockHeld` (the lock is with the thread in its critical section, so that one
thread at a time is between two accesses), `Linkage` (the links spell the
list), `Ends` (what `last` is outside the two sections that change it, that
`seen` is still right when a sender links, and that the block a receiver
peeked at without the lock is still the head when it unlinks it), `Apart` (no
block is in two places, and a block not yet linked links nothing) and
`Covered` (every block is somewhere).  `Linkage` needs `Ends` for where the
code writes and `Apart` for what that write leaves alone; `Apart` needs `Ends`
for which block is unlinked.  `Spelled` and, by counting, `OwnedOnce` follow.

`CountInv` rests on `ListInv`: the counter is off from the list by exactly the
threads between the two changes; it cannot wrap upwards because the linked
blocks are at most all blocks, nor downwards because only the receiver
decrements it and has seen it above zero.  So the receiver at its assertion
has a list that is not empty.

`Implements` adds that blocks in use carry different messages: linking is the
channel's Send, unlinking its Receive, releasing its Release, every other step
is invisible.

`OneReceiver` is needed: `arena_receivers` is the counterexample without it.

`ShmAllocatorProofs` proves, for memory, messages and tags of any sizes that
`allocator_create` accepts, and any number of cancelled writers:

* `Typing`: `Spec => []TypeOK`;
* `Tiles`: `Spec => []Tiled`;
* `ExactList`: `Spec => []FreeListExact`;
* `Undisturbing`: `Spec => OwnersUndisturbed`, which for a trim needs that the size
  it trims to is never below the message and both tags (`TrimLeavesRoom`);

if the memory has room for one byte and its tags,

* `AlwaysUsable`: `Spec => []BlocksUsable`;

and if it has room for the largest message and its tags,

* `NeverFragmented`: `Spec => []AllocatesWhenEmpty`.

The two conditions are not those of the code: `allocator_create` accepts memory
that holds no message (section 3), of which neither property is true.

The invariant does not speak of tags.  It says that the memory represents
sizes of blocks that tile it, their types, and a list of those that are free
(`Good`): the headers and footers are those of the sizes and types
(`Represents`), the links spell the list (`Chained`), and the allocated blocks
are those somebody has (`Owns`).  Each helper then has a lemma that says what it
does to the three: `Added` and `Removed` for the list, `Split`, `Trimmed`,
`PrevJoined`, `NextJoined` and `Merged` for the tiling.  `Listing` says that
the walk from the head finds the list, by giving the function its recursion
defines.  `Effects` sums the operations up: each allocates, trims, cancels or
frees one block of the tiling, and the four properties without conditions
follow from this.

`NeverFragmented` needs more, because freeing merges with one free block on
each side at most, and leaves others apart.  `Room` says of each allocated block that,
once it is freed and merged with the free blocks behind it, the largest message
fits, unless another allocated block is in the way; the last block to be freed
has none in its way.

`UdsTransportProofs` proves, for any messages and sizes, any capacity of the socket,
any limit of the queue and any number of writers:

* `Typing`: `Spec => []TypeOK`;
* `OneEvent`: `Spec => []OneEventPerQueue`;
* `NeverLost`: `Spec => []ReaderInStep`, the part of it the code relies on: what the
  reader takes the next units for is what they are;
* `WellFramed`: `Spec => []StreamFramed`;
* `Bounded`: `Spec => []QueueBounded`;
* `Implements`: `Spec => Refinement`, a direction of the socket is a message channel.

The reader counts what is missing of its message and takes the next unit for a
header; that it is right about the units is not inductive, because it says nothing
of those further back.  `Framed` gives each message in flight the position in the
stream at which its frame starts (`Follows`), says of each unit in the socket which
frame it is a part of (`Laid`) and where the units end for what the sender has
written of its queue (`Ends`).  A write lays the next unit at the end, a read moves
all positions down, and a message received whole is the first of them.
For `WellFramed`, both sides of `StreamFramed` have at each position the unit of the
frame it lies in (`Spells`, `Continued`); `FlattenSeq` is recursive, but over the
indices of a sequence, and `Flattened` says what it returns by giving the function
its recursion defines and excluding a least index at which it could differ.

`ShmEventsProofs` proves, for any set of transports on a ring (finite, for the
counting) and any number of messages:

* `Typing`: `Spec => []TypeOK`;
* `Conservation`: `Spec => []WaitsConserved`, by counting the waits asleep;

and, for a single transport:

* `NoWakeMissed`: `Spec => []NoMissedWake`.  It needs that there is one wait, asleep
  or completed (conservation), and that a wait that went to sleep on a counter was
  told of it: `SleepInv`.

A single transport is needed: `events_starve` is the counterexample with two.

`ClientProofs` proves, for documents of any depth, any number of messages,
buffers of any sizes and any number of steps that fail:

* `Nesting`: `Spec => []EndsInParent`.  Its invariant `NestInv` says nothing of
  the pointer that may be garbage: it says that the pointer which goes with the
  kind of the outer writer is right, because that is the one the matching begin
  sets and the matching end reads;
* `Leavings`: `Spec => []FailedInitLeaves`, also for mappings smaller than the
  header of the arena.  `LifeInv` says for each stage of an init which fields are
  set (`SetBy`), and `HoldInv` below what the transport has there: a failed step
  leaves that, less what destroy gives back for those fields;
* `Survival`: `Spec => []SentMessagesSurvive`.  `SurvivalInv` numbers the
  messages received, in the channel and in the queue on end (`Numbered`), and
  says when their total is what was sent (`Whole`); it needs that an init only
  goes forward (`Forward`), so that a transport which comes up has sent nothing;
* `Releases`: `Spec => []DestroyReleases`.  `HoldInv` says for each stage what a
  transport has, which pages are mapped for which sizes, and that the size in the
  header of a mapping is nothing or what the allocator was given (`Sized`).  A
  step of one process leaves this true of the other, although each reads sizes
  that the other writes, because a size is written once (`OtherHolds`);
* `Typing`: `Spec => []TypeOK`;
* `ReadsInOrder`: `Spec => []ReadInOrder`.  `SearchInv` compares the cursor with
  all ways to find the keys asked for in the document (`Places`): it is at the end
  of the first of them, and past the last field when there is none.  A lookup
  that finds its key extends that way by the least possible, so that any other way
  to find one key more ends no earlier.

`RpcProofs` proves, for any number of requests, responses, callbacks and
mishaps, and whatever the registry's key tells apart:

* `Registry`: `Spec => []RegistryExact`;
* `Outlives`: `Spec => []EntryOutlivesCallback`.

Both follow from `RegistryInv`, an invariant of each process by itself, request
by request: an entry is of a request that was sent, a request that was not sent
has no history (`Requests`), a running callback was called for its entry, which
is there and runs once unless the request is reentered (`Callbacks`), and an
entry is there exactly while its request waits (`Exact`).  `Elsewhere` says that
the other process's steps are not seen.

`RpcDeliveryProofs` proves, for both readings of the type and a key of any width:

* `Typing`: `Spec => []TypeOK`;
* `Delivered`: `Spec => []AnswersDelivered`.

`DeliveryInv` adds to `RegistryInv` what each direction carries: every request and
response on the way or in hand belongs to a request that was sent, with its type
(`Carried`, `InHand`), only who was asked answers (`Asked`), and the callbacks that
ran are those due for the responses that have arrived, the ones on the way counted
apart (`Answered`).  With the reading `"zero"`, which is the program's, no callback
has run: responses are handed to the application as if they were messages.

Only model-checked: every liveness property (fairness and ENABLED are out of
the prover's reach).

## 5. Not modelled

* The peer (`peer.c` is empty), logging, the performance tests and the build.
* `document_get_document` and `document_get_array` are declared and have no body.
* Values of fields: a field is its key and its type.  The conversions are
  libbson's.
* Addresses: a pointer is an owner, an offset or a position.
* The dispatch through `kb_transport_t`, `kb_message_writer_t` and
  `kb_message_t` has no state of its own: the modules call the implementation.

## 6. Plan

Done: sections 2-4.  Next:

* A composition of `ShmArena` with `ShmEvents`: the counter as both the
  semaphore of the list and the futex of the waits.
