--------------------------- MODULE TransportLife ---------------------------
(***************************************************************************)
(* The life of a transport: transport_shm_create_mapping, the init and the *)
(* destroy of both transports and of their event managers, and the create, *)
(* attach and destroy of the allocators.  Every step of an init that may   *)
(* fail does; each failure calls destroy on what there is so far, and      *)
(* destroy looks at fields the init has not reached.                       *)
(*                                                                         *)
(* Two processes have a transport each.  With shared memory each writes to *)
(* one mapping and reads the other's; the size that destroy unmaps is read *)
(* from the header that the writing process puts there.  The kernel (files,*)
(* pages, sockets, rings) and malloc are external.                         *)
(***************************************************************************)
EXTENDS Integers, FiniteSets

CONSTANTS
  Processes,
  PeerOf,          \* the process at the other end
  BufferSizes,     \* sizes a mapping may be created with
  PageSize,
  ArenaHeader,     \* ARENA_HEADER_SIZE
  AllocatorHeader, \* the header of the allocator in the mapping
  MaxMessageSize,  \* max_message_size ...
  MessageHeader,   \* ... MESSAGE_HEADER_SIZE ...
  LeastArena       \* ... and the least memory allocator_create takes

ASSUME LifeAssumption ==
  /\ PeerOf \in [Processes -> Processes]
  /\ \A p \in Processes : PeerOf[p] # p /\ PeerOf[PeerOf[p]] = p
  /\ BufferSizes \subseteq Nat \ {0}
  /\ {PageSize, ArenaHeader, AllocatorHeader, MaxMessageSize, MessageHeader} \subseteq Nat \ {0}
  /\ LeastArena \in Nat /\ LeastArena >= AllocatorHeader
  /\ ArenaHeader + AllocatorHeader <= PageSize

VARIABLES
  kind,        \* "shm" or "uds"
  at,          \* how far the life of each transport is
  bufferSize,  \* bytes of the mapping each process writes to
  fields,      \* read_arena.allocator, write_arena.allocator, event_manager
  owned,       \* what each process has and has not given back
  pages,       \* pages each process has mapped, of each mapping
  totalSize,   \* total_size in the allocator header of each mapping
  ring,        \* requests each process has in its ring, by event
  failuresLeft \* bound: steps that may still fail

life == <<kind, at, bufferSize, fields, owned, pages, totalSize, ring, failuresLeft>>

Resources == {"transport", "manager", "probe", "readAllocator", "writeAllocator",
              "readFd", "writeFd", "socket"}
Stages == {"none", "mapping", "begun", "managed", "readMapped", "attached", "writeMapped",
           "up", "null", "gone", "undefined", "aborted", "killed"}
Unset == {"null", "wild"}

LifeTypeOK ==
  /\ kind \in {"shm", "uds"}
  /\ at \in [Processes -> Stages]
  /\ bufferSize \in [Processes -> BufferSizes \cup {0}]
  /\ fields \in [Processes -> [{"read", "write", "manager"} -> Unset \cup {"set"}]]
  /\ owned \in [Processes -> SUBSET Resources]
  /\ pages \in [Processes -> [{"read", "write"} -> Nat]]
  /\ totalSize \in [Processes -> Int]
  /\ ring \in [Processes -> SUBSET {"read", "write"}]
  /\ failuresLeft \in Nat

LifeInit ==
  /\ kind \in {"shm", "uds"}
  /\ at = [p \in Processes |-> "none"]
  /\ bufferSize = [p \in Processes |-> 0]
  /\ fields = [p \in Processes |-> [f \in {"read", "write", "manager"} |-> "null"]]
  /\ owned = [p \in Processes |-> {}]
  /\ pages = [p \in Processes |-> [m \in {"read", "write"} |-> 0]]
  /\ totalSize = [p \in Processes |-> 0]
  /\ ring = [p \in Processes |-> {}]

-----------------------------------------------------------------------------
Pages(size) == (size + PageSize - 1) \div PageSize

Reach(p, stage) == at' = [at EXCEPT ![p] = stage]
Own(p, what) == owned' = [owned EXCEPT ![p] = @ \cup what]

\* What destroy gives back, and the pages of a mapping it unmaps.
Given(p) ==
  {"transport"}
    \cup (IF fields[p]["manager"] = "set" THEN {"manager"} ELSE {})
    \cup (IF kind = "uds" THEN {"socket"} ELSE {})
    \cup (IF fields[p]["read"] = "set" THEN {"readAllocator", "readFd"} ELSE {})
    \cup (IF fields[p]["write"] = "set" THEN {"writeAllocator", "writeFd"} ELSE {})

\* munmap takes no length of 0 and none that has wrapped.
MappedPages(total) == IF total + ArenaHeader > 0 THEN Pages(total + ArenaHeader) ELSE 0

Unmapped(p, m, q) == IF fields[p][m] = "set" THEN MappedPages(totalSize[q]) ELSE 0

\* transport_shm_destroy and transport_uds_destroy, with what the process has,
\* and how it goes on.  An allocator or an event manager that was never set is
\* skipped if it happens to be NULL, though event_manager_uds_destroy asserts
\* that it is not; any other value is used, and what happens then is undefined.
\* Requests in the ring stay there.
Destroy(p, has, next) ==
  LET looked == IF kind = "shm" THEN {"read", "write", "manager"} ELSE {"manager"}
      wild == \E x \in looked : fields[p][x] = "wild"
      null == kind = "uds" /\ fields[p]["manager"] = "null"
  IN \/ wild /\ Reach(p, "undefined") /\ UNCHANGED <<owned, pages>>
     \/ ~wild /\ null /\ Reach(p, "aborted") /\ UNCHANGED <<owned, pages>>
     \/ /\ ~wild /\ ~null
        /\ Reach(p, next)
        /\ owned' = [owned EXCEPT ![p] = has \ Given(p)]
        /\ pages' = [pages EXCEPT ![p]["read"] = @ - Unmapped(p, "read", PeerOf[p]),
                                  ![p]["write"] = @ - Unmapped(p, "write", p)]

MayFail ==
  /\ failuresLeft > 0
  /\ failuresLeft' = failuresLeft - 1

\* init cannot go on, and leaves something behind: NULL is returned.
GiveUp(p, leaves) ==
  /\ Destroy(p, owned[p] \cup leaves, "null")
  /\ UNCHANGED <<kind, bufferSize, fields, totalSize, ring>>

Fail(p, leaves) == MayFail /\ GiveUp(p, leaves)

-----------------------------------------------------------------------------
(* Shared memory *)

\* transport_shm_create_mapping, for the mapping p writes to: the mapping of
\* its header stays.  When memfd_create or mmap fail there is no file; when
\* ftruncate fails it is not closed.
CreateMapping(p, sizes) ==
  /\ kind = "shm" /\ at[p] = "none"
  /\ \/ /\ Reach(p, "mapping")
        /\ Own(p, {"writeFd", "readFd"})
        /\ \E size \in sizes : bufferSize' = [bufferSize EXCEPT ![p] = size]
        /\ pages' = [pages EXCEPT ![p]["write"] = Pages(ArenaHeader)]
        /\ UNCHANGED failuresLeft
     \/ /\ MayFail
        /\ Reach(p, "null")
        /\ \E left \in {{}, {"writeFd"}} : Own(p, left)
        /\ UNCHANGED <<bufferSize, pages>>
  /\ UNCHANGED <<kind, fields, totalSize, ring>>

\* transport_shm_init is given the files of both mappings.  Only the name, the
\* logger and the functions are set before the event manager is created.
ShmBegin(p) ==
  /\ kind = "shm" /\ at[p] = "mapping"
  /\ bufferSize[PeerOf[p]] > 0
  /\ \/ MayFail /\ Reach(p, "null") /\ UNCHANGED <<fields, owned>>
     \/ /\ Reach(p, "begun")
        /\ Own(p, {"transport"})
        /\ \E f \in [{"read", "write", "manager"} -> Unset] : fields' = [fields EXCEPT ![p] = f]
        /\ UNCHANGED failuresLeft
  /\ UNCHANGED <<kind, bufferSize, pages, totalSize, ring>>

\* event_manager_shm_create.  The manager is not freed when the ring gives no
\* probe, and neither is the probe when it has no futex operations.
ShmManagerFails(p) ==
  /\ kind = "shm" /\ at[p] = "begun"
  /\ \E leaves \in {{}, {"manager"}, {"manager", "probe"}} : Fail(p, leaves)

\* (mutant) The event manager is not put into the transport.
ShmManagerNotSet(p) ==
  /\ kind = "shm" /\ at[p] = "begun"
  /\ Reach(p, "managed")
  /\ Own(p, {"manager"})
  /\ UNCHANGED <<kind, bufferSize, fields, pages, totalSize, ring, failuresLeft>>

ShmManager(p) ==
  /\ kind = "shm" /\ at[p] = "begun"
  /\ Reach(p, "managed")
  /\ Own(p, {"manager"})
  /\ fields' = [fields EXCEPT ![p]["manager"] = "set"]
  /\ UNCHANGED <<kind, bufferSize, pages, totalSize, ring, failuresLeft>>

ReadMapFails(p) == kind = "shm" /\ at[p] = "managed" /\ Fail(p, {})

ReadMap(p) ==
  /\ kind = "shm" /\ at[p] = "managed"
  /\ Reach(p, "readMapped")
  /\ pages' = [pages EXCEPT ![p]["read"] = Pages(bufferSize[PeerOf[p]])]
  /\ UNCHANGED <<kind, bufferSize, fields, owned, totalSize, ring, failuresLeft>>

\* allocator_attach: the mapping is not given back when it fails.
AttachFails(p) == kind = "shm" /\ at[p] = "readMapped" /\ Fail(p, {})

\* (mutant) The allocator is not put into the read arena.
AttachNotSet(p) ==
  /\ kind = "shm" /\ at[p] = "readMapped"
  /\ Reach(p, "attached")
  /\ Own(p, {"readAllocator"})
  /\ UNCHANGED <<kind, bufferSize, fields, pages, totalSize, ring, failuresLeft>>

Attach(p) ==
  /\ kind = "shm" /\ at[p] = "readMapped"
  /\ Reach(p, "attached")
  /\ Own(p, {"readAllocator"})
  /\ fields' = [fields EXCEPT ![p]["read"] = "set"]
  /\ UNCHANGED <<kind, bufferSize, pages, totalSize, ring, failuresLeft>>

\* The mapping is smaller than a message, or it cannot be mapped.
WriteMapFails(p) ==
  /\ kind = "shm" /\ at[p] = "attached"
  /\ \/ bufferSize[p] < MaxMessageSize /\ GiveUp(p, {}) /\ UNCHANGED failuresLeft
     \/ bufferSize[p] >= MaxMessageSize /\ Fail(p, {})

\* The pages of the header that create_mapping has mapped are still there.
WriteMap(p) ==
  /\ kind = "shm" /\ at[p] = "attached"
  /\ bufferSize[p] >= MaxMessageSize
  /\ Reach(p, "writeMapped")
  /\ pages' = [pages EXCEPT ![p]["write"] = @ + Pages(bufferSize[p])]
  /\ UNCHANGED <<kind, bufferSize, fields, owned, totalSize, ring, failuresLeft>>

\* What the allocator gets is behind the header of the arena.  Sizes are
\* unsigned: of a smaller mapping it is told a size that has wrapped, which is
\* the negative one here, and which no check finds too small.
Memory(p) == bufferSize[p] - ArenaHeader
Lacks(p, least) == 0 <= Memory(p) /\ Memory(p) < least
Asserted == MaxMessageSize + MessageHeader

\* allocator_create asserts that a message fits with its header: a mapping
\* that init has found large enough may fail the assertion.
CreateAborts(p) ==
  /\ kind = "shm" /\ at[p] = "writeMapped"
  /\ Lacks(p, Asserted)
  /\ Reach(p, "aborted")
  /\ UNCHANGED <<kind, bufferSize, fields, owned, pages, totalSize, ring, failuresLeft>>

\* There is no room for a block, or no memory: the mapping is not given back.
CreateFails(p) ==
  /\ kind = "shm" /\ at[p] = "writeMapped"
  /\ ~Lacks(p, Asserted)
  /\ \/ Lacks(p, LeastArena) /\ GiveUp(p, {}) /\ UNCHANGED failuresLeft
     \/ ~Lacks(p, LeastArena) /\ Fail(p, {})

\* The first block is taken to be as large as the wrapped size says: where its
\* footer is written is undefined.
CreateOverruns(p) ==
  /\ kind = "shm" /\ at[p] = "writeMapped"
  /\ Memory(p) < 0
  /\ Reach(p, "undefined")
  /\ totalSize' = [totalSize EXCEPT ![p] = Memory(p) - AllocatorHeader]
  /\ UNCHANGED <<kind, bufferSize, fields, owned, pages, ring, failuresLeft>>

\* The allocator's own header does not count as total_size.
Create(p) ==
  /\ kind = "shm" /\ at[p] = "writeMapped"
  /\ Memory(p) >= Asserted /\ Memory(p) >= LeastArena
  /\ Reach(p, "up")
  /\ Own(p, {"writeAllocator"})
  /\ fields' = [fields EXCEPT ![p]["write"] = "set"]
  /\ totalSize' = [totalSize EXCEPT ![p] = Memory(p) - AllocatorHeader]
  /\ UNCHANGED <<kind, bufferSize, pages, ring, failuresLeft>>

-----------------------------------------------------------------------------
(* Sockets *)

\* transport_uds_init sets all but the event manager.
UdsBegin(p) ==
  /\ kind = "uds" /\ at[p] = "none"
  /\ \/ MayFail /\ Reach(p, "null") /\ Own(p, {"socket"}) /\ UNCHANGED fields
     \/ /\ Reach(p, "begun")
        /\ Own(p, {"socket", "transport"})
        /\ \E garbage \in Unset : fields' = [fields EXCEPT ![p]["manager"] = garbage]
        /\ UNCHANGED failuresLeft
  /\ UNCHANGED <<kind, bufferSize, pages, totalSize, ring>>

UdsManagerFails(p) == kind = "uds" /\ at[p] = "begun" /\ Fail(p, {})

\* event_manager_uds_create asks for readable events at once.
UdsManager(p) ==
  /\ kind = "uds" /\ at[p] = "begun"
  /\ Reach(p, "up")
  /\ Own(p, {"manager"})
  /\ fields' = [fields EXCEPT ![p]["manager"] = "set"]
  /\ ring' = [ring EXCEPT ![p] = {"read"}]
  /\ UNCHANGED <<kind, bufferSize, pages, totalSize, failuresLeft>>

-----------------------------------------------------------------------------
\* A request of a transport that is gone completes: the event is a part of the
\* event manager that was freed.
LateEvent(p) ==
  /\ at[p] = "gone" /\ ring[p] # {}
  /\ Reach(p, "undefined")
  /\ UNCHANGED <<kind, bufferSize, fields, owned, pages, totalSize, ring, failuresLeft>>

LifeNext(p, sizes) ==
  \/ CreateMapping(p, sizes)
  \/ ShmBegin(p)
  \/ ShmManagerFails(p) \/ ShmManager(p)
  \/ ReadMapFails(p) \/ ReadMap(p)
  \/ AttachFails(p) \/ Attach(p)
  \/ WriteMapFails(p) \/ WriteMap(p)
  \/ CreateAborts(p) \/ CreateFails(p) \/ CreateOverruns(p) \/ Create(p)
  \/ UdsBegin(p)
  \/ UdsManagerFails(p) \/ UdsManager(p)
  \/ LateEvent(p)

-----------------------------------------------------------------------------
\* After a whole init, destroy gives everything back but pages: those of the
\* header that create_mapping mapped, and the last page of a mapping that
\* reaches into it by less than the allocator's header, which total_size does
\* not count.  A mapping whose writer has not come up yet is left, but for the
\* page of its header.
Left(q, total) == Pages(bufferSize[q]) - MappedPages(total)
LastPage(q) == Left(q, Memory(q) - AllocatorHeader)

DestroyReleases ==
  \A p \in Processes : at[p] = "gone" =>
    /\ owned[p] = {}
    /\ kind = "shm" =>
         /\ pages[p]["write"] = Pages(ArenaHeader) + LastPage(p)
         /\ pages[p]["read"] \in {LastPage(PeerOf[p]), Left(PeerOf[p], 0)}

\* When init returns NULL the application has the files or the socket it came
\* with, and never the transport or the allocator of an attached arena.  The
\* file it reads from is closed exactly when that arena was attached, and then
\* its mapping is gone but for what DestroyReleases says; before, a mapping
\* that was made is left whole.  Everything that was mapped for writing is
\* left.  An event manager is left only by its own create, before all that.
FailedInitLeaves ==
  \A p \in Processes : at[p] = "null" =>
    LET has == owned[p]
        mapped == pages[p]
    IN /\ kind = "uds" => has = {"socket"}
       /\ kind = "shm" =>
            /\ has \subseteq {"readFd", "writeFd", "manager", "probe"}
            /\ bufferSize[p] > 0 => "writeFd" \in has
            /\ mapped["write"] \in
                 IF bufferSize[p] = 0 THEN {0}
                 ELSE {Pages(ArenaHeader), Pages(ArenaHeader) + Pages(bufferSize[p])}
            /\ IF bufferSize[p] = 0 \/ "readFd" \in has
               THEN mapped["read"] \in {0, Pages(bufferSize[PeerOf[p]])}
               ELSE mapped["read"] \in {LastPage(PeerOf[p]), Left(PeerOf[p], 0)}
            /\ has \cap {"manager", "probe"} # {} =>
                 "readFd" \in has /\ mapped["read"] = 0 /\ mapped["write"] = Pages(ArenaHeader)
=============================================================================
