---------------------------- MODULE ShmAllocator ---------------------------
(***************************************************************************)
(* The allocator of an arena (shmem/allocator.c).  Its memory is tiled by  *)
(* blocks; each block carries its size and type in a header at its start   *)
(* and in a footer at its end, and the free ones are chained in a list     *)
(* that starts in the allocator's header.  Sizes and offsets are counted   *)
(* in words of ALIGNMENT bytes from the allocator's header.                *)
(*                                                                         *)
(* Every operation runs under allocator_lock (FutexLock shows that one     *)
(* does at a time), so each is one action.  trim_block looks at the size   *)
(* of its block before it takes the lock, but only the block's owner       *)
(* changes that.  The callers are those of the transport: message_init     *)
(* allocates, message_send trims, cancel forgets, and the receiver frees.  *)
(* free_size is left out: the allocator writes it and never reads it.      *)
(***************************************************************************)
EXTENDS Integers, FiniteSets, Sequences

CONSTANTS
  TotalSize,       \* words of blocks (total_size)
  MaxMessageSize,  \* words of the largest message with its message header
  AllocHeader,     \* words of kb_allocator_header_t
  BlockHeader,     \* words of kb_block_header_t
  BlockFooter,     \* words of kb_block_footer_t
  MinPayload,      \* the 64 bytes of MIN_BLOCK_SIZE
  SentSizes,       \* the sizes of the messages sent
  MaxCancelled     \* bound: how many writers are cancelled

\* allocator_create checks the size of the memory it is given, header included,
\* against sizeof(kb_allocator_t), which is two words.
ASSUME CreateAccepts == AllocHeader + TotalSize >= 2 + MaxMessageSize + BlockHeader

\* (With the sizes of a 64-bit build CreateAccepts makes TotalSize no less than
\* MaxMessageSize, which is asserted to be positive.)
ASSUME SizesAssumption ==
  /\ {TotalSize, MaxMessageSize} \subseteq Nat \ {0}
  /\ {AllocHeader, BlockHeader, BlockFooter, MinPayload} \subseteq Nat \ {0}
  /\ SentSizes \subseteq 1..MaxMessageSize
  /\ MaxCancelled \in Nat

NULL == -1         \* NULL_OFFSET
FREE == 0          \* KB_BLOCK_TAG_FREE
ALLOCATED == 1     \* KB_BLOCK_TAG_ALLOCATED

Start == AllocHeader
End == AllocHeader + TotalSize
MinBlock == BlockHeader + BlockFooter + MinPayload
AllocSize == MaxMessageSize + BlockHeader + BlockFooter

VARIABLES
  mem,         \* the arena: the list's head, the headers by the offset of
               \* their block, the footers by the offset of its end
  writing,     \* blocks of open writers
  sent,        \* blocks of messages sent and not yet released
  cancelled,   \* blocks of cancelled writers
  aborted      \* an assertion has failed, with the lock held

vars == <<mem, writing, sent, cancelled, aborted>>

Owned == writing \cup sent \cup cancelled

-----------------------------------------------------------------------------
(* The helpers of allocator.c, each a function of the memory *)

\* The assertion of allocator_offset_to_block.
InRange(offset) == 0 < offset /\ offset < TotalSize

\* (mutant) Only the header is written.
WriteHeaderOnly(m, b, size, type) ==
  LET kept == {o \in DOMAIN m.hdr : o < b \/ o >= b + size}
      next == IF b \in DOMAIN m.hdr THEN m.hdr[b].next ELSE NULL
  IN [m EXCEPT !.hdr = [o \in kept \cup {b} |->
                          IF o = b THEN [size |-> size, type |-> type, next |-> next]
                                   ELSE m.hdr[o]]]

\* Writes the header and the footer of a block.  Tags that end up inside the
\* block are payload from now on.
WriteTags(m, b, size, type) ==
  LET keptHdr == {o \in DOMAIN m.hdr : o < b \/ o >= b + size}
      keptFtr == {e \in DOMAIN m.ftr : e <= b \/ e > b + size}
      next == IF b \in DOMAIN m.hdr THEN m.hdr[b].next ELSE NULL
  IN [m EXCEPT
        !.hdr = [o \in keptHdr \cup {b} |->
                   IF o = b THEN [size |-> size, type |-> type, next |-> next]
                            ELSE m.hdr[o]],
        !.ftr = [e \in keptFtr \cup {b + size} |->
                   IF e = b + size THEN [size |-> size, type |-> type] ELSE m.ftr[e]]]

\* The free list, from its head.
FreeList(m) ==
  LET From[o \in DOMAIN m.hdr \cup {NULL}] ==
        IF o = NULL THEN <<>> ELSE <<o>> \o From[m.hdr[o].next]
  IN From[m.head]

FreeBlocks(m) == {FreeList(m)[i] : i \in DOMAIN FreeList(m)}

AddFree(m, b) ==
  LET tagged == WriteTags(m, b, m.hdr[b].size, FREE)
  IN [tagged EXCEPT !.hdr[b].next = m.head, !.head = b]

\* (FreeListExact says that the search finds the block: the assert(false)
\* after it is not reached.)
RemoveFree(m, b) ==
  LET rest == m.hdr[b].next
      unlinked == IF m.head = b THEN [m EXCEPT !.head = rest]
                  ELSE LET before == CHOOSE c \in FreeBlocks(m) : m.hdr[c].next = b
                       IN [m EXCEPT !.hdr[before].next = rest]
  IN WriteTags([unlinked EXCEPT !.hdr[b].next = NULL], b, m.hdr[b].size, ALLOCATED)

\* (mutant) A block is split however little is left over.
TrimBlockTight(m, b, size) ==
  LET rest == m.hdr[b].size - size
      split == WriteTags(WriteTags(m, b + size, rest, FREE), b, size, ALLOCATED)
  IN IF rest <= 0 THEN m ELSE AddFree(split, b + size)

\* (mutant) The remainder is cut off and not put on the list.
TrimBlockDropping(m, b, size) ==
  LET rest == m.hdr[b].size - size
  IN IF rest < MinBlock THEN m
     ELSE WriteTags(WriteTags(m, b + size, rest, FREE), b, size, ALLOCATED)

\* The end of the block is cut off when a block of its own fits there.  (It
\* starts MinBlock words before the end of the memory at the latest, so the
\* range assertion on its offset holds.)
TrimBlock(m, b, size) ==
  LET rest == m.hdr[b].size - size
      split == WriteTags(WriteTags(m, b + size, rest, FREE), b, size, ALLOCATED)
  IN IF rest < MinBlock THEN m ELSE AddFree(split, b + size)

\* The type before a block is read from where the footer of its predecessor
\* is.  The first block has none: the read finds next_free_block_offset, the
\* last field of the allocator's header.
TypeBefore(m, b) == IF b = Start THEN m.head ELSE m.ftr[b].type

\* (mutant) Only the header of the merged block gets its new size.
CoalescePrevHeaderOnly(m, b) ==
  LET p == b - m.ftr[b].size
      m2 == RemoveFree(m, b)
  IN IF TypeBefore(m, b) = FREE
     THEN [mem |-> WriteHeaderOnly(m2, p, m2.hdr[p].size + m2.hdr[b].size, FREE), block |-> p]
     ELSE [mem |-> m, block |-> b]

\* A free predecessor swallows the block.
CoalescePrev(m, b) ==
  LET p == b - m.ftr[b].size
      m2 == RemoveFree(m, b)
  IN IF TypeBefore(m, b) = FREE
     THEN [mem |-> WriteTags(m2, p, m2.hdr[p].size + m2.hdr[b].size, FREE), block |-> p]
     ELSE [mem |-> m, block |-> b]

\* (mutant) The free successor is swallowed and stays on the list.
CoalesceNextListed(m, b) ==
  LET n == b + m.hdr[b].size
  IN IF m.hdr[n].type = FREE THEN WriteTags(m, b, m.hdr[b].size + m.hdr[n].size, FREE) ELSE m

\* (mutant) A free successor is left where it is.
CoalesceNextNever(m, b) == m

\* A free successor is swallowed by the block.
CoalesceNext(m, b) ==
  LET n == b + m.hdr[b].size
      m2 == RemoveFree(m, n)
  IN IF m.hdr[n].type = FREE
     THEN WriteTags(m2, b, m2.hdr[b].size + m2.hdr[n].size, FREE)
     ELSE m

-----------------------------------------------------------------------------
(* allocator_create *)

Empty == [head |-> NULL, hdr |-> <<>>, ftr |-> <<>>]

Init ==
  /\ mem = AddFree(WriteTags(Empty, Start, TotalSize, FREE), Start)
  /\ writing = {} /\ sent = {} /\ cancelled = {}
  /\ aborted = FALSE

-----------------------------------------------------------------------------
(* allocator_alloc *)

Fitting(m) == {b \in FreeBlocks(m) : m.hdr[b].size >= AllocSize}

\* The first block of the list that is large enough.
FirstFit(m) ==
  LET l == FreeList(m)
      i == CHOOSE j \in DOMAIN l : /\ l[j] \in Fitting(m)
                                   /\ \A k \in 1..(j - 1) : l[k] \notin Fitting(m)
  IN l[i]

\* With no block large enough allocator_alloc returns NULL and nothing changes.
Alloc ==
  /\ ~aborted
  /\ Fitting(mem) # {}
  /\ LET b == FirstFit(mem)
         cut == TrimBlock(RemoveFree(mem, b), b, AllocSize)
     IN /\ mem' = WriteTags(cut, b, cut.hdr[b].size, ALLOCATED)
        /\ writing' = writing \cup {b}
  /\ UNCHANGED <<sent, cancelled, aborted>>

(* allocator_trim, called by transport_shm_message_send for a message of n
   words *)

\* (mutant) The room for the block's own tags is not asked for.
TrimWithoutTags(b, n) ==
  /\ ~aborted
  /\ b \in writing
  /\ mem' = TrimBlock(mem, b, n)
  /\ writing' = writing \ {b}
  /\ sent' = sent \cup {b}
  /\ UNCHANGED <<cancelled, aborted>>

Trim(b, n) ==
  /\ ~aborted
  /\ b \in writing
  /\ mem' = TrimBlock(mem, b, n + BlockHeader + BlockFooter)
  /\ writing' = writing \ {b}
  /\ sent' = sent \cup {b}
  /\ UNCHANGED <<cancelled, aborted>>

(* message_writer_shm_cancel: the writer is freed, the block is not *)

Cancel(b) ==
  /\ ~aborted
  /\ b \in writing
  /\ Cardinality(cancelled) < MaxCancelled
  /\ writing' = writing \ {b}
  /\ cancelled' = cancelled \cup {b}
  /\ UNCHANGED <<mem, sent, aborted>>

(* allocator_free *)

\* The block goes to the head of the list and is merged with its neighbours.
\* The program ends on an assertion when the offset of the next one is out of
\* range: the lock stays taken and the arena as it is.
Free(b) ==
  /\ ~aborted
  /\ b \in sent
  /\ LET merged == CoalescePrev(AddFree(mem, b), b)
         end == merged.block + merged.mem.hdr[merged.block].size
     IN /\ mem' = IF InRange(end) THEN CoalesceNext(merged.mem, merged.block) ELSE merged.mem
        /\ aborted' = ~InRange(end)
  /\ sent' = sent \ {b}
  /\ UNCHANGED <<writing, cancelled>>

Next ==
  \/ Alloc
  \/ \E b \in writing : Cancel(b) \/ \E n \in SentSizes : Trim(b, n)
  \/ \E b \in sent : Free(b)

Spec == Init /\ [][Next]_vars

-----------------------------------------------------------------------------
Blocks == DOMAIN mem.hdr
BlockEnd(b) == b + mem.hdr[b].size

TypeOK ==
  /\ mem.head \in Blocks \cup {NULL}
  /\ Blocks \subseteq Start..(End - 1)
  /\ \A b \in Blocks : /\ mem.hdr[b].size \in 1..TotalSize
                       /\ mem.hdr[b].type \in {FREE, ALLOCATED}
                       /\ mem.hdr[b].next \in Blocks \cup {NULL}
  /\ Owned \subseteq Blocks
  /\ aborted \in BOOLEAN

\* The blocks tile the memory, and the footer at the end of each says what its
\* header says.  Merging relies on it: it finds the neighbours of a block from
\* its own size and from the footer before it.
Tiled ==
  /\ \A b \in Blocks : BlockEnd(b) = End \/ BlockEnd(b) \in Blocks
  /\ \A b, c \in Blocks : b < c => BlockEnd(b) <= c
  /\ Start \in Blocks
  /\ DOMAIN mem.ftr = {BlockEnd(b) : b \in Blocks}
  /\ \A b \in Blocks :
       mem.ftr[BlockEnd(b)] = [size |-> mem.hdr[b].size, type |-> mem.hdr[b].type]

\* The free list holds the blocks tagged free, each once, and the blocks that
\* are tagged allocated are exactly those somebody was given.
FreeListExact ==
  /\ Len(FreeList(mem)) = Cardinality(FreeBlocks(mem))
  /\ FreeBlocks(mem) = {b \in Blocks : mem.hdr[b].type = FREE}
  /\ Owned = {b \in Blocks : mem.hdr[b].type = ALLOCATED}

\* No block is too small for its tags and the smallest message.
BlocksUsable == \A b \in Blocks : mem.hdr[b].size >= BlockHeader + BlockFooter + 1

\* Whatever was allocated, trimmed and freed, and in whatever order: when
\* nothing is allocated the largest message can be.
AllocatesWhenEmpty == Owned = {} /\ ~aborted => Fitting(mem) # {}

\* Nobody's block moves, grows or changes under it: a block that stays with
\* its owner keeps its tag and its size.  Only the one that is being sent
\* shrinks, and whatever the message and the block, the message still fits
\* between its tags.  A new block is tagged as allocated and has room for the
\* largest message.
OwnersUndisturbed ==
  [][ /\ \A b \in Owned \cap Owned' :
            /\ mem'.hdr[b].type = mem.hdr[b].type
            /\ \/ mem'.hdr[b].size = mem.hdr[b].size
               \/ /\ b \in writing /\ b \in sent'
                  /\ mem'.hdr[b].size < mem.hdr[b].size
      /\ \A b \in writing : \A n \in SentSizes :
            Trim(b, n) => mem'.hdr[b].size >= n + BlockHeader + BlockFooter
      /\ \A b \in Owned' \ Owned : /\ mem'.hdr[b].type = ALLOCATED
                                   /\ mem'.hdr[b].size >= AllocSize ]_vars

-----------------------------------------------------------------------------
\* What an assertion of the repository says, and the code does not do: the
\* offset given to allocator_offset_to_block is that of a block.
NoAbort == ~aborted
=============================================================================
