------------------------- MODULE ShmAllocatorProofs ------------------------
(***************************************************************************)
(* Proofs about the allocator of an arena, for memory and messages of any  *)
(* size: whatever is allocated, trimmed and freed, and in whatever order,  *)
(* the blocks tile the memory, the free list is exact, and nobody's block  *)
(* is disturbed.                                                           *)
(***************************************************************************)
EXTENDS ShmAllocator, SequenceTheorems, FiniteSetTheorems, WellFoundedInduction, TLAPS

-----------------------------------------------------------------------------
(* Memory as what it represents: the sizes and the types of the blocks, and *)
(* the list of those that are free                                          *)

Entry(l, i) == IF i \in 1..Len(l) THEN l[i] ELSE NULL

InList(l, b) == \E i \in 1..Len(l) : l[i] = b

\* l is a list of blocks without repetition, and the memory links it: the
\* blocks that are not in the list link to nothing.
Chained(m, l) ==
  /\ l \in Seq(DOMAIN m.hdr)
  /\ \A i, j \in 1..Len(l) : l[i] = l[j] => i = j
  /\ m.head = Entry(l, 1)
  /\ \A i \in 1..Len(l) : m.hdr[l[i]].next = Entry(l, i + 1)
  /\ \A b \in DOMAIN m.hdr : ~InList(l, b) => m.hdr[b].next = NULL

-----------------------------------------------------------------------------
(* The free list *)

\* A set of natural numbers that is not empty has a least element.
LEMMA Least ==
  ASSUME NEW T \in SUBSET Nat, T # {}
  PROVE  \E x \in T : \A y \in T : x <= y
<1>1. PICK x \in T : \A y \in T : ~(<<y, x>> \in OpToRel(<, Nat))
  BY NatLessThanWellFounded, WFMin, Zenon
<1>2. \A y \in T : y < x => <<y, x>> \in OpToRel(<, Nat)
  BY DEF OpToRel
<1>3. \A y \in T : ~(y < x)
  BY <1>1, <1>2, Zenon
<1>4. QED
  BY <1>3

\* The ends of a list: the i-th is the list from its i-th block on.
LEMMA Tails ==
  ASSUME NEW S, NEW l \in Seq(S)
  PROVE  LET n == Len(l)
         IN /\ SubSeq(l, 1, n) = l
            /\ SubSeq(l, n + 1, n) = <<>>
            /\ \A i \in 1..n : SubSeq(l, i, n) = <<l[i]>> \o SubSeq(l, i + 1, n)
<1>1. PICK n \in Nat : n = Len(l)
  OBVIOUS
<1>2. SubSeq(l, 1, n) = l
  BY <1>1, SubSeqFull
<1>3. SubSeq(l, n + 1, n) = <<>>
  BY SubSeqEmpty
<1>4. ASSUME NEW i \in 1..n PROVE SubSeq(l, i, n) = <<l[i]>> \o SubSeq(l, i + 1, n)
  <2>1. i \in 1..Len(l) /\ n \in i..Len(l)
    BY <1>1
  <2>2. QED
    BY <2>1, SubSeqRecursiveFirst
<1>5. QED
  BY <1>1, <1>2, <1>3, <1>4

LEMMA Alone ==
  ASSUME NEW x
  PROVE  <<x>> \o <<>> = <<x>>
<1>1. <<x>> \in Seq({x})
  OBVIOUS
<1>2. QED
  BY <1>1, ConcatEmptySeq

\* The walk along the links finds the list that is linked.
LEMMA Listing ==
  ASSUME NEW m, DOMAIN m.hdr \subseteq Nat, NEW l, Chained(m, l)
  PROVE  FreeList(m) = l
<1> DEFINE B == DOMAIN m.hdr
           next(o) == m.hdr[o].next
           T(i) == SubSeq(l, i, Len(l))
<1>1. /\ l \in Seq(B)
      /\ \A i, j \in 1..Len(l) : l[i] = l[j] => i = j
      /\ m.head = Entry(l, 1)
      /\ \A i \in 1..Len(l) : next(l[i]) = Entry(l, i + 1)
      /\ \A b \in B : ~InList(l, b) => next(b) = NULL
  BY DEF Chained
<1>2. PICK n \in Nat : n = Len(l)
  BY <1>1
<1>3. NULL \notin B
  BY DEF NULL
<1>4. T(1) = l /\ T(n + 1) = <<>> /\ \A i \in 1..n : T(i) = <<l[i]>> \o T(i + 1)
  BY <1>1, <1>2, Tails
<1> HIDE DEF T
<1>5. /\ \A i \in 1..n : Entry(l, i) = l[i] /\ l[i] \in B /\ l[i] # NULL
      /\ Entry(l, n + 1) = NULL
  <2>1. \A i \in 1..n : l[i] \in B
    BY <1>1, <1>2
  <2>2. QED
    BY <2>1, <1>2, <1>3 DEF Entry
<1> DEFINE Place(o) == CHOOSE i \in 1..n : l[i] = o
           g == [o \in B \cup {NULL} |-> IF o = NULL THEN <<>>
                                         ELSE IF InList(l, o) THEN T(Place(o)) ELSE <<o>>]
<1>6. g[NULL] = <<>>
  OBVIOUS
<1>7. \A i \in 1..n + 1 : Entry(l, i) \in B \cup {NULL} /\ g[Entry(l, i)] = T(i)
  <2>1. ASSUME NEW i \in 1..n PROVE g[l[i]] = T(i)
    <3>1. Place(l[i]) = i
      BY <1>1, <1>2
    <3>2. l[i] \in B /\ l[i] # NULL /\ InList(l, l[i])
      BY <1>2, <1>5 DEF InList
    <3> HIDE DEF Place
    <3>3. QED
      BY <3>1, <3>2
  <2> HIDE DEF g
  <2>2. QED
    BY <2>1, <1>4, <1>5, <1>6
<1>8. \A o \in B : ~InList(l, o) => g[o] = <<o>>
  BY <1>3
<1>9. g = [o \in B \cup {NULL} |-> IF o = NULL THEN <<>> ELSE <<o>> \o g[next(o)]]
  <2>1. g = [o \in B \cup {NULL} |-> g[o]]
    OBVIOUS
  <2> HIDE DEF g
  <2>2. ASSUME NEW o \in B PROVE g[o] = <<o>> \o g[next(o)]
    <3>1. CASE InList(l, o)
      <4>1. PICK i \in 1..n : l[i] = o
        BY <3>1, <1>2 DEF InList
      <4>2. next(o) = Entry(l, i + 1) /\ i + 1 \in 1..n + 1 /\ i \in 1..n + 1
        BY <4>1, <1>1, <1>2
      <4>3. g[o] = T(i) /\ g[next(o)] = T(i + 1)
        BY <4>1, <4>2, <1>5, <1>7
      <4>4. QED
        BY <4>1, <4>3, <1>4
    <3>2. CASE ~InList(l, o)
      <4>1. g[o] = <<o>> /\ next(o) = NULL
        BY <3>2, <1>1, <1>8
      <4>2. QED
        BY <4>1, <1>6, Alone
    <3>3. QED
      BY <3>1, <3>2
  <2>3. QED
    BY <2>1, <2>2, <1>3, <1>6
<1> HIDE DEF g
<1>10. PICK f : /\ f = [o \in B \cup {NULL} |-> IF o = NULL THEN <<>> ELSE <<o>> \o f[next(o)]]
                /\ FreeList(m) = f[m.head]
  BY <1>9 DEF FreeList
<1>11. f[NULL] = <<>> /\ \A i \in 1..n : f[l[i]] = <<l[i]>> \o f[Entry(l, i + 1)]
  <2>1. ASSUME NEW o \in B \cup {NULL}
        PROVE  f[o] = IF o = NULL THEN <<>> ELSE <<o>> \o f[next(o)]
    BY <1>10
  <2>2. f[NULL] = <<>>
    BY <2>1
  <2>3. ASSUME NEW i \in 1..n PROVE f[l[i]] = <<l[i]>> \o f[Entry(l, i + 1)]
    <3>1. l[i] \in B \cup {NULL} /\ l[i] # NULL /\ next(l[i]) = Entry(l, i + 1)
      BY <1>1, <1>2, <1>5
    <3> HIDE DEF next
    <3>2. f[l[i]] = <<l[i]>> \o f[next(l[i])]
      BY <3>1, <2>1
    <3>3. QED
      BY <3>1, <3>2
  <2>4. QED
    BY <2>2, <2>3
<1>12. \A i \in 1..n + 1 : f[Entry(l, i)] = T(i)
  <2> DEFINE D == {k \in 0..n : f[Entry(l, n + 1 - k)] # T(n + 1 - k)}
  <2>1. ASSUME D # {} PROVE FALSE
    <3>1. D \in SUBSET Nat
      OBVIOUS
    <3>2. PICK k \in D : \A j \in D : k <= j
      <4> HIDE DEF D
      <4>1. QED
        BY <2>1, <3>1, Least
    <3>3. k \in 0..n /\ f[Entry(l, n + 1 - k)] # T(n + 1 - k)
      BY <3>2
    <3>4. CASE k = 0
      <4>1. n + 1 - k = n + 1
        BY <3>4
      <4>2. QED
        BY <4>1, <3>3, <1>4, <1>5, <1>11
    <3>5. CASE k # 0
      <4>1. k - 1 \in 0..n /\ ~(k <= k - 1) /\ n + 1 - (k - 1) = (n + 1 - k) + 1
            /\ n + 1 - k \in 1..n
        BY <3>3, <3>5
      <4>2. k - 1 \notin D
        BY <4>1, <3>2
      <4>3. f[Entry(l, (n + 1 - k) + 1)] = T((n + 1 - k) + 1)
        BY <4>1, <4>2
      <4>4. QED
        BY <4>1, <4>3, <3>3, <1>4, <1>5, <1>11
    <3>6. QED
      BY <3>4, <3>5
  <2>2. ASSUME NEW i \in 1..n + 1 PROVE f[Entry(l, i)] = T(i)
    <3>1. n + 1 - i \in 0..n /\ n + 1 - (n + 1 - i) = i
      OBVIOUS
    <3>2. n + 1 - i \notin D
      BY <2>1
    <3>3. QED
      BY <3>1, <3>2
  <2>3. QED
    BY <2>2
<1>13. 1 \in 1..n + 1
  OBVIOUS
<1>14. QED
  BY <1>1, <1>4, <1>10, <1>12, <1>13

-----------------------------------------------------------------------------
(* The parts of the memory *)

IsMemory(m) == m = [head |-> m.head, hdr |-> m.hdr, ftr |-> m.ftr]

\* The memory with another head of the list.
Headed(m, x) == [m EXCEPT !.head = x]

LEMMA HeadSet ==
  ASSUME NEW m, IsMemory(m), NEW x
  PROVE  LET w == Headed(m, x)
         IN IsMemory(w) /\ w.head = x /\ w.hdr = m.hdr /\ w.ftr = m.ftr
<1> DEFINE w == Headed(m, x)
<1>1. w = [head |-> x, hdr |-> m.hdr, ftr |-> m.ftr]
  <2>1. PICK h, f : h = m.hdr /\ f = m.ftr
    OBVIOUS
  <2>2. w = [head |-> x, hdr |-> h, ftr |-> f]
    BY <2>1 DEF IsMemory, Headed
  <2>3. QED
    BY <2>1, <2>2
<1> HIDE DEF w
<1>2. w.head = x /\ w.hdr = m.hdr /\ w.ftr = m.ftr
  BY <1>1
<1>3. IsMemory(w)
  BY <1>1, <1>2 DEF IsMemory
<1>4. QED
  BY <1>2, <1>3 DEF w

\* The memory with another link of a block.
Linked(m, b, x) == [m EXCEPT !.hdr[b].next = x]

LEMMA NextSet ==
  ASSUME NEW m, IsMemory(m), NEW b \in DOMAIN m.hdr, NEW size, NEW type, NEW x,
         m.hdr[b] = [size |-> size, type |-> type, next |-> m.hdr[b].next]
  PROVE  LET w == Linked(m, b, x)
         IN /\ IsMemory(w) /\ w.head = m.head /\ w.ftr = m.ftr
            /\ w.hdr = [c \in DOMAIN m.hdr |-> w.hdr[c]]
            /\ w.hdr[b] = [size |-> size, type |-> type, next |-> x] /\ w.hdr[b].next = x
            /\ \A c \in DOMAIN m.hdr \ {b} : w.hdr[c] = m.hdr[c]
<1> DEFINE w == Linked(m, b, x)
           e == [m.hdr[b] EXCEPT !.next = x]
           h == [m.hdr EXCEPT ![b] = e]
<1>1. w = [head |-> m.head, hdr |-> h, ftr |-> m.ftr]
  BY DEF IsMemory, Linked
<1>2. e = [size |-> size, type |-> type, next |-> x]
  <2>1. PICK y : y = m.hdr[b]
    OBVIOUS
  <2>2. PICK z : z = [size |-> size, type |-> type, next |-> m.hdr[b].next]
    OBVIOUS
  <2>3. y = z
    BY <2>1, <2>2
  <2>4. [z EXCEPT !.next = x] = [size |-> size, type |-> type, next |-> x]
    BY <2>2
  <2>5. QED
    BY <2>1, <2>3, <2>4
<1> HIDE DEF e
<1>3. /\ h = [c \in DOMAIN m.hdr |-> h[c]] /\ h[b] = e
      /\ \A c \in DOMAIN m.hdr \ {b} : h[c] = m.hdr[c]
  OBVIOUS
<1> HIDE DEF h
<1> HIDE DEF w
<1>4. w.head = m.head /\ w.hdr = h /\ w.ftr = m.ftr
  BY <1>1
<1>5. IsMemory(w)
  BY <1>1, <1>4 DEF IsMemory
<1>6. e.next = x
  BY <1>2
<1>7. /\ IsMemory(w) /\ w.head = m.head /\ w.ftr = m.ftr
      /\ w.hdr = [c \in DOMAIN m.hdr |-> w.hdr[c]]
      /\ w.hdr[b] = [size |-> size, type |-> type, next |-> x] /\ w.hdr[b].next = x
      /\ \A c \in DOMAIN m.hdr \ {b} : w.hdr[c] = m.hdr[c]
  BY <1>2, <1>3, <1>4, <1>5, <1>6
<1>8. QED
  BY <1>7 DEF w

\* What WriteTags makes of the headers and of the footers.
IsWritten(w, m, b, size, type) ==
  LET keptHdr == {o \in DOMAIN m.hdr : o < b \/ o >= b + size}
      keptFtr == {e \in DOMAIN m.ftr : e <= b \/ e > b + size}
  IN /\ IsMemory(w)
     /\ w.head = m.head
     /\ DOMAIN w.hdr = keptHdr \cup {b}
     /\ w.hdr = [o \in DOMAIN w.hdr |-> w.hdr[o]]
     /\ w.hdr[b].size = size /\ w.hdr[b].type = type
     /\ w.hdr[b] = [size |-> size, type |-> type, next |-> w.hdr[b].next]
     /\ b \in DOMAIN m.hdr => w.hdr[b].next = m.hdr[b].next
     /\ b \notin DOMAIN m.hdr => w.hdr[b].next = NULL
     /\ \A o \in keptHdr \ {b} : w.hdr[o] = m.hdr[o]
     /\ DOMAIN w.ftr = keptFtr \cup {b + size}
     /\ w.ftr = [e \in DOMAIN w.ftr |-> w.ftr[e]]
     /\ w.ftr[b + size] = [size |-> size, type |-> type]
     /\ \A e \in keptFtr \ {b + size} : w.ftr[e] = m.ftr[e]

LEMMA Written ==
  ASSUME NEW m, IsMemory(m), NEW b, NEW size, NEW type
  PROVE  IsWritten(WriteTags(m, b, size, type), m, b, size, type)
<1> DEFINE w == WriteTags(m, b, size, type)
           keptHdr == {o \in DOMAIN m.hdr : o < b \/ o >= b + size}
           keptFtr == {e \in DOMAIN m.ftr : e <= b \/ e > b + size}
           next == IF b \in DOMAIN m.hdr THEN m.hdr[b].next ELSE NULL
           h == [o \in keptHdr \cup {b} |->
                   IF o = b THEN [size |-> size, type |-> type, next |-> next] ELSE m.hdr[o]]
           f == [e \in keptFtr \cup {b + size} |->
                   IF e = b + size THEN [size |-> size, type |-> type] ELSE m.ftr[e]]
<1>1. w = [m EXCEPT !.hdr = h, !.ftr = f]
  BY DEF WriteTags
<1> HIDE DEF w, h, f
<1>2. w = [head |-> m.head, hdr |-> h, ftr |-> f]
  BY <1>1 DEF IsMemory
<1>3. w.head = m.head /\ w.hdr = h /\ w.ftr = f
  BY <1>2
<1>4. IsMemory(w)
  BY <1>2, <1>3 DEF IsMemory
<1> HIDE DEF next, keptHdr, keptFtr
<1>5. /\ DOMAIN h = keptHdr \cup {b} /\ h = [o \in DOMAIN h |-> h[o]]
      /\ h[b] = [size |-> size, type |-> type, next |-> next]
      /\ \A o \in keptHdr \ {b} : h[o] = m.hdr[o]
  BY DEF h
<1>6. /\ DOMAIN f = keptFtr \cup {b + size} /\ f = [e \in DOMAIN f |-> f[e]]
      /\ f[b + size] = [size |-> size, type |-> type]
      /\ \A e \in keptFtr \ {b + size} : f[e] = m.ftr[e]
  BY DEF f
<1>7. /\ h[b].size = size /\ h[b].type = type /\ h[b].next = next
  BY <1>5
<1>8. QED
  BY <1>3, <1>4, <1>5, <1>6, <1>7 DEF w, next, keptHdr, keptFtr, IsWritten

LEMMA HeadKept ==
  ASSUME NEW m, IsMemory(m), NEW b, NEW size, NEW type
  PROVE  WriteTags(m, b, size, type).head = m.head
BY DEF IsMemory, WriteTags

IsBlocks(s) == s \in [DOMAIN s -> Nat \ {0}] /\ DOMAIN s \subseteq Start..(End - 1)

\* The memory says of the blocks what s and t say, and links the list l.
Represents(m, s, t, l) ==
  /\ IsMemory(m)
  /\ DOMAIN m.hdr = DOMAIN s
  /\ m.hdr = [b \in DOMAIN s |-> m.hdr[b]]
  /\ \A b \in DOMAIN s : m.hdr[b] = [size |-> s[b], type |-> t[b], next |-> m.hdr[b].next]
  /\ DOMAIN m.ftr = {b + s[b] : b \in DOMAIN s}
  /\ m.ftr = [e \in DOMAIN m.ftr |-> m.ftr[e]]
  /\ \A b \in DOMAIN s : m.ftr[b + s[b]] = [size |-> s[b], type |-> t[b]]
  /\ Chained(m, l)

LEMMA Fields ==
  ASSUME NEW m, NEW s, NEW t, NEW l, Represents(m, s, t, l), NEW b \in DOMAIN s
  PROVE  m.hdr[b].size = s[b] /\ m.hdr[b].type = t[b]
<1>1. PICK x, z, y, n : x = m.hdr[b] /\ z = s[b] /\ y = t[b] /\ n = m.hdr[b].next
  OBVIOUS
<1>2. x = [size |-> z, type |-> y, next |-> n]
  BY <1>1 DEF Represents
<1>3. x.size = z /\ x.type = y
  BY <1>2
<1>4. QED
  BY <1>1, <1>3

\* The blocks of sizes s tile the memory.
Tiling(s) ==
  /\ IsBlocks(s)
  /\ Start \in DOMAIN s
  /\ \A b \in DOMAIN s : b + s[b] = End \/ b + s[b] \in DOMAIN s
  /\ \A b, c \in DOMAIN s : b < c => b + s[b] <= c
  /\ \A b \in DOMAIN s \ {Start} : \E p \in DOMAIN s : p + s[p] = b

\* A memory whose tags and list agree.
Good(m, s, t, l) ==
  /\ Represents(m, s, t, l)
  /\ Tiling(s)
  /\ t \in [DOMAIN s -> {FREE, ALLOCATED}]
  /\ \A b \in DOMAIN s : t[b] = FREE <=> InList(l, b)

\* What the numbers of a tiling are, and that blocks lie apart.
LEMMA Apart ==
  ASSUME NEW s, Tiling(s)
  PROVE  /\ \A b \in DOMAIN s : /\ b \in Nat /\ b >= Start /\ b < End
                                /\ s[b] \in Nat /\ s[b] > 0
                                /\ b + s[b] \in Nat /\ b < b + s[b]
         /\ \A b, c \in DOMAIN s : b < c => b + s[b] <= c /\ b + s[b] < c + s[c]
         /\ \A b, c \in DOMAIN s : b # c => b + s[b] # c + s[c]
         /\ Start \in Nat /\ Start > 0 /\ End \in Nat
         /\ DOMAIN s \subseteq Nat
<1>1. Start \in Nat /\ Start > 0 /\ End \in Nat
  BY SizesAssumption DEF Start, End
<1>2. ASSUME NEW b \in DOMAIN s
      PROVE  /\ b \in Nat /\ b >= Start /\ b < End
             /\ s[b] \in Nat /\ s[b] > 0
             /\ b + s[b] \in Nat /\ b < b + s[b]
  <2>1. b \in Start..(End - 1) /\ s[b] \in Nat \ {0}
    BY DEF Tiling, IsBlocks
  <2>2. QED
    BY <1>1, <2>1
<1>3. ASSUME NEW b \in DOMAIN s, NEW c \in DOMAIN s, b < c
      PROVE  b + s[b] <= c /\ b + s[b] < c + s[c]
  <2>1. b + s[b] <= c
    BY <1>3 DEF Tiling
  <2>2. QED
    BY <1>2, <2>1
<1>4. ASSUME NEW b \in DOMAIN s, NEW c \in DOMAIN s, b # c
      PROVE  b + s[b] # c + s[c]
  <2>1. b < c \/ c < b
    BY <1>2, <1>4
  <2>2. QED
    BY <1>2, <1>3, <2>1
<1>5. QED
  BY <1>1, <1>2, <1>3, <1>4

\* A memory with the same blocks and the same links has the same list.
LEMMA SameChain ==
  ASSUME NEW m, NEW w, NEW l, Chained(m, l),
         DOMAIN w.hdr = DOMAIN m.hdr, w.head = m.head,
         \A b \in DOMAIN m.hdr : w.hdr[b].next = m.hdr[b].next
  PROVE  Chained(w, l)
<1>1. \A i \in 1..Len(l) : l[i] \in DOMAIN m.hdr
  BY DEF Chained
<1>2. QED
  BY <1>1 DEF Chained

\* Writing the tags of a block again, with its size, changes its type only.
LEMMA Retagged ==
  ASSUME NEW m, NEW s, NEW t, NEW l, Represents(m, s, t, l), Tiling(s),
         t \in [DOMAIN s -> {FREE, ALLOCATED}],
         NEW b \in DOMAIN s, NEW type \in {FREE, ALLOCATED}
  PROVE  Represents(WriteTags(m, b, s[b], type), s, [t EXCEPT ![b] = type], l)
<1> DEFINE w == WriteTags(m, b, s[b], type)
           u == [t EXCEPT ![b] = type]
           keptHdr == {o \in DOMAIN m.hdr : o < b \/ o >= b + s[b]}
           keptFtr == {e \in DOMAIN m.ftr : e <= b \/ e > b + s[b]}
<1>1. IsMemory(m) /\ DOMAIN m.hdr = DOMAIN s /\ DOMAIN m.ftr = {c + s[c] : c \in DOMAIN s}
  BY DEF Represents
<1>2. /\ IsMemory(w) /\ w.head = m.head
      /\ DOMAIN w.hdr = keptHdr \cup {b}
      /\ w.hdr = [o \in DOMAIN w.hdr |-> w.hdr[o]]
      /\ w.hdr[b] = [size |-> s[b], type |-> type, next |-> w.hdr[b].next]
      /\ w.hdr[b].next = m.hdr[b].next
      /\ \A o \in keptHdr \ {b} : w.hdr[o] = m.hdr[o]
      /\ DOMAIN w.ftr = keptFtr \cup {b + s[b]}
      /\ w.ftr = [e \in DOMAIN w.ftr |-> w.ftr[e]]
      /\ w.ftr[b + s[b]] = [size |-> s[b], type |-> type]
      /\ \A e \in keptFtr \ {b + s[b]} : w.ftr[e] = m.ftr[e]
  <2>1. b \in DOMAIN m.hdr
    BY <1>1
  <2>2. IsWritten(w, m, b, s[b], type)
    BY <1>1, Written
  <2> HIDE DEF w
  <2>3. QED
    BY <2>1, <2>2 DEF IsWritten
<1> HIDE DEF w
<1>3. \A c \in DOMAIN s : c # b => c \in keptHdr /\ c + s[c] \in keptFtr \ {b + s[b]}
  <2>1. ASSUME NEW c \in DOMAIN s, c # b
        PROVE  /\ c < b \/ c >= b + s[b]
               /\ c + s[c] <= b \/ c + s[c] > b + s[b]
               /\ c + s[c] # b + s[b]
    <3>1. c < b \/ b < c
      BY <2>1, Apart
    <3>2. QED
      BY <2>1, <3>1, Apart
  <2>2. QED
    BY <2>1, <1>1
<1>4. DOMAIN w.hdr = DOMAIN s /\ DOMAIN w.ftr = {c + s[c] : c \in DOMAIN s}
  <2>1. DOMAIN w.hdr = DOMAIN s
    BY <1>1, <1>2, <1>3
  <2>2. \A e \in keptFtr : e \in {c + s[c] : c \in DOMAIN s}
    BY <1>1
  <2>3. \A c \in DOMAIN s : c + s[c] \in keptFtr \cup {b + s[b]}
    BY <1>3
  <2> HIDE DEF keptFtr
  <2>4. QED
    BY <1>2, <2>1, <2>2, <2>3
<1>5. ASSUME NEW c \in DOMAIN s
      PROVE  /\ w.hdr[c] = [size |-> s[c], type |-> u[c], next |-> w.hdr[c].next]
             /\ w.hdr[c].next = m.hdr[c].next
             /\ w.ftr[c + s[c]] = [size |-> s[c], type |-> u[c]]
  <2>1. CASE c = b
    BY <2>1, <1>2
  <2>2. CASE c # b
    <3>1. u[c] = t[c]
      BY <2>2
    <3>2. w.hdr[c] = m.hdr[c] /\ w.ftr[c + s[c]] = m.ftr[c + s[c]]
      BY <2>2, <1>2, <1>3
    <3>3. m.hdr[c] = [size |-> s[c], type |-> t[c], next |-> m.hdr[c].next]
          /\ m.ftr[c + s[c]] = [size |-> s[c], type |-> t[c]]
      BY DEF Represents
    <3> HIDE DEF u
    <3>4. QED
      BY <3>1, <3>2, <3>3
  <2>3. QED
    BY <2>1, <2>2
<1> HIDE DEF u, keptHdr, keptFtr
<1>6. Chained(w, l)
  <2>1. Chained(m, l)
    BY DEF Represents
  <2>2. DOMAIN w.hdr = DOMAIN m.hdr /\ w.head = m.head
    BY <1>1, <1>2, <1>4
  <2>3. \A c \in DOMAIN m.hdr : w.hdr[c].next = m.hdr[c].next
    BY <1>1, <1>5
  <2>4. QED
    BY <2>1, <2>2, <2>3, SameChain
<1>7. Represents(w, s, u, l)
  BY <1>2, <1>4, <1>5, <1>6 DEF Represents
<1>8. QED
  BY <1>7 DEF w, u

\* Only the links have changed.
LEMMA Relinked ==
  ASSUME NEW m, NEW s, NEW t, NEW l, Represents(m, s, t, l),
         NEW w, NEW k, IsMemory(w), w.ftr = m.ftr, Chained(w, k),
         w.hdr = [b \in DOMAIN s |-> w.hdr[b]],
         \A b \in DOMAIN s : w.hdr[b] = [size |-> s[b], type |-> t[b], next |-> w.hdr[b].next]
  PROVE  Represents(w, s, t, k)
BY DEF Represents

\* A list with a block put before it.
LEMMA Consed ==
  ASSUME NEW S, NEW b \in S, NEW l \in Seq(S)
  PROVE  LET k == <<b>> \o l
         IN /\ k \in Seq(S) /\ Len(k) = Len(l) + 1
            /\ k[1] = b /\ \A i \in 1..Len(l) : k[i + 1] = l[i]
            /\ Entry(k, 1) = b /\ \A i \in 1..Len(l) + 1 : Entry(k, i + 1) = Entry(l, i)
            /\ \A c : InList(k, c) <=> c = b \/ InList(l, c)
<1> DEFINE k == <<b>> \o l
<1>1. PICK n \in Nat : n = Len(l)
  OBVIOUS
<1>2. k \in Seq(S) /\ Len(k) = n + 1 /\ k[1] = b /\ \A i \in 1..n : k[i + 1] = l[i]
  BY <1>1
<1> HIDE DEF k
<1>3. Entry(k, 1) = b
  BY <1>2 DEF Entry
<1>4. ASSUME NEW i \in 1..n + 1 PROVE Entry(k, i + 1) = Entry(l, i)
  <2>1. CASE i = n + 1
    <3>1. i \notin 1..n /\ i + 1 \notin 1..n + 1
      BY <2>1
    <3>2. QED
      BY <3>1, <1>1, <1>2 DEF Entry
  <2>2. CASE i # n + 1
    <3>1. i \in 1..n /\ i + 1 \in 1..n + 1
      BY <2>2
    <3>2. QED
      BY <3>1, <1>1, <1>2 DEF Entry
  <2>3. QED
    BY <2>1, <2>2
<1>5. ASSUME NEW c PROVE InList(k, c) <=> c = b \/ InList(l, c)
  <2>1. ASSUME InList(k, c) PROVE c = b \/ InList(l, c)
    <3>1. PICK i \in 1..n + 1 : k[i] = c
      BY <2>1, <1>2 DEF InList
    <3>2. CASE i = 1
      BY <3>1, <3>2, <1>2
    <3>3. CASE i # 1
      <4>1. i - 1 \in 1..n /\ (i - 1) + 1 = i
        BY <3>3
      <4>2. l[i - 1] = c
        BY <4>1, <3>1, <1>2
      <4>3. QED
        BY <4>1, <4>2, <1>1 DEF InList
    <3>4. QED
      BY <3>2, <3>3
  <2>2. ASSUME InList(l, c) PROVE InList(k, c)
    <3>1. PICK i \in 1..n : l[i] = c
      BY <2>2, <1>1 DEF InList
    <3>2. i + 1 \in 1..n + 1 /\ k[i + 1] = c
      BY <3>1, <1>2
    <3>3. QED
      BY <3>2, <1>2 DEF InList
  <2>3. 1 \in 1..n + 1 /\ k[1] = b
    BY <1>2
  <2>4. QED
    BY <2>1, <2>2, <2>3, <1>2 DEF InList
<1>6. QED
  BY <1>1, <1>2, <1>3, <1>4, <1>5 DEF k

\* A block that is not in the list becomes its head.
LEMMA Added ==
  ASSUME NEW m, NEW s, NEW t, NEW l, Represents(m, s, t, l), Tiling(s),
         t \in [DOMAIN s -> {FREE, ALLOCATED}],
         NEW b \in DOMAIN s, ~InList(l, b)
  PROVE  Represents(AddFree(m, b), s, [t EXCEPT ![b] = FREE], <<b>> \o l)
<1> DEFINE g == WriteTags(m, b, m.hdr[b].size, FREE)
           w == [g EXCEPT !.hdr[b].next = m.head, !.head = b]
           u == [t EXCEPT ![b] = FREE]
           k == <<b>> \o l
<1>1. AddFree(m, b) = w
  BY DEF AddFree
<1>2. Represents(g, s, u, l)
  <2>1. m.hdr[b].size = s[b]
    BY Fields
  <2>2. FREE \in {FREE, ALLOCATED}
    OBVIOUS
  <2>3. QED
    BY <2>1, <2>2, Retagged
<1>3. g.head = m.head
  <2>1. IsMemory(m)
    BY DEF Represents
  <2>2. QED
    BY <2>1, HeadKept
<1> HIDE DEF g, u
<1>4. /\ IsMemory(g) /\ DOMAIN g.hdr = DOMAIN s /\ g.hdr = [c \in DOMAIN s |-> g.hdr[c]]
      /\ \A c \in DOMAIN s : g.hdr[c] = [size |-> s[c], type |-> u[c], next |-> g.hdr[c].next]
      /\ Chained(g, l)
  BY <1>2 DEF Represents
<1> DEFINE v == Linked(g, b, m.head)
<1>6. /\ IsMemory(v) /\ v.ftr = g.ftr
      /\ v.hdr = [c \in DOMAIN s |-> v.hdr[c]]
      /\ v.hdr[b] = [size |-> s[b], type |-> u[b], next |-> m.head] /\ v.hdr[b].next = m.head
      /\ \A c \in DOMAIN s \ {b} : v.hdr[c] = g.hdr[c]
  <2>1. PICK z, y, x : z = s[b] /\ y = u[b] /\ x = m.head
    OBVIOUS
  <2>2. b \in DOMAIN g.hdr /\ g.hdr[b] = [size |-> z, type |-> y, next |-> g.hdr[b].next]
    BY <2>1, <1>4
  <2>3. v = Linked(g, b, x)
    BY <2>1
  <2>4. /\ IsMemory(v) /\ v.head = g.head /\ v.ftr = g.ftr
        /\ v.hdr = [c \in DOMAIN g.hdr |-> v.hdr[c]]
        /\ v.hdr[b] = [size |-> z, type |-> y, next |-> x] /\ v.hdr[b].next = x
        /\ \A c \in DOMAIN g.hdr \ {b} : v.hdr[c] = g.hdr[c]
    <3>1. IsMemory(g)
      BY <1>4
    <3> HIDE DEF v
    <3>2. QED
      BY <3>1, <2>2, <2>3, NextSet
  <2>5. QED
    BY <2>1, <2>4, <1>4
<1>7. w.head = b /\ w.hdr = v.hdr /\ w.ftr = g.ftr /\ IsMemory(w)
  <2>2. w = Headed(v, b)
    BY DEF Linked, Headed
  <2> HIDE DEF w, v
  <2>3. QED
    BY <1>6, <2>2, HeadSet
<1> HIDE DEF w, v
<1>8. PICK n \in Nat : n = Len(l)
  BY <1>4 DEF Chained
<1>9. /\ l \in Seq(DOMAIN s) /\ g.head = Entry(l, 1)
      /\ \A i, j \in 1..n : l[i] = l[j] => i = j
      /\ \A i \in 1..n : g.hdr[l[i]].next = Entry(l, i + 1) /\ l[i] \in DOMAIN s
      /\ \A c \in DOMAIN s : ~InList(l, c) => g.hdr[c].next = NULL
      /\ \A i \in 1..n : l[i] # b
  BY <1>4, <1>8 DEF Chained, InList
<1>10. /\ k \in Seq(DOMAIN s) /\ Len(k) = n + 1
       /\ k[1] = b /\ \A i \in 1..n : k[i + 1] = l[i]
       /\ Entry(k, 1) = b /\ \A i \in 1..n + 1 : Entry(k, i + 1) = Entry(l, i)
       /\ \A c : InList(k, c) <=> c = b \/ InList(l, c)
  BY <1>8, <1>9, Consed
<1> HIDE DEF k
<1>11. Chained(w, k)
  <2>1. ASSUME NEW i \in 1..n + 1, NEW j \in 1..n + 1, k[i] = k[j] PROVE i = j
    <3>1. \A x \in 1..n + 1 : x = 1 \/ (x - 1 \in 1..n /\ k[x] = l[x - 1])
      <4>1. ASSUME NEW x \in 1..n + 1, x # 1 PROVE x - 1 \in 1..n /\ k[x] = l[x - 1]
        <5>1. x - 1 \in 1..n /\ (x - 1) + 1 = x
          BY <4>1
        <5>2. QED
          BY <5>1, <1>10
      <4>2. QED
        BY <4>1
    <3>2. CASE i = 1 \/ j = 1
      <4>1. \A x \in 1..n + 1 : x # 1 => k[x] # b
        BY <3>1, <1>9
      <4>2. QED
        BY <4>1, <3>2, <2>1, <1>10
    <3>3. CASE i # 1 /\ j # 1
      <4>1. i - 1 \in 1..n /\ j - 1 \in 1..n /\ l[i - 1] = l[j - 1]
        BY <3>1, <3>3, <2>1
      <4>2. i - 1 = j - 1
        BY <4>1, <1>9
      <4>3. QED
        BY <4>2
    <3>4. QED
      BY <3>2, <3>3
  <2>2. ASSUME NEW i \in 1..n + 1 PROVE w.hdr[k[i]].next = Entry(k, i + 1)
    <3>1. CASE i = 1
      <4>1. w.hdr[k[1]].next = m.head /\ m.head = Entry(l, 1) /\ 1 \in 1..n + 1
        BY <1>3, <1>6, <1>7, <1>9, <1>10
      <4>2. QED
        BY <4>1, <3>1, <1>10
    <3>2. CASE i # 1
      <4>1. i - 1 \in 1..n /\ (i - 1) + 1 = i
        BY <3>2
      <4>2. k[i] = l[i - 1] /\ l[i - 1] # b /\ l[i - 1] \in DOMAIN s
        BY <4>1, <1>9, <1>10
      <4>3. w.hdr[k[i]].next = Entry(l, i)
        <5>1. PICK x : x = l[i - 1]
          OBVIOUS
        <5>2. g.hdr[x].next = Entry(l, i)
          BY <5>1, <4>1, <1>9
        <5>3. w.hdr[x] = g.hdr[x]
          BY <5>1, <4>2, <1>6, <1>7
        <5>4. QED
          BY <5>1, <5>2, <5>3, <4>2
      <4>4. QED
        BY <4>3, <1>10
    <3>3. QED
      BY <3>1, <3>2
  <2>3. ASSUME NEW c \in DOMAIN s, ~InList(k, c) PROVE w.hdr[c].next = NULL
    BY <2>3, <1>6, <1>7, <1>9, <1>10
  <2>4. QED
    BY <2>1, <2>2, <2>3, <1>6, <1>7, <1>10 DEF Chained
<1>12. Represents(w, s, u, k)
  <2>1. w.hdr = [c \in DOMAIN s |-> w.hdr[c]]
    BY <1>6, <1>7
  <2>2. \A c \in DOMAIN s : w.hdr[c] = [size |-> s[c], type |-> u[c], next |-> w.hdr[c].next]
    BY <1>3, <1>4, <1>6, <1>7
  <2>3. QED
    BY <2>1, <2>2, <1>2, <1>7, <1>11, Relinked
<1>13. QED
  BY <1>1, <1>12 DEF u, k

\* A list without its i-th block.
Without(l, i) == [j \in 1..Len(l) - 1 |-> IF j < i THEN l[j] ELSE l[j + 1]]

LEMMA Dropped ==
  ASSUME NEW S, NEW l \in Seq(S), NEW i \in 1..Len(l),
         \A p, q \in 1..Len(l) : l[p] = l[q] => p = q
  PROVE  LET k == Without(l, i)
         IN /\ k \in Seq(S) /\ Len(k) = Len(l) - 1
            /\ \A p, q \in 1..Len(l) - 1 : k[p] = k[q] => p = q
            /\ \A j \in 1..Len(l) - 1 : k[j] = IF j < i THEN l[j] ELSE l[j + 1]
            /\ \A j \in 1..Len(l) : Entry(k, j) = IF j < i THEN Entry(l, j) ELSE Entry(l, j + 1)
            /\ \A c : InList(k, c) <=> c # l[i] /\ InList(l, c)
<1> DEFINE k == Without(l, i)
<1>1. PICK n \in Nat : n = Len(l)
  OBVIOUS
<1>2. n >= 1 /\ i \in 1..n /\ n - 1 \in Nat
  BY <1>1
<1>3. k = [j \in 1..n - 1 |-> IF j < i THEN l[j] ELSE l[j + 1]]
  BY <1>1 DEF Without
<1> HIDE DEF k
<1>4. \A j \in 1..n : l[j] \in S
  BY <1>1
<1>5. \A j \in 1..n - 1 : k[j] = (IF j < i THEN l[j] ELSE l[j + 1]) /\ j \in 1..n /\ j + 1 \in 1..n
  BY <1>2, <1>3
<1>6. k \in [1..n - 1 -> S]
  BY <1>3, <1>4, <1>5
<1>7. k \in Seq(S) /\ Len(k) = n - 1
  BY <1>2, <1>6, <1>3
<1>8. ASSUME NEW p \in 1..n - 1, NEW q \in 1..n - 1, k[p] = k[q] PROVE p = q
  <2>1. PICK x \in 1..n : k[p] = l[x] /\ x = IF p < i THEN p ELSE p + 1
    BY <1>5
  <2>2. PICK y \in 1..n : k[q] = l[y] /\ y = IF q < i THEN q ELSE q + 1
    BY <1>5
  <2>3. x = y
    BY <2>1, <2>2, <1>8, <1>1
  <2>4. QED
    BY <2>1, <2>2, <2>3, <1>2
<1>9. ASSUME NEW j \in 1..n PROVE Entry(k, j) = IF j < i THEN Entry(l, j) ELSE Entry(l, j + 1)
  <2>1. CASE j = n
    <3>1. j \notin 1..n - 1 /\ j + 1 \notin 1..n /\ ~(j < i)
      BY <2>1, <1>2
    <3>2. QED
      BY <3>1, <1>1, <1>7 DEF Entry
  <2>2. CASE j # n
    <3>1. j \in 1..n - 1 /\ j + 1 \in 1..n
      BY <2>2
    <3>2. QED
      BY <3>1, <1>1, <1>5, <1>7 DEF Entry
  <2>3. QED
    BY <2>1, <2>2
<1>10. ASSUME NEW c PROVE InList(k, c) <=> c # l[i] /\ InList(l, c)
  <2>1. ASSUME InList(k, c) PROVE c # l[i] /\ InList(l, c)
    <3>1. PICK j \in 1..n - 1 : k[j] = c
      BY <2>1, <1>7 DEF InList
    <3>2. PICK x \in 1..n : c = l[x] /\ x # i
      <4>1. CASE j < i
        BY <4>1, <3>1, <1>2, <1>5
      <4>2. CASE ~(j < i)
        <5>1. j + 1 \in 1..n /\ j + 1 # i /\ k[j] = l[j + 1]
          BY <4>2, <1>2, <1>5
        <5>2. QED
          BY <5>1, <3>1
      <4>3. QED
        BY <4>1, <4>2
    <3>3. c # l[i]
      BY <3>2, <1>1, <1>2
    <3>4. QED
      BY <3>2, <3>3, <1>1 DEF InList
  <2>2. ASSUME c # l[i], InList(l, c) PROVE InList(k, c)
    <3>1. PICK j \in 1..n : l[j] = c
      BY <2>2, <1>1 DEF InList
    <3>2. j # i
      BY <2>2, <3>1
    <3>3. CASE j < i
      <4>1. j \in 1..n - 1 /\ k[j] = c
        BY <3>1, <3>3, <1>2, <1>5
      <4>2. QED
        BY <4>1, <1>7 DEF InList
    <3>4. CASE i < j
      <4>1. j - 1 \in 1..n - 1 /\ ~(j - 1 < i) /\ (j - 1) + 1 = j
        BY <3>4, <1>2
      <4>2. k[j - 1] = c
        BY <4>1, <3>1, <1>5
      <4>3. QED
        BY <4>1, <4>2, <1>7 DEF InList
    <3>5. QED
      BY <3>2, <3>3, <3>4, <1>2
  <2>3. QED
    BY <2>1, <2>2, Zenon
<1>11. QED
  BY <1>1, <1>7, <1>8, <1>9, <1>10, <1>5 DEF k


\* The list is a list of offsets, none of which is NULL.
LEMMA Entries ==
  ASSUME NEW m, NEW l, Chained(m, l), DOMAIN m.hdr \subseteq Nat
  PROVE  /\ l \in Seq(DOMAIN m.hdr) /\ Len(l) \in Nat
         /\ NULL \notin DOMAIN m.hdr
         /\ \A i \in 1..Len(l) : l[i] \in DOMAIN m.hdr /\ l[i] # NULL /\ Entry(l, i) = l[i]
         /\ \A c \in DOMAIN m.hdr : InList(l, c) => \E i \in 1..Len(l) : l[i] = c
         /\ FreeBlocks(m) = {l[i] : i \in 1..Len(l)}
<1>1. l \in Seq(DOMAIN m.hdr)
  BY DEF Chained
<1>2. PICK n \in Nat : n = Len(l)
  BY <1>1
<1>3. NULL \notin DOMAIN m.hdr
  BY DEF NULL
<1>4. \A i \in 1..n : l[i] \in DOMAIN m.hdr
  BY <1>1, <1>2
<1>5. \A i \in 1..n : l[i] # NULL /\ Entry(l, i) = l[i]
  BY <1>2, <1>3, <1>4 DEF Entry
<1>6. FreeList(m) = l
  BY Listing
<1>7. DOMAIN l = 1..n
  BY <1>1, <1>2
<1>8. FreeBlocks(m) = {l[i] : i \in 1..n}
  BY <1>6, <1>7 DEF FreeBlocks
<1>9. QED
  BY <1>1, <1>2, <1>3, <1>4, <1>5, <1>8 DEF InList

\* The block is unlinked from the list, wherever it is there.
Unlinked(m, b) ==
  LET rest == m.hdr[b].next
  IN IF m.head = b THEN [m EXCEPT !.head = rest]
     ELSE LET before == CHOOSE c \in FreeBlocks(m) : m.hdr[c].next = b
          IN [m EXCEPT !.hdr[before].next = rest]

LEMMA Unlinking ==
  ASSUME NEW m, NEW s, NEW t, NEW l, Represents(m, s, t, l), DOMAIN s \subseteq Nat,
         NEW i \in 1..Len(l)
  PROVE  LET u == Unlinked(m, l[i])
         IN /\ IsMemory(u) /\ u.ftr = m.ftr /\ u.hdr = [c \in DOMAIN s |-> u.hdr[c]]
            /\ u.head = Entry(l, IF i = 1 THEN 2 ELSE 1)
            /\ \A c \in DOMAIN s :
                 u.hdr[c] = [size |-> s[c], type |-> t[c], next |-> u.hdr[c].next]
            /\ \A j \in 1..Len(l) :
                 u.hdr[l[j]].next = Entry(l, IF j + 1 = i THEN j + 2 ELSE j + 1)
            /\ \A c \in DOMAIN s : ~InList(l, c) => u.hdr[c].next = NULL
<1> DEFINE b == l[i]
           u == Unlinked(m, b)
<1>1. /\ Chained(m, l) /\ IsMemory(m)
      /\ DOMAIN m.hdr = DOMAIN s /\ m.hdr = [c \in DOMAIN s |-> m.hdr[c]]
      /\ \A c \in DOMAIN s : m.hdr[c] = [size |-> s[c], type |-> t[c], next |-> m.hdr[c].next]
  BY DEF Represents
<1>2. PICK n \in Nat : n = Len(l)
  BY <1>1 DEF Chained
<1>3. /\ \A j \in 1..n : l[j] \in DOMAIN s /\ l[j] # NULL /\ Entry(l, j) = l[j]
      /\ FreeBlocks(m) = {l[j] : j \in 1..n}
      /\ NULL \notin DOMAIN s
  BY <1>1, <1>2, Entries
<1>4. /\ \A p, q \in 1..n : l[p] = l[q] => p = q
      /\ m.head = Entry(l, 1)
      /\ \A j \in 1..n : m.hdr[l[j]].next = Entry(l, j + 1)
      /\ \A c \in DOMAIN s : ~InList(l, c) => m.hdr[c].next = NULL
  BY <1>1, <1>2 DEF Chained
<1>5. i \in 1..n /\ 1 \in 1..n /\ b \in DOMAIN s
  BY <1>2, <1>3
<1>6. CASE i = 1
  <2>1. m.head = b /\ m.hdr[b].next = Entry(l, 2)
    <3>1. m.head = b
      BY <1>3, <1>4, <1>5, <1>6
    <3>2. m.hdr[b].next = Entry(l, i + 1) /\ i + 1 = 2
      BY <1>4, <1>5, <1>6
    <3>3. QED
      BY <3>1, <3>2
  <2>2. PICK x : x = m.hdr[b].next /\ u = Headed(m, x)
    BY <2>1 DEF Unlinked, Headed
  <2> HIDE DEF u
  <2>3. IsMemory(u) /\ u.head = m.hdr[b].next /\ u.hdr = m.hdr /\ u.ftr = m.ftr
    <3>1. u = Headed(m, x) /\ IsMemory(m)
      BY <2>2, <1>1
    <3>2. IsMemory(u) /\ u.head = x /\ u.hdr = m.hdr /\ u.ftr = m.ftr
      BY <3>1, HeadSet
    <3>3. QED
      BY <3>2, <2>2
  <2>4. \A j \in 1..n : j + 1 # i
    BY <1>6
  <2>5. QED
    BY <2>1, <2>3, <2>4, <1>1, <1>2, <1>4, <1>6 DEF u
<1>7. CASE i # 1
  <2>1. i - 1 \in 1..n /\ (i - 1) + 1 = i
    BY <1>5, <1>7
  <2>2. m.head = l[1] /\ m.head # b
    BY <1>3, <1>4, <1>5, <1>7
  <2>3. l[i - 1] \in FreeBlocks(m) /\ m.hdr[l[i - 1]].next = b
    BY <2>1, <1>3, <1>4, <1>5
  <2>4. ASSUME NEW c \in FreeBlocks(m), m.hdr[c].next = b PROVE c = l[i - 1]
    <3>1. PICK j \in 1..n : c = l[j]
      BY <1>3
    <3>2. Entry(l, j + 1) = b
      BY <3>1, <2>4, <1>4
    <3>3. j + 1 \in 1..n
      BY <3>2, <1>2, <1>3, <1>5 DEF Entry
    <3>4. l[j + 1] = l[i]
      BY <3>2, <3>3, <1>3
    <3>5. j + 1 = i
      BY <3>3, <3>4, <1>4, <1>5
    <3>6. j = i - 1
      BY <3>5
    <3>7. QED
      BY <3>1, <3>6
  <2>5. PICK d, x : d = l[i - 1] /\ x = m.hdr[b].next
    OBVIOUS
  <2>6. (CHOOSE c \in FreeBlocks(m) : m.hdr[c].next = b) = d
    BY <2>3, <2>4, <2>5
  <2>7. u = Linked(m, d, x)
    BY <2>2, <2>5, <2>6 DEF Unlinked, Linked
  <2> HIDE DEF u
  <2>8. PICK z, y : z = s[d] /\ y = t[d]
    OBVIOUS
  <2>9. d \in DOMAIN m.hdr /\ m.hdr[d] = [size |-> z, type |-> y, next |-> m.hdr[d].next]
    BY <2>5, <2>8, <2>1, <1>1, <1>3
  <2>10. /\ IsMemory(u) /\ u.head = m.head /\ u.ftr = m.ftr
         /\ u.hdr = [c \in DOMAIN m.hdr |-> u.hdr[c]]
         /\ u.hdr[d] = [size |-> z, type |-> y, next |-> x] /\ u.hdr[d].next = x
         /\ \A c \in DOMAIN m.hdr \ {d} : u.hdr[c] = m.hdr[c]
    BY <2>7, <2>9, <1>1, NextSet
  <2>11. x = Entry(l, i + 1)
    BY <2>5, <1>4, <1>5
  <2>12. \A c \in DOMAIN s : u.hdr[c] = [size |-> s[c], type |-> t[c], next |-> u.hdr[c].next]
    <3>1. \A c \in DOMAIN s \ {d} : u.hdr[c] = m.hdr[c]
      BY <2>10, <1>1
    <3>2. u.hdr[d] = [size |-> s[d], type |-> t[d], next |-> u.hdr[d].next]
      BY <2>10, <2>8
    <3>3. QED
      BY <3>1, <3>2, <1>1
  <2>13. ASSUME NEW j \in 1..n
         PROVE  u.hdr[l[j]].next = Entry(l, IF j + 1 = i THEN j + 2 ELSE j + 1)
    <3>1. CASE j + 1 = i
      <4>1. j = i - 1 /\ j + 2 = i + 1
        BY <3>1
      <4>2. QED
        BY <4>1, <3>1, <2>5, <2>10, <2>11
    <3>2. CASE j + 1 # i
      <4>1. j # i - 1
        BY <3>2
      <4>2. l[j] # d
        BY <4>1, <2>1, <2>5, <1>4
      <4>3. u.hdr[l[j]] = m.hdr[l[j]]
        BY <4>2, <2>10, <1>1, <1>3
      <4>4. QED
        BY <4>3, <3>2, <1>4
    <3>3. QED
      BY <3>1, <3>2
  <2>14. ASSUME NEW c \in DOMAIN s, ~InList(l, c) PROVE u.hdr[c].next = NULL
    <3>1. c # d
      BY <2>14, <2>1, <2>5, <1>2 DEF InList
    <3>2. QED
      BY <3>1, <2>14, <2>10, <1>1, <1>4
  <2>15. u.head = Entry(l, IF i = 1 THEN 2 ELSE 1)
    BY <2>10, <1>4, <1>7
  <2>16. QED
    BY <2>10, <2>12, <2>13, <2>14, <2>15, <1>1, <1>2 DEF u
<1>8. QED
  BY <1>6, <1>7


\* A free block is taken off the list, and the rest of the list stays.
LEMMA Removed ==
  ASSUME NEW m, NEW s, NEW t, NEW l, Good(m, s, t, l), NEW b \in DOMAIN s, t[b] = FREE
  PROVE  \E k : Good(RemoveFree(m, b), s, [t EXCEPT ![b] = ALLOCATED], k)
<1> DEFINE u == Unlinked(m, b)
           v == Linked(u, b, NULL)
           a == [t EXCEPT ![b] = ALLOCATED]
<1>1. /\ Represents(m, s, t, l) /\ Tiling(s) /\ t \in [DOMAIN s -> {FREE, ALLOCATED}]
      /\ \A c \in DOMAIN s : t[c] = FREE <=> InList(l, c)
  BY DEF Good
<1>2. Chained(m, l) /\ DOMAIN m.hdr = DOMAIN s /\ IsMemory(m)
  BY <1>1 DEF Represents
<1>3. DOMAIN s \subseteq Nat
  BY <1>1, Apart
<1>4. PICK i \in 1..Len(l) : l[i] = b
  BY <1>1 DEF InList
<1>5. m.hdr[b].size = s[b]
  BY <1>1, Fields
<1>6. RemoveFree(m, b) = WriteTags(v, b, s[b], ALLOCATED)
  BY <1>5 DEF RemoveFree, Unlinked, Linked
<1>7. PICK n \in Nat : n = Len(l)
  BY <1>2 DEF Chained
<1> DEFINE k == Without(l, i)
<1>8. /\ l \in Seq(DOMAIN s) /\ \A p, q \in 1..n : l[p] = l[q] => p = q
      /\ \A j \in 1..n : l[j] \in DOMAIN s
  BY <1>2, <1>7 DEF Chained
<1>9. /\ k \in Seq(DOMAIN s) /\ Len(k) = n - 1
      /\ \A p, q \in 1..n - 1 : k[p] = k[q] => p = q
      /\ \A j \in 1..n - 1 : k[j] = IF j < i THEN l[j] ELSE l[j + 1]
      /\ \A j \in 1..n : Entry(k, j) = IF j < i THEN Entry(l, j) ELSE Entry(l, j + 1)
      /\ \A c : InList(k, c) <=> c # l[i] /\ InList(l, c)
  BY <1>7, <1>8, Dropped
<1>10. i \in 1..n /\ n - 1 \in Nat
  BY <1>4, <1>7
<1>11. /\ IsMemory(u) /\ u.ftr = m.ftr /\ u.hdr = [c \in DOMAIN s |-> u.hdr[c]]
       /\ u.head = Entry(l, IF i = 1 THEN 2 ELSE 1)
       /\ \A c \in DOMAIN s : u.hdr[c] = [size |-> s[c], type |-> t[c], next |-> u.hdr[c].next]
       /\ \A j \in 1..n : u.hdr[l[j]].next = Entry(l, IF j + 1 = i THEN j + 2 ELSE j + 1)
       /\ \A c \in DOMAIN s : ~InList(l, c) => u.hdr[c].next = NULL
  <2>1. i \in 1..Len(l)
    OBVIOUS
  <2>2. PICK y : y = Unlinked(m, l[i])
    OBVIOUS
  <2>3. /\ IsMemory(y) /\ y.ftr = m.ftr /\ y.hdr = [c \in DOMAIN s |-> y.hdr[c]]
        /\ y.head = Entry(l, IF i = 1 THEN 2 ELSE 1)
        /\ \A c \in DOMAIN s : y.hdr[c] = [size |-> s[c], type |-> t[c], next |-> y.hdr[c].next]
        /\ \A j \in 1..Len(l) :
             y.hdr[l[j]].next = Entry(l, IF j + 1 = i THEN j + 2 ELSE j + 1)
        /\ \A c \in DOMAIN s : ~InList(l, c) => y.hdr[c].next = NULL
    BY <2>1, <2>2, <1>1, <1>3, Unlinking
  <2>4. y = u
    BY <2>2, <1>4
  <2> HIDE DEF u
  <2>5. QED
    BY <2>3, <2>4, <1>7
<1> HIDE DEF k, u
<1>12. /\ IsMemory(v) /\ v.head = u.head /\ v.ftr = m.ftr
       /\ v.hdr = [c \in DOMAIN s |-> v.hdr[c]]
       /\ v.hdr[b] = [size |-> s[b], type |-> t[b], next |-> NULL] /\ v.hdr[b].next = NULL
       /\ \A c \in DOMAIN s \ {b} : v.hdr[c] = u.hdr[c]
  <2>1. PICK z, y : z = s[b] /\ y = t[b]
    OBVIOUS
  <2>2. DOMAIN u.hdr = DOMAIN s
    BY <1>11
  <2>3. b \in DOMAIN u.hdr /\ u.hdr[b] = [size |-> z, type |-> y, next |-> u.hdr[b].next]
    BY <2>1, <2>2, <1>11
  <2>4. IsMemory(u)
    BY <1>11
  <2>5. /\ IsMemory(v) /\ v.head = u.head /\ v.ftr = u.ftr
        /\ v.hdr = [c \in DOMAIN u.hdr |-> v.hdr[c]]
        /\ v.hdr[b] = [size |-> z, type |-> y, next |-> NULL] /\ v.hdr[b].next = NULL
        /\ \A c \in DOMAIN u.hdr \ {b} : v.hdr[c] = u.hdr[c]
    BY <2>3, <2>4, NextSet
  <2> HIDE DEF v
  <2>6. QED
    BY <2>1, <2>2, <2>5, <1>11
<1> HIDE DEF v
<1>13. Chained(v, k)
  <2>1. v.head = Entry(k, 1)
    <3>1. CASE i = 1
      <4>1. Entry(k, 1) = Entry(l, 2) /\ u.head = Entry(l, 2)
        <5>1. 1 \in 1..n /\ ~(1 < i) /\ 1 + 1 = 2
          BY <3>1, <1>10
        <5>2. QED
          BY <5>1, <3>1, <1>9, <1>11
      <4>2. QED
        BY <4>1, <1>12
    <3>2. CASE i # 1
      <4>1. 1 \in 1..n /\ 1 < i
        BY <3>2, <1>10
      <4>2. QED
        BY <4>1, <3>2, <1>9, <1>11, <1>12
    <3>3. QED
      BY <3>1, <3>2
  <2>2. ASSUME NEW j \in 1..n - 1 PROVE v.hdr[k[j]].next = Entry(k, j + 1)
    <3>1. j \in 1..n /\ j + 1 \in 1..n
      BY <1>10
    <3>2. PICK x \in 1..n : k[j] = l[x] /\ x = IF j < i THEN j ELSE j + 1
      BY <3>1, <1>9
    <3>3. l[x] \in DOMAIN s \ {b}
      <4>1. x # i
        BY <3>2, <1>10
      <4>2. QED
        BY <4>1, <1>4, <1>8, <1>10
    <3>4. v.hdr[k[j]].next = Entry(l, IF x + 1 = i THEN x + 2 ELSE x + 1)
      <4>1. v.hdr[l[x]] = u.hdr[l[x]]
        BY <3>3, <1>12
      <4>2. u.hdr[l[x]].next = Entry(l, IF x + 1 = i THEN x + 2 ELSE x + 1)
        BY <1>11
      <4>3. QED
        BY <4>1, <4>2, <3>2
    <3>5. Entry(k, j + 1) = IF j + 1 < i THEN Entry(l, j + 1) ELSE Entry(l, j + 2)
      <4>1. (j + 1) + 1 = j + 2
        OBVIOUS
      <4>2. QED
        BY <4>1, <3>1, <1>9
    <3>6. (IF x + 1 = i THEN x + 2 ELSE x + 1) = IF j + 1 < i THEN j + 1 ELSE j + 2
      BY <3>1, <3>2, <1>10
    <3>7. QED
      BY <3>4, <3>5, <3>6
  <2>3. ASSUME NEW c \in DOMAIN s, ~InList(k, c) PROVE v.hdr[c].next = NULL
    <3>1. CASE c = b
      BY <3>1, <1>12
    <3>2. CASE c # b
      BY <3>2, <2>3, <1>4, <1>9, <1>11, <1>12
    <3>3. QED
      BY <3>1, <3>2
  <2>4. DOMAIN v.hdr = DOMAIN s
    BY <1>12
  <2>5. QED
    BY <2>1, <2>2, <2>3, <2>4, <1>9 DEF Chained
<1>14. Represents(v, s, t, k)
  <2>1. \A c \in DOMAIN s : v.hdr[c] = [size |-> s[c], type |-> t[c], next |-> v.hdr[c].next]
    BY <1>11, <1>12
  <2>2. QED
    BY <2>1, <1>1, <1>12, <1>13, Relinked
<1>15. ALLOCATED \in {FREE, ALLOCATED} /\ ALLOCATED # FREE
  BY DEF ALLOCATED, FREE
<1>16. Represents(WriteTags(v, b, s[b], ALLOCATED), s, a, k)
  BY <1>1, <1>14, <1>15, Retagged
<1>17. \A c \in DOMAIN s : a[c] = FREE <=> InList(k, c)
  BY <1>1, <1>4, <1>9, <1>15
<1>18. a \in [DOMAIN s -> {FREE, ALLOCATED}]
  BY <1>1, <1>15
<1>19. QED
  BY <1>1, <1>6, <1>16, <1>17, <1>18 DEF Good


-----------------------------------------------------------------------------
(* Cutting a block in two and joining two of them *)

\* A block ends no later than the memory.
LEMMA Within ==
  ASSUME NEW s, Tiling(s), NEW b \in DOMAIN s
  PROVE  b + s[b] <= End
<1>1. b + s[b] = End \/ b + s[b] \in DOMAIN s
  BY DEF Tiling
<1>2. b + s[b] \in Nat /\ End \in Nat /\ \A c \in DOMAIN s : c \in Nat /\ c < End
  BY Apart
<1>3. QED
  BY <1>1, <1>2

Cut(s, b, k) ==
  [c \in DOMAIN s \cup {b + k} |->
     IF c = b THEN k ELSE IF c = b + k THEN s[b] - k ELSE s[c]]

CutTypes(t, b, k) == [c \in DOMAIN t \cup {b + k} |-> IF c = b + k THEN FREE ELSE t[c]]

\* What r is as the sizes of s after the cut.
IsCut(r, s, b, k) ==
  /\ r = [c \in DOMAIN r |-> r[c]]
  /\ DOMAIN r = DOMAIN s \cup {b + k}
  /\ b + k \notin DOMAIN s
  /\ b < b + k /\ b + k < b + s[b] /\ b + k \in Nat
  /\ r[b] = k /\ r[b + k] = s[b] - k
  /\ s[b] - k \in Nat /\ s[b] - k > 0 /\ (b + k) + (s[b] - k) = b + s[b]
  /\ \A c \in DOMAIN s : c # b => r[c] = s[c] /\ c # b + k
  /\ \A c \in DOMAIN s : b < c => b + s[b] <= c
  /\ \A c \in DOMAIN s : c < b \/ c = b \/ b < c

LEMMA CutParts ==
  ASSUME NEW s, Tiling(s), NEW b \in DOMAIN s, NEW k \in Nat, 0 < k, k < s[b]
  PROVE  IsCut(Cut(s, b, k), s, b, k)
<1>1. PICK x, y, e : x = s[b] /\ y = b + k /\ e = b + x
  OBVIOUS
<1>2. x \in Nat /\ b \in Nat /\ e \in Nat /\ k < x /\ x - k \in Nat /\ x - k > 0
  BY <1>1, Apart
<1>3. y \in Nat /\ b < y /\ y < e /\ y + (x - k) = e
  BY <1>1, <1>2
<1>4. \A c \in DOMAIN s : b < c => e <= c
  BY <1>1, Apart
<1>5. \A c \in DOMAIN s : c \in Nat
  BY Apart
<1>6. y \notin DOMAIN s
  BY <1>2, <1>3, <1>4
<1> DEFINE r == Cut(s, b, k)
<1>7. r = [c \in DOMAIN s \cup {y} |-> IF c = b THEN k ELSE IF c = y THEN x - k ELSE s[c]]
  BY <1>1 DEF Cut
<1> HIDE DEF r
<1>8. /\ r = [c \in DOMAIN r |-> r[c]] /\ DOMAIN r = DOMAIN s \cup {y}
      /\ r[b] = k /\ r[y] = x - k
      /\ \A c \in DOMAIN s : c # b => r[c] = s[c] /\ c # y
  BY <1>7, <1>6, <1>2, <1>3
<1>9. \A c \in DOMAIN s : c < b \/ c = b \/ b < c
  BY <1>2, <1>5
<1>10. QED
  BY <1>1, <1>2, <1>3, <1>4, <1>6, <1>8, <1>9 DEF r, IsCut

LEMMA CutTiles ==
  ASSUME NEW s, Tiling(s), NEW b \in DOMAIN s, NEW k \in Nat, 0 < k, k < s[b]
  PROVE  Tiling(Cut(s, b, k))
<1> DEFINE r == Cut(s, b, k)
<1>1. PICK x, y, z, e : x = s[b] /\ y = b + k /\ z = x - k /\ e = b + x
  OBVIOUS
<1>2. /\ r = [c \in DOMAIN r |-> r[c]] /\ DOMAIN r = DOMAIN s \cup {y}
      /\ y \notin DOMAIN s /\ b < y /\ y < e /\ y \in Nat
      /\ r[b] = k /\ r[y] = z /\ z \in Nat /\ z > 0 /\ y + z = e
      /\ \A c \in DOMAIN s : c # b => r[c] = s[c] /\ c # y
      /\ \A c \in DOMAIN s : b < c => e <= c
      /\ \A c \in DOMAIN s : c < b \/ c = b \/ b < c
  <2>1. IsCut(r, s, b, k)
    BY CutParts
  <2> HIDE DEF r
  <2>2. QED
    BY <2>1, <1>1 DEF IsCut
<1>3. /\ \A c \in DOMAIN s : c \in Nat /\ c >= Start /\ c < End /\ s[c] \in Nat /\ s[c] > 0
      /\ Start \in Nat /\ End \in Nat
      /\ \A c, d \in DOMAIN s : c < d => c + s[c] <= d
      /\ \A c \in DOMAIN s : c + s[c] \in Nat
      /\ e \in Nat
  BY <1>1, Apart
<1>4. e <= End /\ (e = End \/ e \in DOMAIN s)
  BY <1>1, Within DEF Tiling
<1>5. /\ \A c \in DOMAIN s : c + s[c] = End \/ c + s[c] \in DOMAIN s
      /\ \A c \in DOMAIN s \ {Start} : \E p \in DOMAIN s : p + s[p] = c
      /\ Start \in DOMAIN s
  BY DEF Tiling
<1> HIDE DEF r
<1>6. IsBlocks(r)
  <2>1. \A c \in DOMAIN r : r[c] \in Nat \ {0}
    BY <1>2, <1>3
  <2>2. \A c \in DOMAIN r : c \in Start..(End - 1)
    BY <1>2, <1>3, <1>4
  <2>3. QED
    BY <2>1, <2>2, <1>2 DEF IsBlocks
<1>7. ASSUME NEW c \in DOMAIN r PROVE c + r[c] = End \/ c + r[c] \in DOMAIN r
  <2>1. CASE c = b
    BY <2>1, <1>1, <1>2
  <2>2. CASE c = y
    BY <2>2, <1>2, <1>4
  <2>3. CASE c # b /\ c # y
    BY <2>3, <1>2, <1>5
  <2>4. QED
    BY <2>1, <2>2, <2>3
<1>8. ASSUME NEW c \in DOMAIN r, NEW d \in DOMAIN r, c < d PROVE c + r[c] <= d
  <2>1. CASE c = b
    <3>1. c + r[c] = y
      BY <2>1, <1>1, <1>2
    <3>2. CASE d = y
      BY <3>1, <3>2, <1>2
    <3>3. CASE d # y
      <4>1. d \in DOMAIN s /\ e <= d
        BY <3>3, <2>1, <1>2, <1>8
      <4>2. QED
        BY <3>1, <4>1, <1>2, <1>3
    <3>4. QED
      BY <3>2, <3>3
  <2>2. CASE c = y
    <3>1. d \in DOMAIN s
      BY <2>2, <1>2, <1>8
    <3>2. b < d
      BY <3>1, <2>2, <1>2, <1>3, <1>8
    <3>3. QED
      BY <3>1, <3>2, <2>2, <1>2
  <2>3. CASE c # b /\ c # y
    <3>1. c \in DOMAIN s /\ r[c] = s[c] /\ c \in Nat /\ c + s[c] \in Nat
      BY <2>3, <1>2, <1>3
    <3>2. CASE d = y
      <4>1. ~(b < c)
        BY <3>1, <3>2, <1>2, <1>3, <1>8
      <4>2. c < b
        BY <4>1, <3>1, <2>3, <1>2
      <4>3. c + s[c] <= b
        BY <4>2, <3>1, <1>3
      <4>4. QED
        BY <4>3, <3>1, <3>2, <1>2, <1>3
    <3>3. CASE d # y
      BY <3>1, <3>3, <1>2, <1>3, <1>8
    <3>4. QED
      BY <3>2, <3>3
  <2>4. QED
    BY <2>1, <2>2, <2>3
<1>9. ASSUME NEW c \in DOMAIN r \ {Start} PROVE \E p \in DOMAIN r : p + r[p] = c
  <2>1. CASE c = y
    BY <2>1, <1>1, <1>2
  <2>2. CASE c # y
    <3>1. PICK p \in DOMAIN s : p + s[p] = c
      BY <2>2, <1>2, <1>5
    <3>2. CASE p = b
      BY <3>1, <3>2, <1>1, <1>2
    <3>3. CASE p # b
      BY <3>1, <3>3, <1>2
    <3>4. QED
      BY <3>2, <3>3
  <2>3. QED
    BY <2>1, <2>2
<1>10. Start \in DOMAIN r
  BY <1>2, <1>5
<1>11. Tiling(r)
  BY <1>6, <1>7, <1>8, <1>9, <1>10 DEF Tiling
<1>12. QED
  BY <1>11 DEF r


\* The list is linked in another memory, too.
LEMMA Rechained ==
  ASSUME NEW m, NEW w, NEW l, Chained(m, l), w.head = m.head,
         \A c \in DOMAIN m.hdr : InList(l, c) =>
           c \in DOMAIN w.hdr /\ w.hdr[c].next = m.hdr[c].next,
         \A c \in DOMAIN w.hdr : ~InList(l, c) => w.hdr[c].next = NULL
  PROVE  Chained(w, l)
<1>1. PICK n \in Nat : n = Len(l)
  BY DEF Chained
<1>2. ASSUME NEW i \in 1..n
      PROVE  /\ l[i] \in DOMAIN w.hdr
             /\ w.hdr[l[i]].next = Entry(l, i + 1)
  <2>1. l[i] \in DOMAIN m.hdr /\ m.hdr[l[i]].next = Entry(l, i + 1)
    BY <1>1 DEF Chained
  <2>2. InList(l, l[i])
    BY <1>1 DEF InList
  <2>3. QED
    BY <2>1, <2>2
<1>3. l \in Seq(DOMAIN w.hdr)
  <2>1. l \in Seq(DOMAIN m.hdr)
    BY DEF Chained
  <2>2. l = [i \in 1..n |-> l[i]]
    BY <2>1, <1>1
  <2>3. l \in [1..n -> DOMAIN w.hdr]
    BY <2>2, <1>2
  <2>4. QED
    BY <2>3
<1>4. QED
  BY <1>1, <1>2, <1>3 DEF Chained

\* A block is written as two: one of k words, and behind it a free one.
LEMMA Split ==
  ASSUME NEW m, NEW s, NEW t, NEW l, Represents(m, s, t, l), Tiling(s),
         t \in [DOMAIN s -> {FREE, ALLOCATED}], NEW b \in DOMAIN s, t[b] = ALLOCATED,
         \A c \in DOMAIN s : t[c] = FREE <=> InList(l, c),
         NEW k \in Nat, 0 < k, k < s[b]
  PROVE  Represents(WriteTags(WriteTags(m, b + k, s[b] - k, FREE), b, k, ALLOCATED),
                    Cut(s, b, k), CutTypes(t, b, k), l)
<1> DEFINE r == Cut(s, b, k)
           u == CutTypes(t, b, k)
           g == WriteTags(m, b + k, s[b] - k, FREE)
           w == WriteTags(g, b, k, ALLOCATED)
<1>1. PICK x, y, z, e : x = s[b] /\ y = b + k /\ z = x - k /\ e = b + x
  OBVIOUS
<1>2. /\ DOMAIN r = DOMAIN s \cup {y}
      /\ y \notin DOMAIN s /\ b < y /\ y < e /\ y \in Nat
      /\ r[b] = k /\ r[y] = z /\ y + z = e
      /\ \A c \in DOMAIN s : c # b => r[c] = s[c] /\ c # y
      /\ \A c \in DOMAIN s : b < c => e <= c
      /\ \A c \in DOMAIN s : c < b \/ c = b \/ b < c
  <2>1. IsCut(r, s, b, k)
    BY CutParts
  <2> HIDE DEF r
  <2>2. QED
    BY <2>1, <1>1 DEF IsCut
<1>3. /\ IsMemory(m) /\ DOMAIN m.hdr = DOMAIN s /\ DOMAIN m.ftr = {c + s[c] : c \in DOMAIN s}
      /\ \A c \in DOMAIN s :
           /\ m.hdr[c] = [size |-> s[c], type |-> t[c], next |-> m.hdr[c].next]
           /\ m.ftr[c + s[c]] = [size |-> s[c], type |-> t[c]]
      /\ Chained(m, l)
  BY DEF Represents
<1> DEFINE D == DOMAIN s
           F == DOMAIN m.ftr
<1>4. /\ b \in Nat /\ e \in Nat /\ b < e
      /\ \A c \in D : c \in Nat
      /\ \A c \in D : c + s[c] \in F /\ c + s[c] \in Nat
      /\ \A c \in D : c < b => c + s[c] <= b
      /\ \A c \in D : b < c => e < c + s[c]
      /\ \A f \in F : \E c \in D : f = c + s[c]
  <2>1. b \in Nat /\ e \in Nat /\ b < e
    BY <1>1, Apart
  <2>2. \A c \in D : c \in Nat /\ c + s[c] \in Nat /\ (c < b => c + s[c] <= b)
    BY Apart
  <2>3. \A c \in D : b < c => e < c + s[c]
    BY <1>1, Apart
  <2>4. QED
    BY <1>3, <2>1, <2>2, <2>3
<1>5. \A c \in D : c # b => c + s[c] <= b \/ e < c + s[c]
  BY <1>2, <1>4
<1>6. \A f \in F : f \in Nat /\ (f <= b \/ f = e \/ e < f)
  BY <1>1, <1>4, <1>5
<1>7. e \in F
  BY <1>1, <1>4
<1>8. /\ IsMemory(g) /\ g.head = m.head
      /\ DOMAIN g.hdr = D \cup {y}
      /\ g.hdr[y] = [size |-> z, type |-> FREE, next |-> NULL] /\ g.hdr[y].next = NULL
      /\ \A c \in D : g.hdr[c] = m.hdr[c]
      /\ DOMAIN g.ftr = F
      /\ g.ftr[e] = [size |-> z, type |-> FREE]
      /\ \A f \in F \ {e} : g.ftr[f] = m.ftr[f]
  <2>1. IsWritten(g, m, y, z, FREE)
    BY <1>1, <1>3, Written
  <2> HIDE DEF g
  <2>2. \A c \in D : c < y \/ c >= y + z
    BY <1>2, <1>4
  <2>3. \A f \in F : f # e => f <= y \/ f > y + z
    BY <1>2, <1>4, <1>6
  <2> HIDE DEF F
  <2>4. DOMAIN g.hdr = D \cup {y} /\ \A c \in D : g.hdr[c] = m.hdr[c]
    BY <2>1, <2>2, <1>2, <1>3 DEF IsWritten
  <2>5. /\ g.hdr[y] = [size |-> z, type |-> FREE, next |-> NULL] /\ g.hdr[y].next = NULL
        /\ g.head = m.head /\ IsMemory(g)
    BY <2>1, <1>2, <1>3 DEF IsWritten
  <2>6. DOMAIN g.ftr = F /\ g.ftr[e] = [size |-> z, type |-> FREE]
    <3>1. /\ DOMAIN g.ftr = {f \in F : f <= y \/ f > y + z} \cup {e}
          /\ g.ftr[e] = [size |-> z, type |-> FREE]
      BY <2>1, <1>2 DEF IsWritten, F
    <3>2. QED
      BY <3>1, <2>3, <1>7
  <2>7. ASSUME NEW f \in F \ {e} PROVE g.ftr[f] = m.ftr[f]
    BY <2>1, <2>3, <1>2 DEF IsWritten, F
  <2>8. QED
    BY <2>4, <2>5, <2>6, <2>7
<1> HIDE DEF g
<1>9. /\ IsMemory(w) /\ w.head = m.head
      /\ DOMAIN w.hdr = D \cup {y} /\ w.hdr = [c \in DOMAIN w.hdr |-> w.hdr[c]]
      /\ w.hdr[b] = [size |-> k, type |-> ALLOCATED, next |-> w.hdr[b].next]
      /\ w.hdr[b].next = m.hdr[b].next
      /\ w.hdr[y] = [size |-> z, type |-> FREE, next |-> NULL] /\ w.hdr[y].next = NULL
      /\ \A c \in D \ {b} : w.hdr[c] = m.hdr[c]
      /\ DOMAIN w.ftr = F \cup {y} /\ w.ftr = [f \in DOMAIN w.ftr |-> w.ftr[f]]
      /\ w.ftr[y] = [size |-> k, type |-> ALLOCATED]
      /\ w.ftr[e] = [size |-> z, type |-> FREE]
      /\ \A f \in F \ {e} : w.ftr[f] = m.ftr[f]
  <2>1. IsWritten(w, g, b, k, ALLOCATED)
    BY <1>8, Written
  <2> HIDE DEF w
  <2>2. \A c \in D \cup {y} : c # b => c < b \/ c >= y
    BY <1>2, <1>4
  <2>3. \A f \in F : f <= b \/ f > y
    BY <1>2, <1>4, <1>6
  <2>4. y \notin F
    BY <1>2, <1>4, <1>6
  <2>5. y = b + k
    BY <1>1
  <2> HIDE DEF F
  <2>6. /\ DOMAIN w.hdr = D \cup {y} /\ w.hdr = [c \in DOMAIN w.hdr |-> w.hdr[c]]
        /\ \A c \in D \cup {y} : c # b => w.hdr[c] = g.hdr[c]
    BY <2>1, <2>2, <2>5, <1>8 DEF IsWritten
  <2>7. /\ w.hdr[b] = [size |-> k, type |-> ALLOCATED, next |-> w.hdr[b].next]
        /\ w.hdr[b].next = g.hdr[b].next
        /\ IsMemory(w) /\ w.head = m.head
    BY <2>1, <1>8 DEF IsWritten
  <2>8. /\ DOMAIN w.ftr = F \cup {y} /\ w.ftr = [f \in DOMAIN w.ftr |-> w.ftr[f]]
        /\ w.ftr[y] = [size |-> k, type |-> ALLOCATED]
        /\ \A f \in F : w.ftr[f] = g.ftr[f]
    BY <2>1, <2>3, <2>4, <2>5, <1>8 DEF IsWritten
  <2>9. b # y
    BY <1>2
  <2>10. /\ w.hdr[y] = [size |-> z, type |-> FREE, next |-> NULL] /\ w.hdr[y].next = NULL
         /\ w.hdr[b].next = m.hdr[b].next
         /\ \A c \in D \ {b} : w.hdr[c] = m.hdr[c]
    BY <2>6, <2>7, <2>9, <1>8
  <2>11. /\ w.ftr[e] = [size |-> z, type |-> FREE]
         /\ \A f \in F \ {e} : w.ftr[f] = m.ftr[f]
    BY <2>8, <1>7, <1>8
  <2>12. QED
    BY <2>6, <2>7, <2>8, <2>10, <2>11
<1> HIDE DEF w
<1>10. u[b] = ALLOCATED /\ u[y] = FREE /\ \A c \in D : u[c] = t[c]
  BY <1>1, <1>2 DEF CutTypes
<1> HIDE DEF r, u
<1>11. ASSUME NEW c \in D, c # b
       PROVE  /\ w.hdr[c] = [size |-> r[c], type |-> u[c], next |-> w.hdr[c].next]
              /\ c + r[c] \in F \ {e}
              /\ w.ftr[c + r[c]] = [size |-> r[c], type |-> u[c]]
  <2>1. r[c] = s[c] /\ u[c] = t[c]
    BY <1>2, <1>10, <1>11
  <2>2. w.hdr[c] = [size |-> s[c], type |-> t[c], next |-> w.hdr[c].next]
    BY <1>3, <1>9, <1>11
  <2>3. c + s[c] \in F \ {e}
    BY <1>4, <1>5, <1>11
  <2>4. w.ftr[c + s[c]] = [size |-> s[c], type |-> t[c]]
    BY <2>3, <1>3, <1>9
  <2>5. QED
    BY <2>1, <2>2, <2>3, <2>4
<1>12. ASSUME NEW c \in DOMAIN r
       PROVE  /\ w.hdr[c] = [size |-> r[c], type |-> u[c], next |-> w.hdr[c].next]
              /\ c + r[c] \in DOMAIN w.ftr
              /\ w.ftr[c + r[c]] = [size |-> r[c], type |-> u[c]]
  <2>1. CASE c = b
    BY <2>1, <1>1, <1>2, <1>9, <1>10
  <2>2. CASE c = y
    BY <2>2, <1>2, <1>7, <1>9, <1>10
  <2>3. CASE c # b /\ c # y
    BY <2>3, <1>2, <1>9, <1>11
  <2>4. QED
    BY <2>1, <2>2, <2>3
<1>13. DOMAIN w.ftr = {c + r[c] : c \in DOMAIN r}
  <2>1. ASSUME NEW f \in DOMAIN w.ftr PROVE \E c \in DOMAIN r : f = c + r[c]
    <3>1. CASE f = y
      BY <3>1, <1>1, <1>2
    <3>2. CASE f = e
      BY <3>2, <1>2
    <3>3. CASE f # y /\ f # e
      <4>1. PICK c \in D : f = c + s[c]
        BY <3>3, <1>4, <1>9
      <4>2. c # b
        BY <4>1, <3>3, <1>1
      <4>3. QED
        BY <4>1, <4>2, <1>2
    <3>4. QED
      BY <3>1, <3>2, <3>3
  <2> HIDE DEF F
  <2>2. QED
    BY <2>1, <1>12
<1>14. Chained(w, l)
  <2>1. \A c \in DOMAIN m.hdr : InList(l, c) => c \in DOMAIN w.hdr /\ w.hdr[c].next = m.hdr[c].next
    BY <1>3, <1>9
  <2>2. \A c \in DOMAIN w.hdr : ~InList(l, c) => w.hdr[c].next = NULL
    <3>1. \A c \in D : ~InList(l, c) => m.hdr[c].next = NULL
      BY <1>3 DEF Chained
    <3>2. \A c \in D : w.hdr[c].next = m.hdr[c].next
      BY <1>9
    <3>3. QED
      BY <3>1, <3>2, <1>9
  <2>3. QED
    BY <2>1, <2>2, <1>3, <1>9, Rechained
<1>15. Represents(w, r, u, l)
  BY <1>2, <1>9, <1>12, <1>13, <1>14 DEF Represents
<1>16. QED
  BY <1>15 DEF r, u, w, g

\* The sizes and the types when a block swallows the one behind it.
Joined(s, p) ==
  [c \in DOMAIN s \ {p + s[p]} |-> IF c = p THEN s[p] + s[p + s[p]] ELSE s[c]]

JoinedTypes(t, q) == [c \in DOMAIN t \ {q} |-> t[c]]

\* What r is as the sizes of s after block p has swallowed the next one.
IsJoined(r, s, p) ==
  LET q == p + s[p]
  IN /\ r = [c \in DOMAIN r |-> r[c]]
     /\ DOMAIN r = DOMAIN s \ {q}
     /\ p < q /\ q < q + s[q] /\ q \in Nat /\ q + s[q] \in Nat
     /\ r[p] = s[p] + s[q] /\ s[p] + s[q] \in Nat /\ s[p] + s[q] > 0
     /\ p + (s[p] + s[q]) = q + s[q]
     /\ \A c \in DOMAIN s : c # p /\ c # q => r[c] = s[c]
     /\ \A c \in DOMAIN s : p < c => q <= c
     /\ \A c \in DOMAIN s : q < c => q + s[q] <= c
     /\ \A c \in DOMAIN s : c < p \/ c = p \/ c = q \/ q < c

LEMMA JoinedParts ==
  ASSUME NEW s, Tiling(s), NEW p \in DOMAIN s, p + s[p] \in DOMAIN s
  PROVE  IsJoined(Joined(s, p), s, p)
<1>1. PICK x, q : x = s[p] /\ q = p + x
  OBVIOUS
<1>2. q \in DOMAIN s
  BY <1>1
<1>3. PICK y, e : y = s[q] /\ e = q + y
  OBVIOUS
<1>4. /\ x \in Nat /\ p \in Nat /\ q \in Nat /\ y \in Nat /\ e \in Nat /\ x > 0 /\ y > 0
      /\ \A c \in DOMAIN s : c \in Nat
      /\ \A c \in DOMAIN s : p < c => q <= c
      /\ \A c \in DOMAIN s : q < c => e <= c
  BY <1>1, <1>2, <1>3, Apart
<1>5. p < q /\ q < e /\ x + y \in Nat /\ x + y > 0 /\ p + (x + y) = e
  BY <1>1, <1>3, <1>4
<1>6. \A c \in DOMAIN s : c < p \/ c = p \/ c = q \/ q < c
  <2>1. ASSUME NEW c \in DOMAIN s PROVE c < p \/ c = p \/ c = q \/ q < c
    <3>1. c < p \/ c = p \/ p < c
      BY <1>4
    <3>2. p < c => c = q \/ q < c
      BY <1>4
    <3>3. QED
      BY <3>1, <3>2
  <2>2. QED
    BY <2>1
<1> DEFINE r == Joined(s, p)
<1>7. r = [c \in DOMAIN s \ {q} |-> IF c = p THEN x + y ELSE s[c]]
  BY <1>1, <1>3 DEF Joined
<1> HIDE DEF r
<1>8. /\ r = [c \in DOMAIN r |-> r[c]] /\ DOMAIN r = DOMAIN s \ {q} /\ r[p] = x + y
      /\ \A c \in DOMAIN s : c # p /\ c # q => r[c] = s[c]
  BY <1>7, <1>5, <1>4
<1>9. QED
  BY <1>1, <1>3, <1>4, <1>5, <1>6, <1>8 DEF r, IsJoined

LEMMA JoinedTiles ==
  ASSUME NEW s, Tiling(s), NEW p \in DOMAIN s, p + s[p] \in DOMAIN s
  PROVE  Tiling(Joined(s, p))
<1> DEFINE r == Joined(s, p)
<1>1. PICK q : q = p + s[p]
  OBVIOUS
<1>2. PICK y, e, z : y = s[q] /\ e = q + y /\ z = s[p] + y
  OBVIOUS
<1>3. /\ r = [c \in DOMAIN r |-> r[c]] /\ DOMAIN r = DOMAIN s \ {q}
      /\ p < q /\ q < e /\ q \in Nat /\ e \in Nat
      /\ r[p] = z /\ z \in Nat /\ z > 0 /\ p + z = e
      /\ \A c \in DOMAIN s : c # p /\ c # q => r[c] = s[c]
      /\ \A c \in DOMAIN s : p < c => q <= c
      /\ \A c \in DOMAIN s : q < c => e <= c
      /\ \A c \in DOMAIN s : c < p \/ c = p \/ c = q \/ q < c
  <2>1. IsJoined(r, s, p)
    BY JoinedParts
  <2> HIDE DEF r
  <2>2. QED
    BY <2>1, <1>1, <1>2 DEF IsJoined
<1>4. /\ \A c \in DOMAIN s : c \in Nat /\ c >= Start /\ c < End /\ s[c] \in Nat /\ s[c] > 0
      /\ Start \in Nat /\ End \in Nat
      /\ \A c, d \in DOMAIN s : c < d => c + s[c] <= d
      /\ \A c \in DOMAIN s : c + s[c] \in Nat
      /\ \A c, d \in DOMAIN s : c # d => c + s[c] # d + s[d]
  BY Apart
<1>5. q \in DOMAIN s /\ p # q
  BY <1>1, <1>3, <1>4
<1>6. /\ \A c \in DOMAIN s : c + s[c] = End \/ c + s[c] \in DOMAIN s
      /\ \A c \in DOMAIN s \ {Start} : \E d \in DOMAIN s : d + s[d] = c
      /\ Start \in DOMAIN s
  BY DEF Tiling
<1> HIDE DEF r
<1>7. IsBlocks(r)
  <2>1. \A c \in DOMAIN r : r[c] \in Nat \ {0} /\ c \in Start..(End - 1)
    BY <1>3, <1>4
  <2>2. QED
    BY <2>1, <1>3 DEF IsBlocks
<1>8. ASSUME NEW c \in DOMAIN r PROVE c + r[c] = End \/ c + r[c] \in DOMAIN r
  <2>1. CASE c = p
    <3>1. e = End \/ e \in DOMAIN s
      BY <1>2, <1>5, <1>6
    <3>2. e # q
      BY <1>3
    <3>3. c + r[c] = e
      BY <2>1, <1>3
    <3>4. QED
      BY <3>1, <3>2, <3>3, <1>3
  <2>2. CASE c # p
    <3>1. c \in DOMAIN s /\ r[c] = s[c]
      BY <2>2, <1>3
    <3>2. c + s[c] # q
      BY <3>1, <2>2, <1>1, <1>4
    <3>3. QED
      BY <3>1, <3>2, <1>3, <1>6
  <2>3. QED
    BY <2>1, <2>2
<1>9. ASSUME NEW c \in DOMAIN r, NEW d \in DOMAIN r, c < d PROVE c + r[c] <= d
  <2>1. d \in DOMAIN s /\ d # q /\ c \in DOMAIN s /\ c # q
    BY <1>3
  <2>2. CASE c = p
    <3>1. c + r[c] = e
      BY <2>2, <1>3
    <3>2. q < d
      BY <2>1, <2>2, <1>3, <1>4, <1>9
    <3>3. QED
      BY <3>1, <3>2, <2>1, <1>3
  <2>3. CASE c # p
    BY <2>1, <2>3, <1>3, <1>4, <1>9
  <2>4. QED
    BY <2>2, <2>3
<1>10. ASSUME NEW c \in DOMAIN r \ {Start} PROVE \E d \in DOMAIN r : d + r[d] = c
  <2>1. c \in DOMAIN s \ {Start} /\ c # q
    BY <1>3
  <2>2. PICK d \in DOMAIN s : d + s[d] = c
    BY <2>1, <1>6
  <2>3. d # p
    BY <2>1, <2>2, <1>1
  <2>4. CASE d = q
    <3>1. c = e
      BY <2>2, <2>4, <1>2
    <3>2. p \in DOMAIN r /\ p + r[p] = c
      BY <3>1, <1>3, <1>5
    <3>3. QED
      BY <3>2
  <2>5. CASE d # q
    BY <2>2, <2>3, <2>5, <1>3
  <2>6. QED
    BY <2>4, <2>5
<1>11. Start \in DOMAIN r
  BY <1>3, <1>4, <1>6
<1>12. Tiling(r)
  BY <1>7, <1>8, <1>9, <1>10, <1>11 DEF Tiling
<1>13. QED
  BY <1>12 DEF r


\* A free block swallows the next one, which is not on the list.
LEMMA Merged ==
  ASSUME NEW m, NEW s, NEW t, NEW l, Good(m, s, t, l), NEW p \in DOMAIN s, t[p] = FREE,
         p + s[p] \in DOMAIN s, t[p + s[p]] = ALLOCATED
  PROVE  Good(WriteTags(m, p, s[p] + s[p + s[p]], FREE),
              Joined(s, p), JoinedTypes(t, p + s[p]), l)
<1>1. PICK q : q = p + s[p]
  OBVIOUS
<1>2. PICK e, z : e = q + s[q] /\ z = s[p] + s[q]
  OBVIOUS
<1> DEFINE r == Joined(s, p)
           u == JoinedTypes(t, q)
           w == WriteTags(m, p, z, FREE)
           D == DOMAIN s
           F == DOMAIN m.ftr
<1>3. /\ Represents(m, s, t, l) /\ Tiling(s) /\ t \in [D -> {FREE, ALLOCATED}]
      /\ \A c \in D : t[c] = FREE <=> InList(l, c)
  BY DEF Good
<1>4. Tiling(r)
  BY <1>3, JoinedTiles
<1>5. /\ DOMAIN r = D \ {q} /\ p < q /\ q < e /\ q \in Nat /\ e \in Nat
      /\ r[p] = z /\ p + z = e
      /\ \A c \in D : c # p /\ c # q => r[c] = s[c]
      /\ \A c \in D : p < c => q <= c
      /\ \A c \in D : q < c => e <= c
      /\ \A c \in D : c < p \/ c = p \/ c = q \/ q < c
  <2>1. IsJoined(r, s, p)
    BY <1>3, JoinedParts
  <2> HIDE DEF r
  <2>2. QED
    BY <2>1, <1>1, <1>2 DEF IsJoined
<1>6. /\ IsMemory(m) /\ DOMAIN m.hdr = D /\ F = {c + s[c] : c \in D}
      /\ \A c \in D :
           /\ m.hdr[c] = [size |-> s[c], type |-> t[c], next |-> m.hdr[c].next]
           /\ m.ftr[c + s[c]] = [size |-> s[c], type |-> t[c]]
      /\ Chained(m, l)
  BY <1>3 DEF Represents
<1>7. q \in D /\ p # q /\ p \in Nat /\ ALLOCATED # FREE
  BY <1>1, <1>3, <1>5, Apart DEF ALLOCATED, FREE
<1>8. /\ \A c \in D : c \in Nat /\ c + s[c] \in Nat
      /\ \A c \in D : c < p => c + s[c] <= p
      /\ \A c \in D : q < c => e < c + s[c]
  BY <1>2, <1>3, <1>7, Apart
<1>9. \A c \in D : c # p /\ c # q => (c < p /\ c + s[c] <= p) \/ (e <= c /\ e < c + s[c])
  BY <1>5, <1>8
<1> HIDE DEF r, w
<1>10. IsWritten(w, m, p, z, FREE)
  BY <1>6, Written DEF w
<1>11. /\ DOMAIN w.hdr = D \ {q} /\ w.hdr = [c \in DOMAIN w.hdr |-> w.hdr[c]]
       /\ w.hdr[p] = [size |-> z, type |-> FREE, next |-> w.hdr[p].next]
       /\ w.hdr[p].next = m.hdr[p].next
       /\ \A c \in D \ {p, q} : w.hdr[c] = m.hdr[c]
       /\ IsMemory(w) /\ w.head = m.head
  <2>1. \A c \in D \ {p, q} : c < p \/ c >= p + z
    BY <1>5, <1>8, <1>9
  <2>2. ~(q < p \/ q >= p + z)
    BY <1>5, <1>7
  <2>3. DOMAIN w.hdr = {c \in D : c < p \/ c >= p + z} \cup {p}
    BY <1>6, <1>10 DEF IsWritten
  <2>4. DOMAIN w.hdr = D \ {q}
    BY <2>1, <2>2, <2>3, <1>7
  <2>5. \A c \in D \ {p, q} : w.hdr[c] = m.hdr[c]
    BY <2>1, <1>6, <1>10 DEF IsWritten
  <2>6. QED
    BY <2>4, <2>5, <1>6, <1>10 DEF IsWritten
<1>12. /\ DOMAIN w.ftr = (F \ {q}) \cup {e} /\ w.ftr = [f \in DOMAIN w.ftr |-> w.ftr[f]]
       /\ w.ftr[e] = [size |-> z, type |-> FREE]
       /\ \A f \in F \ {q, e} : w.ftr[f] = m.ftr[f]
  <2>1. \A c \in D : c # p /\ c # q => c + s[c] <= p \/ c + s[c] > e
    BY <1>5, <1>8, <1>9
  <2>2. ASSUME NEW f \in F PROVE f = q \/ f = e \/ f <= p \/ f > e
    <3>1. PICK c \in D : f = c + s[c]
      BY <1>6
    <3>2. QED
      BY <3>1, <2>1, <1>1, <1>2
  <2>3. ~(q <= p \/ q > e)
    BY <1>5, <1>7
  <2>4. DOMAIN w.ftr = {f \in F : f <= p \/ f > e} \cup {e}
    BY <1>5, <1>10 DEF IsWritten
  <2>5. \A f \in F \ {q, e} : w.ftr[f] = m.ftr[f]
    BY <2>2, <1>5, <1>10 DEF IsWritten
  <2>6. w.ftr = [f \in DOMAIN w.ftr |-> w.ftr[f]] /\ w.ftr[e] = [size |-> z, type |-> FREE]
    BY <1>5, <1>10 DEF IsWritten
  <2> HIDE DEF F
  <2>7. DOMAIN w.ftr = (F \ {q}) \cup {e}
    BY <2>2, <2>3, <2>4
  <2>8. QED
    BY <2>5, <2>6, <2>7
<1>13. /\ u \in [DOMAIN r -> {FREE, ALLOCATED}] /\ \A c \in D \ {q} : u[c] = t[c]
  BY <1>3, <1>5 DEF JoinedTypes
<1> HIDE DEF u
<1>14. ASSUME NEW c \in DOMAIN r
       PROVE  /\ w.hdr[c] = [size |-> r[c], type |-> u[c], next |-> w.hdr[c].next]
              /\ w.hdr[c].next = m.hdr[c].next
              /\ c + r[c] \in DOMAIN w.ftr
              /\ w.ftr[c + r[c]] = [size |-> r[c], type |-> u[c]]
  <2>1. CASE c = p
    <3>1. u[c] = FREE
      BY <2>1, <1>5, <1>13
    <3>2. QED
      BY <3>1, <2>1, <1>5, <1>11, <1>12
  <2>2. CASE c # p
    <3>1. c \in D \ {p, q} /\ r[c] = s[c] /\ u[c] = t[c] /\ w.hdr[c] = m.hdr[c]
      BY <2>2, <1>5, <1>11, <1>13
    <3>2. c + s[c] \in F
      BY <3>1, <1>6
    <3>3. c + s[c] # q /\ c + s[c] # e
      BY <3>1, <1>1, <1>2, <1>3, <1>7, Apart
    <3>4. c + s[c] \in F \ {q, e}
      BY <3>2, <3>3
    <3>5. w.ftr[c + s[c]] = m.ftr[c + s[c]] /\ c + s[c] \in DOMAIN w.ftr
      BY <3>4, <1>12
    <3>6. m.hdr[c] = [size |-> s[c], type |-> t[c], next |-> m.hdr[c].next]
          /\ m.ftr[c + s[c]] = [size |-> s[c], type |-> t[c]]
      BY <3>1, <1>6
    <3>7. QED
      BY <3>1, <3>5, <3>6
  <2>3. QED
    BY <2>1, <2>2
<1>15. DOMAIN w.ftr = {c + r[c] : c \in DOMAIN r}
  <2>1. ASSUME NEW f \in DOMAIN w.ftr PROVE \E c \in DOMAIN r : f = c + r[c]
    <3>1. CASE f = e
      BY <3>1, <1>5, <1>7
    <3>2. CASE f # e
      <4>1. PICK c \in D : f = c + s[c] /\ f # q
        BY <3>2, <1>6, <1>12, <1>5
      <4>2. c # p /\ c # q
        BY <4>1, <3>2, <1>1, <1>2
      <4>3. QED
        BY <4>1, <4>2, <1>5
    <3>3. QED
      BY <3>1, <3>2
  <2> HIDE DEF F
  <2>2. QED
    BY <2>1, <1>14
<1>16. ~InList(l, q)
  BY <1>1, <1>3, <1>7
<1>17. Chained(w, l)
  <2>1. \A c \in DOMAIN m.hdr : InList(l, c) => c \in DOMAIN w.hdr /\ w.hdr[c].next = m.hdr[c].next
    BY <1>5, <1>6, <1>11, <1>14, <1>16
  <2>2. \A c \in DOMAIN w.hdr : ~InList(l, c) => w.hdr[c].next = NULL
    BY <1>5, <1>6, <1>11, <1>14 DEF Chained
  <2>3. QED
    BY <2>1, <2>2, <1>6, <1>11, Rechained
<1>18. Represents(w, r, u, l)
  BY <1>5, <1>11, <1>12, <1>14, <1>15, <1>17 DEF Represents
<1>19. \A c \in DOMAIN r : u[c] = FREE <=> InList(l, c)
  BY <1>3, <1>5, <1>13
<1>20. Good(w, r, u, l)
  BY <1>4, <1>13, <1>18, <1>19 DEF Good
<1>21. QED
  BY <1>20, <1>1, <1>2 DEF r, u, w

\* The sizes and the types after trim_block.
TrimSizes(s, b, k) == IF s[b] - k < MinBlock THEN s ELSE Cut(s, b, k)

TrimTypes(s, t, b, k) == IF s[b] - k < MinBlock THEN t ELSE CutTypes(t, b, k)

LEMMA Trimmed ==
  ASSUME NEW m, NEW s, NEW t, NEW l, Good(m, s, t, l), NEW b \in DOMAIN s,
         t[b] = ALLOCATED, NEW k \in Nat, k > 0
  PROVE  \E j : Good(TrimBlock(m, b, k), TrimSizes(s, b, k), TrimTypes(s, t, b, k), j)
<1>1. /\ Represents(m, s, t, l) /\ Tiling(s) /\ t \in [DOMAIN s -> {FREE, ALLOCATED}]
      /\ \A c \in DOMAIN s : t[c] = FREE <=> InList(l, c)
  BY DEF Good
<1>2. m.hdr[b].size = s[b]
  BY <1>1, Fields
<1>3. CASE s[b] - k < MinBlock
  <2>1. TrimBlock(m, b, k) = m
    BY <1>2, <1>3 DEF TrimBlock
  <2>2. QED
    BY <2>1, <1>3 DEF TrimSizes, TrimTypes
<1>4. CASE ~(s[b] - k < MinBlock)
  <2>1. k < s[b] /\ 0 < k
    <3>1. PICK x, y : x = s[b] /\ y = MinBlock
      OBVIOUS
    <3>2. x \in Nat
      BY <3>1, <1>1, Apart
    <3>3. y \in Nat /\ y > 0
      BY <3>1, SizesAssumption DEF MinBlock
    <3>4. QED
      BY <3>1, <3>2, <3>3, <1>4
  <2> DEFINE r == Cut(s, b, k)
             u == CutTypes(t, b, k)
             g == WriteTags(WriteTags(m, b + k, s[b] - k, FREE), b, k, ALLOCATED)
  <2>2. TrimBlock(m, b, k) = AddFree(g, b + k)
    BY <1>2, <1>4 DEF TrimBlock
  <2>3. Represents(g, r, u, l)
    BY <2>1, <1>1, Split
  <2>4. Tiling(r)
    BY <2>1, <1>1, CutTiles
  <2>5. DOMAIN r = DOMAIN s \cup {b + k} /\ b + k \notin DOMAIN s
    <3>1. IsCut(r, s, b, k)
      BY <2>1, <1>1, CutParts
    <3> HIDE DEF r
    <3>2. QED
      BY <3>1 DEF IsCut
  <2>6. /\ u \in [DOMAIN r -> {FREE, ALLOCATED}] /\ u[b + k] = FREE
        /\ \A c \in DOMAIN s : u[c] = t[c]
        /\ u = [u EXCEPT ![b + k] = FREE]
    <3>1. PICK y : y = b + k
      OBVIOUS
    <3>2. /\ u = [c \in DOMAIN s \cup {y} |-> IF c = y THEN FREE ELSE t[c]]
          /\ y \notin DOMAIN s
      BY <3>1, <2>5, <1>1 DEF CutTypes
    <3>3. FREE \in {FREE, ALLOCATED}
      OBVIOUS
    <3> HIDE DEF u, r
    <3>4. /\ u \in [DOMAIN s \cup {y} -> {FREE, ALLOCATED}] /\ u[y] = FREE
          /\ \A c \in DOMAIN s : u[c] = t[c]
      BY <3>2, <3>3, <1>1
    <3>5. u = [u EXCEPT ![y] = FREE]
      BY <3>4
    <3>6. QED
      BY <3>1, <3>4, <3>5, <2>5
  <2>7. ~InList(l, b + k)
    <3>1. \A i \in 1..Len(l) : l[i] \in DOMAIN s
      BY <1>1 DEF Represents, Chained
    <3>2. QED
      BY <3>1, <2>5 DEF InList
  <2> HIDE DEF r, u, g
  <2>8. PICK y : y = b + k /\ y \in DOMAIN r
    BY <2>5
  <2>9. Represents(AddFree(g, y), r, u, <<y>> \o l)
    <3>1. Represents(AddFree(g, y), r, [u EXCEPT ![y] = FREE], <<y>> \o l)
      BY <2>3, <2>4, <2>6, <2>7, <2>8, Added
    <3>2. QED
      BY <3>1, <2>6, <2>8
  <2>10. \A c : InList(<<y>> \o l, c) <=> c = y \/ InList(l, c)
    <3>1. l \in Seq(DOMAIN r)
      BY <2>3 DEF Represents, Chained
    <3>2. QED
      BY <3>1, <2>8, Consed
  <2>11. \A c \in DOMAIN r : u[c] = FREE <=> InList(<<y>> \o l, c)
    BY <2>5, <2>6, <2>8, <2>10, <1>1
  <2>12. Good(AddFree(g, y), r, u, <<y>> \o l)
    BY <2>4, <2>6, <2>9, <2>11 DEF Good
  <2>13. QED
    BY <2>2, <2>8, <2>12, <1>4 DEF TrimSizes, TrimTypes, r, u
<1>5. QED
  BY <1>3, <1>4


-----------------------------------------------------------------------------
(* Freeing a block *)

\* An allocated block goes to the head of the list.
LEMMA Freed ==
  ASSUME NEW m, NEW s, NEW t, NEW l, Good(m, s, t, l), NEW b \in DOMAIN s, t[b] = ALLOCATED
  PROVE  /\ Good(AddFree(m, b), s, [t EXCEPT ![b] = FREE], <<b>> \o l)
         /\ AddFree(m, b).head = b
<1> DEFINE u == [t EXCEPT ![b] = FREE]
           w == AddFree(m, b)
           k == <<b>> \o l
<1>1. /\ Represents(m, s, t, l) /\ Tiling(s) /\ t \in [DOMAIN s -> {FREE, ALLOCATED}]
      /\ \A c \in DOMAIN s : t[c] = FREE <=> InList(l, c)
  BY DEF Good
<1>2. ~InList(l, b)
  BY <1>1 DEF FREE, ALLOCATED
<1>3. Represents(w, s, u, k)
  BY <1>1, <1>2, Added
<1>4. l \in Seq(DOMAIN s)
  BY <1>1 DEF Represents, Chained
<1>5. Entry(k, 1) = b /\ \A c : InList(k, c) <=> c = b \/ InList(l, c)
  BY <1>4, Consed
<1> HIDE DEF w, k
<1>6. w.head = b
  BY <1>3, <1>5 DEF Represents, Chained
<1>7. u \in [DOMAIN s -> {FREE, ALLOCATED}] /\ \A c \in DOMAIN s : u[c] = FREE <=> InList(k, c)
  BY <1>1, <1>5
<1>8. QED
  BY <1>1, <1>3, <1>6, <1>7 DEF Good, w, k

\* Two free blocks become one: the second is taken off the list before.
LEMMA FreeJoined ==
  ASSUME NEW m, NEW s, NEW t, NEW l, Good(m, s, t, l), NEW p \in DOMAIN s, t[p] = FREE,
         NEW q \in DOMAIN s, q = p + s[p], t[q] = FREE
  PROVE  LET g == RemoveFree(m, q)
         IN /\ g.hdr[p].size = s[p] /\ g.hdr[q].size = s[q]
            /\ \E j : Good(WriteTags(g, p, s[p] + s[q], FREE),
                           Joined(s, p), JoinedTypes(t, q), j)
<1> DEFINE g == RemoveFree(m, q)
           a == [t EXCEPT ![q] = ALLOCATED]
<1>1. PICK j : Good(g, s, a, j)
  BY Removed
<1> HIDE DEF g
<1>2. g.hdr[p].size = s[p] /\ g.hdr[q].size = s[q]
  <2>1. Represents(g, s, a, j)
    BY <1>1 DEF Good
  <2> HIDE DEF a
  <2>2. QED
    BY <2>1, Fields
<1>3. Tiling(s) /\ t \in [DOMAIN s -> {FREE, ALLOCATED}]
  BY DEF Good
<1>4. p # q
  BY <1>3, Apart
<1>5. a[p] = FREE /\ a[q] = ALLOCATED
  BY <1>3, <1>4
<1>6. JoinedTypes(a, q) = JoinedTypes(t, q)
  BY <1>3 DEF JoinedTypes
<1> HIDE DEF a
<1>7. Good(WriteTags(g, p, s[p] + s[p + s[p]], FREE), Joined(s, p), JoinedTypes(a, p + s[p]), j)
  BY <1>1, <1>5, Merged
<1>8. Good(WriteTags(g, p, s[p] + s[q], FREE), Joined(s, p), JoinedTypes(t, q), j)
  BY <1>6, <1>7
<1>9. QED
  BY <1>2, <1>8 DEF g

\* What coalescing does to the sizes and the types: with the block before, ...
JoinPrev(s, t, b, s2, t2, x) ==
  \/ /\ s2 = s /\ t2 = t /\ x = b
     /\ \A p \in DOMAIN s : p + s[p] = b => t[p] = ALLOCATED
  \/ /\ x \in DOMAIN s /\ x + s[x] = b /\ t[x] = FREE
     /\ s2 = Joined(s, x) /\ t2 = JoinedTypes(t, b)

\* ... and with the one behind.
JoinNext(s, t, x, s2, t2) ==
  \/ /\ s2 = s /\ t2 = t
     /\ t[x + s[x]] = ALLOCATED
  \/ /\ t[x + s[x]] = FREE
     /\ s2 = Joined(s, x) /\ t2 = JoinedTypes(t, x + s[x])

LEMMA PrevJoined ==
  ASSUME NEW m, NEW s, NEW t, NEW l, Good(m, s, t, l), NEW b \in DOMAIN s, t[b] = FREE,
         m.head = b
  PROVE  LET c == CoalescePrev(m, b)
         IN \E s2, t2, j : Good(c.mem, s2, t2, j) /\ JoinPrev(s, t, b, s2, t2, c.block)
<1> DEFINE c == CoalescePrev(m, b)
<1>1. Represents(m, s, t, l) /\ Tiling(s) /\ t \in [DOMAIN s -> {FREE, ALLOCATED}]
  BY DEF Good
<1>2. CASE b = Start
  <2>1. TypeBefore(m, b) # FREE
    BY <1>1, <1>2, Apart DEF TypeBefore, FREE
  <2>2. c = [mem |-> m, block |-> b]
    BY <2>1 DEF CoalescePrev
  <2> HIDE DEF c
  <2>3. c.mem = m /\ c.block = b
    BY <2>2
  <2>4. \A p \in DOMAIN s : p + s[p] # b
    BY <1>1, <1>2, Apart
  <2>5. JoinPrev(s, t, b, s, t, c.block)
    BY <2>3, <2>4 DEF JoinPrev
  <2>6. QED
    BY <2>3, <2>5 DEF c
<1>3. CASE b # Start
  <2>1. PICK p \in DOMAIN s : p + s[p] = b
    BY <1>1, <1>3 DEF Tiling
  <2>2. m.ftr[b] = [size |-> s[p], type |-> t[p]]
    BY <2>1, <1>1 DEF Represents
  <2>3. m.ftr[b].type = t[p] /\ m.ftr[b].size = s[p]
    <3>1. PICK y, z, f : y = s[p] /\ z = t[p] /\ f = m.ftr[b]
      OBVIOUS
    <3>2. f = [size |-> y, type |-> z]
      BY <3>1, <2>2
    <3>3. f.size = y /\ f.type = z
      BY <3>2
    <3>4. QED
      BY <3>1, <3>3
  <2>4. TypeBefore(m, b) = t[p] /\ b - m.ftr[b].size = p
    <3>1. b - s[p] = p
      <4>1. PICK y : y = s[p] /\ y \in Nat /\ p \in Nat
        BY <1>1, Apart
      <4>2. QED
        BY <4>1, <2>1
    <3>2. QED
      BY <3>1, <2>3, <1>3 DEF TypeBefore
  <2>5. CASE t[p] = FREE
    <3> DEFINE g == RemoveFree(m, b)
    <3>1. c = [mem |-> WriteTags(g, p, g.hdr[p].size + g.hdr[b].size, FREE), block |-> p]
      BY <2>4, <2>5 DEF CoalescePrev
    <3>2. /\ g.hdr[p].size = s[p] /\ g.hdr[b].size = s[b]
          /\ \E j : Good(WriteTags(g, p, s[p] + s[b], FREE), Joined(s, p), JoinedTypes(t, b), j)
      BY <2>1, <2>5, FreeJoined
    <3> HIDE DEF g, c
    <3>3. PICK w : w = WriteTags(g, p, s[p] + s[b], FREE)
      OBVIOUS
    <3>4. c = [mem |-> w, block |-> p]
      BY <3>1, <3>2, <3>3
    <3>5. c.mem = w /\ c.block = p
      BY <3>4
    <3>6. JoinPrev(s, t, b, Joined(s, p), JoinedTypes(t, b), c.block)
      BY <3>5, <2>1, <2>5 DEF JoinPrev
    <3>7. QED
      BY <3>2, <3>3, <3>5, <3>6 DEF c
  <2>6. CASE t[p] # FREE
    <3>1. c = [mem |-> m, block |-> b]
      BY <2>4, <2>6 DEF CoalescePrev
    <3> HIDE DEF c
    <3>2. c.mem = m /\ c.block = b
      BY <3>1
    <3>3. \A o \in DOMAIN s : o + s[o] = b => o = p
      BY <2>1, <1>1, Apart
    <3>4. t[p] = ALLOCATED
      BY <2>6, <1>1
    <3>5. JoinPrev(s, t, b, s, t, c.block)
      BY <3>2, <3>3, <3>4 DEF JoinPrev
    <3>6. QED
      BY <3>2, <3>5 DEF c
  <2>7. QED
    BY <2>5, <2>6
<1>4. QED
  BY <1>2, <1>3

LEMMA NextJoined ==
  ASSUME NEW m, NEW s, NEW t, NEW l, Good(m, s, t, l), NEW b \in DOMAIN s, t[b] = FREE,
         b + s[b] \in DOMAIN s
  PROVE  \E s2, t2, j : Good(CoalesceNext(m, b), s2, t2, j) /\ JoinNext(s, t, b, s2, t2)
<1>1. Represents(m, s, t, l) /\ Tiling(s) /\ t \in [DOMAIN s -> {FREE, ALLOCATED}]
  BY DEF Good
<1>2. PICK n : n = b + s[b]
  OBVIOUS
<1>3. n \in DOMAIN s /\ m.hdr[b].size = s[b] /\ m.hdr[n].type = t[n]
  <2>1. n \in DOMAIN s
    BY <1>2
  <2>2. QED
    BY <2>1, <1>1, Fields
<1> DEFINE g == RemoveFree(m, n)
<1>4. CASE t[n] = FREE
  <2>1. CoalesceNext(m, b) = WriteTags(g, b, g.hdr[b].size + g.hdr[n].size, FREE)
    BY <1>2, <1>3, <1>4 DEF CoalesceNext
  <2>2. /\ g.hdr[b].size = s[b] /\ g.hdr[n].size = s[n]
        /\ \E j : Good(WriteTags(g, b, s[b] + s[n], FREE), Joined(s, b), JoinedTypes(t, n), j)
    BY <1>2, <1>3, <1>4, FreeJoined
  <2> HIDE DEF g
  <2>3. JoinNext(s, t, b, Joined(s, b), JoinedTypes(t, n))
    BY <1>2, <1>4 DEF JoinNext
  <2>4. CoalesceNext(m, b) = WriteTags(g, b, s[b] + s[n], FREE)
    BY <2>1, <2>2
  <2>5. QED
    BY <2>2, <2>3, <2>4
<1>5. CASE t[n] # FREE
  <2>1. CoalesceNext(m, b) = m
    BY <1>2, <1>3, <1>5 DEF CoalesceNext
  <2>2. t[n] = ALLOCATED
    BY <1>1, <1>3, <1>5
  <2>3. JoinNext(s, t, b, s, t)
    BY <2>2, <1>2 DEF JoinNext
  <2>4. QED
    BY <2>1, <2>3
<1>6. QED
  BY <1>4, <1>5


\* Blocks may have disappeared and grown; the allocated ones are all there as
\* they were.
Kept(s, t, s2, t2) ==
  /\ DOMAIN s2 \subseteq DOMAIN s
  /\ \A c \in DOMAIN s2 : s2[c] >= s[c] /\ t2[c] = t[c]
  /\ \A c \in DOMAIN s : t[c] = ALLOCATED => c \in DOMAIN s2 /\ s2[c] = s[c]

LEMMA SameKept ==
  ASSUME NEW s, NEW t, Tiling(s)
  PROVE  Kept(s, t, s, t)
<1>1. \A c \in DOMAIN s : s[c] \in Nat
  BY Apart
<1>2. QED
  BY <1>1 DEF Kept

LEMMA JoinKeeps ==
  ASSUME NEW s, NEW t, Tiling(s), t \in [DOMAIN s -> {FREE, ALLOCATED}],
         NEW p \in DOMAIN s, t[p] = FREE, p + s[p] \in DOMAIN s, t[p + s[p]] = FREE
  PROVE  /\ Kept(s, t, Joined(s, p), JoinedTypes(t, p + s[p]))
         /\ p \in DOMAIN Joined(s, p) /\ JoinedTypes(t, p + s[p])[p] = FREE
<1> DEFINE r == Joined(s, p)
           u == JoinedTypes(t, p + s[p])
<1>1. PICK q : q = p + s[p]
  OBVIOUS
<1>2. /\ DOMAIN r = DOMAIN s \ {q} /\ p < q /\ q \in Nat
      /\ r[p] = s[p] + s[q]
      /\ \A c \in DOMAIN s : c # p /\ c # q => r[c] = s[c]
  <2>1. IsJoined(r, s, p)
    BY JoinedParts
  <2> HIDE DEF r
  <2>2. QED
    BY <2>1, <1>1 DEF IsJoined
<1>3. \A c \in DOMAIN s : s[c] \in Nat /\ c \in Nat
  BY Apart
<1>4. q \in DOMAIN s /\ p # q /\ ALLOCATED # FREE
  BY <1>1, <1>2, <1>3 DEF ALLOCATED, FREE
<1>5. DOMAIN u = DOMAIN s \ {q} /\ \A c \in DOMAIN s \ {q} : u[c] = t[c]
  BY <1>1 DEF JoinedTypes
<1> HIDE DEF r, u
<1>6. r[p] >= s[p]
  <2>1. PICK x, y : x = s[p] /\ y = s[q] /\ x \in Nat /\ y \in Nat
    BY <1>3, <1>4
  <2>2. QED
    BY <2>1, <1>2
<1>7. \A c \in DOMAIN r : r[c] >= s[c] /\ u[c] = t[c]
  BY <1>2, <1>3, <1>5, <1>6
<1>8. ASSUME NEW c \in DOMAIN s, t[c] = ALLOCATED PROVE c \in DOMAIN r /\ r[c] = s[c]
  BY <1>8, <1>1, <1>2, <1>4
<1>9. Kept(s, t, r, u)
  BY <1>2, <1>7, <1>8 DEF Kept
<1>10. p \in DOMAIN r /\ u[p] = FREE
  BY <1>2, <1>4, <1>5
<1>11. QED
  BY <1>9, <1>10 DEF r, u

LEMMA PrevKeeps ==
  ASSUME NEW s, NEW t, Tiling(s), t \in [DOMAIN s -> {FREE, ALLOCATED}],
         NEW b \in DOMAIN s, t[b] = FREE, NEW s2, NEW t2, NEW x, JoinPrev(s, t, b, s2, t2, x)
  PROVE  Kept(s, t, s2, t2) /\ x \in DOMAIN s2 /\ t2[x] = FREE
<1>1. CASE s2 = s /\ t2 = t /\ x = b
  BY <1>1, SameKept
<1>2. CASE x \in DOMAIN s /\ x + s[x] = b /\ t[x] = FREE
           /\ s2 = Joined(s, x) /\ t2 = JoinedTypes(t, b)
  BY <1>2, JoinKeeps
<1>3. QED
  BY <1>1, <1>2 DEF JoinPrev

LEMMA NextKeeps ==
  ASSUME NEW s, NEW t, Tiling(s), t \in [DOMAIN s -> {FREE, ALLOCATED}],
         NEW x \in DOMAIN s, t[x] = FREE, x + s[x] \in DOMAIN s,
         NEW s2, NEW t2, JoinNext(s, t, x, s2, t2)
  PROVE  Kept(s, t, s2, t2) /\ x \in DOMAIN s2 /\ t2[x] = FREE
<1>1. CASE s2 = s /\ t2 = t
  BY <1>1, SameKept
<1>2. CASE t[x + s[x]] = FREE /\ s2 = Joined(s, x) /\ t2 = JoinedTypes(t, x + s[x])
  BY <1>2, JoinKeeps
<1>3. QED
  BY <1>1, <1>2 DEF JoinNext

LEMMA KeptTwice ==
  ASSUME NEW s, NEW t, NEW s1, NEW t1, NEW s2, NEW t2, Tiling(s), Tiling(s1), Tiling(s2),
         Kept(s, t, s1, t1), Kept(s1, t1, s2, t2)
  PROVE  Kept(s, t, s2, t2)
<1>1. /\ \A c \in DOMAIN s : s[c] \in Nat
      /\ \A c \in DOMAIN s1 : s1[c] \in Nat
      /\ \A c \in DOMAIN s2 : s2[c] \in Nat
  BY Apart
<1>2. DOMAIN s1 \subseteq DOMAIN s /\ DOMAIN s2 \subseteq DOMAIN s1
  BY DEF Kept
<1>3. ASSUME NEW c \in DOMAIN s2 PROVE s2[c] >= s[c] /\ t2[c] = t[c]
  <2>1. s2[c] >= s1[c] /\ s1[c] >= s[c] /\ t2[c] = t1[c] /\ t1[c] = t[c]
    BY <1>2 DEF Kept
  <2>2. s[c] \in Nat /\ s1[c] \in Nat /\ s2[c] \in Nat
    BY <1>1, <1>2
  <2>3. QED
    BY <2>1, <2>2
<1>4. ASSUME NEW c \in DOMAIN s, t[c] = ALLOCATED PROVE c \in DOMAIN s2 /\ s2[c] = s[c]
  <2>1. c \in DOMAIN s1 /\ s1[c] = s[c]
    BY <1>4 DEF Kept
  <2>2. t1[c] = ALLOCATED
    BY <1>4, <2>1 DEF Kept
  <2>3. QED
    BY <2>1, <2>2 DEF Kept
<1>5. QED
  BY <1>2, <1>3, <1>4 DEF Kept

\* What trimming does.
IsTrimmed(s, t, b, k, s2, t2) ==
  /\ DOMAIN s \subseteq DOMAIN s2
  /\ \A c \in DOMAIN s : t2[c] = t[c] /\ (c # b => s2[c] = s[c])
  /\ s2[b] = s[b] \/ (s2[b] = k /\ k < s[b])
  /\ s[b] >= k => s2[b] >= k
  /\ \A c \in DOMAIN s2 \ DOMAIN s : t2[c] = FREE /\ s2[c] >= MinBlock

LEMMA TrimKeeps ==
  ASSUME NEW s, NEW t, Tiling(s), t \in [DOMAIN s -> {FREE, ALLOCATED}],
         NEW b \in DOMAIN s, NEW k \in Nat, k > 0
  PROVE  IsTrimmed(s, t, b, k, TrimSizes(s, b, k), TrimTypes(s, t, b, k))
<1>1. PICK x : x = s[b] /\ x \in Nat
  BY Apart
<1>2. PICK y : y = MinBlock /\ y \in Nat /\ y > 0
  BY SizesAssumption DEF MinBlock
<1>3. CASE s[b] - k < MinBlock
  <2>1. TrimSizes(s, b, k) = s /\ TrimTypes(s, t, b, k) = t
    BY <1>3 DEF TrimSizes, TrimTypes
  <2>2. IsTrimmed(s, t, b, k, s, t)
    BY DEF IsTrimmed
  <2>3. QED
    BY <2>1, <2>2
<1>4. CASE ~(s[b] - k < MinBlock)
  <2>1. k < s[b] /\ 0 < k
    BY <1>1, <1>2, <1>4
  <2> DEFINE r == Cut(s, b, k)
             u == CutTypes(t, b, k)
  <2>2. TrimSizes(s, b, k) = r /\ TrimTypes(s, t, b, k) = u
    BY <1>4 DEF TrimSizes, TrimTypes
  <2>3. IsCut(r, s, b, k)
    BY <2>1, CutParts
  <2>4. PICK z : z = b + k
    OBVIOUS
  <2> HIDE DEF r
  <2>5. /\ DOMAIN r = DOMAIN s \cup {z} /\ z \notin DOMAIN s
        /\ r[b] = k /\ r[z] = x - k
        /\ \A c \in DOMAIN s : c # b => r[c] = s[c]
    BY <2>3, <2>4, <1>1 DEF IsCut
  <2>6. u = [c \in DOMAIN s \cup {z} |-> IF c = z THEN FREE ELSE t[c]]
    BY <2>4 DEF CutTypes
  <2> HIDE DEF u
  <2>7. u[z] = FREE /\ \A c \in DOMAIN s : u[c] = t[c]
    BY <2>5, <2>6
  <2>8. r[z] >= MinBlock
    BY <2>5, <1>1, <1>2, <1>4
  <2>9. r[b] >= k
    BY <2>5
  <2>10. IsTrimmed(s, t, b, k, r, u)
    BY <2>1, <2>5, <2>7, <2>8, <2>9 DEF IsTrimmed
  <2>11. QED
    BY <2>2, <2>10
<1>5. QED
  BY <1>3, <1>4


-----------------------------------------------------------------------------
(* The inductive invariant: the memory is that of some tiling, and the       *)
(* allocated blocks are those that somebody has                              *)

Allocated(s, t) == {b \in DOMAIN s : t[b] = ALLOCATED}

Owns(s, t) ==
  /\ Owned = Allocated(s, t)
  /\ writing \cap sent = {} /\ writing \cap cancelled = {} /\ sent \cap cancelled = {}
  /\ \A b \in writing : s[b] >= AllocSize

IInv ==
  /\ aborted \in BOOLEAN
  /\ \E s, t, l : Good(mem, s, t, l) /\ Owns(s, t)

\* The memory that allocator_create writes: one free block.
LEMMA Created ==
  ASSUME Init
  PROVE  \E l : Good(mem, [c \in {Start} |-> TotalSize], [c \in {Start} |-> FREE], l)
<1> DEFINE s == [c \in {Start} |-> TotalSize]
           t == [c \in {Start} |-> FREE]
           g == WriteTags(Empty, Start, TotalSize, FREE)
<1>1. PICK n : n = TotalSize
  OBVIOUS
<1>2. n \in Nat /\ n > 0 /\ Start \in Nat /\ Start > 0 /\ End = Start + n /\ NULL # Start
  BY <1>1, SizesAssumption DEF Start, End, NULL
<1>3. DOMAIN s = {Start} /\ s[Start] = n /\ DOMAIN t = {Start} /\ t[Start] = FREE
  BY <1>1
<1>4. s \in [{Start} -> Nat \ {0}]
  BY <1>1, <1>2
<1>5. t \in [{Start} -> {FREE, ALLOCATED}]
  OBVIOUS
<1>6. t = [t EXCEPT ![Start] = FREE]
  OBVIOUS
<1> HIDE DEF s, t
<1>7. Tiling(s)
  <2>1. IsBlocks(s)
    BY <1>2, <1>3, <1>4 DEF IsBlocks
  <2>2. \A b, c \in DOMAIN s : b < c => b + s[b] <= c
    BY <1>2, <1>3
  <2>3. \A b \in DOMAIN s : b + s[b] = End \/ b + s[b] \in DOMAIN s
    BY <1>2, <1>3
  <2>4. QED
    BY <2>1, <2>2, <2>3, <1>3 DEF Tiling
<1>8. IsMemory(Empty) /\ Empty.head = NULL /\ DOMAIN Empty.hdr = {} /\ DOMAIN Empty.ftr = {}
  <2>1. DOMAIN <<>> = {}
    OBVIOUS
  <2>2. QED
    BY <2>1 DEF IsMemory, Empty
<1> HIDE DEF g
<1>9. IsWritten(g, Empty, Start, n, FREE)
  BY <1>1, <1>8, Written DEF g
<1>10. /\ IsMemory(g) /\ g.head = NULL
       /\ DOMAIN g.hdr = {Start} /\ g.hdr = [o \in DOMAIN g.hdr |-> g.hdr[o]]
       /\ g.hdr[Start] = [size |-> n, type |-> FREE, next |-> g.hdr[Start].next]
       /\ g.hdr[Start].next = NULL
       /\ DOMAIN g.ftr = {End} /\ g.ftr = [e \in DOMAIN g.ftr |-> g.ftr[e]]
       /\ g.ftr[End] = [size |-> n, type |-> FREE]
  BY <1>2, <1>8, <1>9 DEF IsWritten
<1> DEFINE l == <<>>
<1>11. l \in Seq({Start}) /\ Len(l) = 0
  OBVIOUS
<1> HIDE DEF l
<1>12. 1..Len(l) = {}
  BY <1>11
<1>13. Chained(g, l)
  <2>1. Entry(l, 1) = NULL
    BY <1>12 DEF Entry
  <2>2. l \in Seq(DOMAIN g.hdr)
    BY <1>10, <1>11
  <2>3. \A b \in DOMAIN g.hdr : g.hdr[b].next = NULL
    BY <1>10
  <2>4. QED
    BY <2>1, <2>2, <2>3, <1>10, <1>12 DEF Chained
<1>14. DOMAIN g.ftr = {c + s[c] : c \in DOMAIN s}
  BY <1>2, <1>3, <1>10
<1>15. Represents(g, s, t, l)
  <2>1. \A b \in DOMAIN s :
          /\ g.hdr[b] = [size |-> s[b], type |-> t[b], next |-> g.hdr[b].next]
          /\ g.ftr[b + s[b]] = [size |-> s[b], type |-> t[b]]
    BY <1>2, <1>3, <1>10
  <2>2. QED
    BY <2>1, <1>3, <1>10, <1>13, <1>14 DEF Represents
<1>16. ~InList(l, Start)
  BY <1>12 DEF InList
<1>17. Represents(AddFree(g, Start), s, t, <<Start>> \o l)
  <2>1. Represents(AddFree(g, Start), s, [t EXCEPT ![Start] = FREE], <<Start>> \o l)
    BY <1>3, <1>5, <1>7, <1>15, <1>16, Added
  <2>2. QED
    BY <2>1, <1>6
<1>18. InList(<<Start>> \o l, Start)
  BY <1>11, Consed
<1>19. Good(AddFree(g, Start), s, t, <<Start>> \o l)
  BY <1>3, <1>5, <1>7, <1>17, <1>18 DEF Good
<1>20. QED
  BY <1>19 DEF Init, g, s, t

\* FirstFit finds a free block that is large enough.
LEMMA Found ==
  ASSUME NEW m, NEW s, NEW t, NEW l, Good(m, s, t, l), Fitting(m) # {}
  PROVE  FirstFit(m) \in DOMAIN s /\ t[FirstFit(m)] = FREE /\ s[FirstFit(m)] >= AllocSize
<1>1. /\ Represents(m, s, t, l) /\ Tiling(s)
      /\ \A c \in DOMAIN s : t[c] = FREE <=> InList(l, c)
  BY DEF Good
<1>2. Chained(m, l) /\ DOMAIN m.hdr = DOMAIN s /\ DOMAIN m.hdr \subseteq Nat
  BY <1>1, Apart DEF Represents
<1>3. PICK n \in Nat : n = Len(l)
  BY <1>2 DEF Chained
<1>4. FreeList(m) = l /\ DOMAIN l = 1..n
  <2>1. l \in Seq(DOMAIN s)
    BY <1>2 DEF Chained
  <2>2. DOMAIN l = 1..n
    BY <2>1, <1>3
  <2>3. QED
    BY <2>2, <1>2, Listing
<1>5. PICK T : T = Fitting(m)
  OBVIOUS
<1>6. FreeBlocks(m) = {l[i] : i \in 1..n}
  BY <1>4 DEF FreeBlocks
<1> DEFINE P == {i \in 1..n : l[i] \in T}
<1>7. P # {}
  <2>1. PICK b : b \in T
    BY <1>5
  <2>2. b \in FreeBlocks(m)
    BY <2>1, <1>5 DEF Fitting
  <2>3. QED
    BY <2>1, <2>2, <1>6
<1>8. P \in SUBSET Nat
  OBVIOUS
<1>9. PICK j \in P : \A i \in P : j <= i
  <2> HIDE DEF P
  <2>1. QED
    BY <1>7, <1>8, Least
<1>10. j \in 1..n /\ l[j] \in T /\ \A i \in 1..(j - 1) : l[i] \notin T
  <2>1. ASSUME NEW i \in 1..(j - 1), l[i] \in T PROVE FALSE
    <3>1. i \in 1..n /\ ~(j <= i)
      BY <1>9
    <3>2. QED
      BY <3>1, <2>1, <1>9
  <2>2. QED
    BY <2>1, <1>9
<1> HIDE DEF P
<1>11. PICK i \in 1..n : l[i] \in T /\ FirstFit(m) = l[i]
  <2> DEFINE i == CHOOSE x \in 1..n : l[x] \in T /\ \A k \in 1..(x - 1) : l[k] \notin T
  <2>1. i \in 1..n /\ l[i] \in T
    BY <1>10
  <2>2. FirstFit(m) = l[i]
    BY <1>4, <1>5 DEF FirstFit
  <2> HIDE DEF i
  <2>3. QED
    BY <2>1, <2>2
<1>12. PICK b : b = l[i]
  OBVIOUS
<1>13. b \in DOMAIN s /\ InList(l, b)
  BY <1>2, <1>3, <1>12 DEF InList, Chained
<1>14. m.hdr[b].size >= AllocSize
  BY <1>5, <1>11, <1>12 DEF Fitting
<1>15. QED
  BY <1>1, <1>11, <1>12, <1>13, <1>14, Fields

LEMMA AllocSizePositive == AllocSize \in Nat /\ AllocSize > 0
BY SizesAssumption DEF AllocSize

\* What Alloc does.
LEMMA AllocStep ==
  ASSUME NEW s, NEW t, NEW l, Good(mem, s, t, l), Alloc
  PROVE  \E b \in DOMAIN s :
           LET a == [t EXCEPT ![b] = ALLOCATED]
           IN /\ t[b] = FREE /\ s[b] >= AllocSize
              /\ \E j : Good(mem', TrimSizes(s, b, AllocSize), TrimTypes(s, a, b, AllocSize), j)
              /\ writing' = writing \cup {b} /\ ~aborted
              /\ UNCHANGED <<sent, cancelled, aborted>>
<1> DEFINE b == FirstFit(mem)
           a == [t EXCEPT ![b] = ALLOCATED]
           k == AllocSize
           cut == TrimBlock(RemoveFree(mem, b), b, k)
           r == TrimSizes(s, b, k)
           u == TrimTypes(s, a, b, k)
<1>1. b \in DOMAIN s /\ t[b] = FREE /\ s[b] >= k
  <2>1. Fitting(mem) # {}
    BY DEF Alloc
  <2> HIDE DEF k
  <2>2. QED
    BY <2>1, Found DEF k
<1>2. /\ mem' = WriteTags(cut, b, cut.hdr[b].size, ALLOCATED)
      /\ writing' = writing \cup {b} /\ ~aborted /\ UNCHANGED <<sent, cancelled, aborted>>
  BY DEF Alloc
<1> HIDE DEF b, cut
<1>3. PICK i : Good(RemoveFree(mem, b), s, a, i)
  BY <1>1, Removed
<1>4. k \in Nat /\ k > 0
  BY AllocSizePositive
<1>5. Tiling(s) /\ t \in [DOMAIN s -> {FREE, ALLOCATED}]
  BY DEF Good
<1>6. a \in [DOMAIN s -> {FREE, ALLOCATED}] /\ a[b] = ALLOCATED
  BY <1>1, <1>5
<1> HIDE DEF a, k
<1>7. PICK j : Good(cut, r, u, j)
  BY <1>1, <1>3, <1>4, <1>6, Trimmed DEF cut
<1>8. IsTrimmed(s, a, b, k, r, u)
  BY <1>1, <1>4, <1>5, <1>6, TrimKeeps
<1> HIDE DEF r, u
<1>9. b \in DOMAIN r /\ u[b] = ALLOCATED
  BY <1>1, <1>6, <1>8 DEF IsTrimmed
<1>10. Represents(cut, r, u, j) /\ Tiling(r) /\ u \in [DOMAIN r -> {FREE, ALLOCATED}]
  BY <1>7 DEF Good
<1>11. cut.hdr[b].size = r[b]
  BY <1>9, <1>10, Fields
<1>12. u = [u EXCEPT ![b] = ALLOCATED]
  BY <1>9, <1>10
<1>13. ALLOCATED \in {FREE, ALLOCATED}
  OBVIOUS
<1>14. Represents(WriteTags(cut, b, r[b], ALLOCATED), r, [u EXCEPT ![b] = ALLOCATED], j)
  BY <1>9, <1>10, <1>13, Retagged
<1>15. Represents(mem', r, u, j)
  BY <1>2, <1>11, <1>12, <1>14
<1>16. Good(mem', r, u, j)
  BY <1>7, <1>15 DEF Good
<1>17. /\ \E i1 : Good(mem', r, u, i1)
       /\ t[b] = FREE /\ s[b] >= k /\ writing' = writing \cup {b} /\ ~aborted
       /\ UNCHANGED <<sent, cancelled, aborted>>
  BY <1>1, <1>2, <1>16
<1>18. QED
  BY <1>1, <1>17 DEF r, u, a, k

\* What Free does to the sizes and the types.
FreedTo(s, t, b, s2, t2, failed) ==
  \E s1, t1, x :
    /\ Tiling(s1) /\ t1 \in [DOMAIN s1 -> {FREE, ALLOCATED}]
    /\ JoinPrev(s, [t EXCEPT ![b] = FREE], b, s1, t1, x)
    /\ \/ failed /\ s2 = s1 /\ t2 = t1
       \/ ~failed /\ x + s1[x] \in DOMAIN s1 /\ JoinNext(s1, t1, x, s2, t2)

LEMMA FreeStep ==
  ASSUME NEW s, NEW t, NEW l, Good(mem, s, t, l), NEW b \in DOMAIN s, t[b] = ALLOCATED, Free(b)
  PROVE  \E s2, t2, j : Good(mem', s2, t2, j) /\ FreedTo(s, t, b, s2, t2, aborted')
<1> DEFINE g == AddFree(mem, b)
           c == CoalescePrev(g, b)
           end == c.block + c.mem.hdr[c.block].size
           a == [t EXCEPT ![b] = FREE]
<1>1. /\ mem' = IF InRange(end) THEN CoalesceNext(c.mem, c.block) ELSE c.mem
      /\ aborted' = ~InRange(end)
  BY DEF Free
<1>2. Good(g, s, a, <<b>> \o l) /\ g.head = b
  BY Freed
<1>3. Tiling(s) /\ t \in [DOMAIN s -> {FREE, ALLOCATED}]
  BY DEF Good
<1>4. a[b] = FREE /\ a \in [DOMAIN s -> {FREE, ALLOCATED}]
  BY <1>3
<1> HIDE DEF g, a
<1>5. PICK s1, t1, i : Good(c.mem, s1, t1, i) /\ JoinPrev(s, a, b, s1, t1, c.block)
  BY <1>2, <1>4, PrevJoined
<1> HIDE DEF c
<1>6. PICK x : x = c.block
  OBVIOUS
<1>7. Tiling(s1) /\ t1 \in [DOMAIN s1 -> {FREE, ALLOCATED}] /\ Represents(c.mem, s1, t1, i)
  BY <1>5 DEF Good
<1>8. x \in DOMAIN s1 /\ t1[x] = FREE
  BY <1>3, <1>4, <1>5, <1>6, PrevKeeps
<1>9. end = x + s1[x]
  BY <1>6, <1>7, <1>8, Fields
<1>10. CASE InRange(end)
  <2>1. x + s1[x] \in DOMAIN s1
    <3>1. end = End \/ end \in DOMAIN s1
      BY <1>7, <1>8, <1>9 DEF Tiling
    <3>2. end # End
      BY <1>10, SizesAssumption DEF InRange, End
    <3>3. QED
      BY <3>1, <3>2, <1>9
  <2>2. PICK s2, t2, j : Good(CoalesceNext(c.mem, x), s2, t2, j) /\ JoinNext(s1, t1, x, s2, t2)
    BY <2>1, <1>5, <1>8, NextJoined
  <2>3. mem' = CoalesceNext(c.mem, x) /\ ~aborted'
    BY <1>1, <1>6, <1>10
  <2>4. FreedTo(s, t, b, s2, t2, aborted')
    BY <2>1, <2>2, <2>3, <1>5, <1>6, <1>7 DEF FreedTo, a
  <2>5. QED
    BY <2>2, <2>3, <2>4
<1>11. CASE ~InRange(end)
  <2>1. mem' = c.mem /\ aborted'
    BY <1>1, <1>11
  <2>2. FreedTo(s, t, b, s1, t1, aborted')
    BY <2>1, <1>5, <1>7 DEF FreedTo, a
  <2>3. QED
    BY <2>1, <2>2, <1>5
<1>12. QED
  BY <1>10, <1>11


-----------------------------------------------------------------------------
(* The operations as what they do to the sizes and the types *)

AllocTo(s, t, s2, t2) ==
  \E b \in DOMAIN s :
    /\ t[b] = FREE /\ s[b] >= AllocSize
    /\ s2 = TrimSizes(s, b, AllocSize)
    /\ t2 = TrimTypes(s, [t EXCEPT ![b] = ALLOCATED], b, AllocSize)
    /\ writing' = writing \cup {b}
    /\ UNCHANGED <<sent, cancelled, aborted>>

TrimTo(s, t, s2, t2) ==
  \E b \in writing, n \in SentSizes :
    /\ s2 = TrimSizes(s, b, n + BlockHeader + BlockFooter)
    /\ t2 = TrimTypes(s, t, b, n + BlockHeader + BlockFooter)
    /\ writing' = writing \ {b} /\ sent' = sent \cup {b}
    /\ UNCHANGED <<cancelled, aborted>>

CancelTo(s, t, s2, t2) ==
  \E b \in writing :
    /\ s2 = s /\ t2 = t
    /\ writing' = writing \ {b} /\ cancelled' = cancelled \cup {b}
    /\ UNCHANGED <<sent, aborted>>

FreeTo(s, t, s2, t2) ==
  \E b \in sent :
    /\ FreedTo(s, t, b, s2, t2, aborted')
    /\ aborted' \in BOOLEAN
    /\ sent' = sent \ {b}
    /\ UNCHANGED <<writing, cancelled>>

Effect(s, t, s2, t2) ==
  AllocTo(s, t, s2, t2) \/ TrimTo(s, t, s2, t2) \/ CancelTo(s, t, s2, t2) \/ FreeTo(s, t, s2, t2)

LEMMA MessageWords ==
  ASSUME NEW n \in SentSizes
  PROVE  LET k == n + BlockHeader + BlockFooter
         IN k \in Nat /\ k > 0 /\ k <= AllocSize /\ k >= BlockHeader + BlockFooter + 1
<1>1. n \in 1..MaxMessageSize /\ MaxMessageSize \in Nat /\ BlockHeader \in Nat /\ BlockFooter \in Nat
  BY SizesAssumption
<1>2. QED
  BY <1>1 DEF AllocSize

\* Every step of the allocator has one of these effects.
LEMMA Effects ==
  ASSUME NEW s, NEW t, NEW l, Good(mem, s, t, l), Owns(s, t), Next
  PROVE  \E s2, t2, j : Good(mem', s2, t2, j) /\ Effect(s, t, s2, t2)
<1>1. CASE Alloc
  <2>1. PICK b \in DOMAIN s :
          /\ t[b] = FREE /\ s[b] >= AllocSize
          /\ \E j : Good(mem', TrimSizes(s, b, AllocSize),
                         TrimTypes(s, [t EXCEPT ![b] = ALLOCATED], b, AllocSize), j)
          /\ writing' = writing \cup {b} /\ ~aborted
          /\ UNCHANGED <<sent, cancelled, aborted>>
    BY <1>1, AllocStep
  <2>2. AllocTo(s, t, TrimSizes(s, b, AllocSize),
                TrimTypes(s, [t EXCEPT ![b] = ALLOCATED], b, AllocSize))
    BY <2>1 DEF AllocTo
  <2>3. QED
    BY <2>1, <2>2 DEF Effect
<1>2. ASSUME NEW b \in writing, NEW n \in SentSizes, Trim(b, n)
      PROVE  \E s2, t2, j : Good(mem', s2, t2, j) /\ Effect(s, t, s2, t2)
  <2>1. PICK k : k = n + BlockHeader + BlockFooter
    OBVIOUS
  <2>2. k \in Nat /\ k > 0
    BY <2>1, MessageWords
  <2>3. b \in DOMAIN s /\ t[b] = ALLOCATED
    BY DEF Owns, Owned, Allocated
  <2>4. PICK j : Good(TrimBlock(mem, b, k), TrimSizes(s, b, k), TrimTypes(s, t, b, k), j)
    BY <2>2, <2>3, Trimmed
  <2>5. mem' = TrimBlock(mem, b, k)
    BY <1>2, <2>1 DEF Trim
  <2>6. TrimTo(s, t, TrimSizes(s, b, k), TrimTypes(s, t, b, k))
    BY <1>2, <2>1 DEF Trim, TrimTo
  <2>7. QED
    BY <2>4, <2>5, <2>6 DEF Effect
<1>3. ASSUME NEW b \in writing, Cancel(b)
      PROVE  \E s2, t2, j : Good(mem', s2, t2, j) /\ Effect(s, t, s2, t2)
  <2>1. CancelTo(s, t, s, t) /\ mem' = mem
    BY <1>3 DEF Cancel, CancelTo
  <2>2. QED
    BY <2>1 DEF Effect
<1>4. ASSUME NEW b \in sent, Free(b)
      PROVE  \E s2, t2, j : Good(mem', s2, t2, j) /\ Effect(s, t, s2, t2)
  <2>1. b \in DOMAIN s /\ t[b] = ALLOCATED
    BY DEF Owns, Owned, Allocated
  <2>2. PICK s2, t2, j : Good(mem', s2, t2, j) /\ FreedTo(s, t, b, s2, t2, aborted')
    BY <2>1, <1>4, FreeStep
  <2>3. aborted' \in BOOLEAN /\ sent' = sent \ {b} /\ UNCHANGED <<writing, cancelled>>
    BY <1>4 DEF Free
  <2>4. FreeTo(s, t, s2, t2)
    BY <2>2, <2>3 DEF FreeTo
  <2>5. QED
    BY <2>2, <2>4 DEF Effect
<1>5. QED
  BY <1>1, <1>2, <1>3, <1>4 DEF Next

\* What Free keeps.
LEMMA FreeKeeps ==
  ASSUME NEW s, NEW t, Tiling(s), t \in [DOMAIN s -> {FREE, ALLOCATED}],
         NEW b \in DOMAIN s, NEW s2, NEW t2, NEW failed, FreedTo(s, t, b, s2, t2, failed),
         Tiling(s2)
  PROVE  Kept(s, [t EXCEPT ![b] = FREE], s2, t2)
<1> DEFINE a == [t EXCEPT ![b] = FREE]
<1>1. a \in [DOMAIN s -> {FREE, ALLOCATED}] /\ a[b] = FREE
  OBVIOUS
<1> HIDE DEF a
<1>2. PICK s1, t1, x :
        /\ Tiling(s1) /\ t1 \in [DOMAIN s1 -> {FREE, ALLOCATED}]
        /\ JoinPrev(s, a, b, s1, t1, x)
        /\ \/ failed /\ s2 = s1 /\ t2 = t1
           \/ ~failed /\ x + s1[x] \in DOMAIN s1 /\ JoinNext(s1, t1, x, s2, t2)
  BY DEF FreedTo, a
<1>3. Kept(s, a, s1, t1) /\ x \in DOMAIN s1 /\ t1[x] = FREE
  BY <1>1, <1>2, PrevKeeps
<1>4. CASE s2 = s1 /\ t2 = t1
  BY <1>3, <1>4 DEF a
<1>5. CASE x + s1[x] \in DOMAIN s1 /\ JoinNext(s1, t1, x, s2, t2)
  <2>1. Kept(s1, t1, s2, t2)
    BY <1>2, <1>3, <1>5, NextKeeps
  <2>2. QED
    BY <2>1, <1>2, <1>3, KeptTwice DEF a
<1>6. QED
  BY <1>2, <1>4, <1>5

LEMMA KeptAllocated ==
  ASSUME NEW s, NEW t, NEW s2, NEW t2, Kept(s, t, s2, t2)
  PROVE  Allocated(s2, t2) = Allocated(s, t)
<1>1. ASSUME NEW c \in Allocated(s2, t2) PROVE c \in Allocated(s, t)
  BY DEF Kept, Allocated
<1>2. ASSUME NEW c \in Allocated(s, t) PROVE c \in Allocated(s2, t2)
  <2>1. c \in DOMAIN s /\ t[c] = ALLOCATED
    BY DEF Allocated
  <2>2. c \in DOMAIN s2
    BY <2>1 DEF Kept
  <2>3. t2[c] = t[c]
    BY <2>2 DEF Kept
  <2>4. QED
    BY <2>1, <2>2, <2>3 DEF Allocated
<1>3. QED
  BY <1>1, <1>2

LEMMA TrimmedAllocated ==
  ASSUME NEW s, NEW t, NEW b, NEW k, NEW s2, NEW t2, IsTrimmed(s, t, b, k, s2, t2)
  PROVE  Allocated(s2, t2) = Allocated(s, t)
BY DEF IsTrimmed, Allocated, FREE, ALLOCATED

\* Nobody's block is disturbed when the sizes s become s2.
Undisturbed(s, s2) ==
  /\ \A b \in Owned \cap Owned' :
       s2[b] = s[b] \/ (b \in writing /\ b \in sent' /\ s2[b] < s[b])
  /\ \A b \in Owned' \ Owned : s2[b] >= AllocSize

\* The owners keep what they have.
LEMMA OwnersKept ==
  ASSUME NEW s, NEW t, Tiling(s), t \in [DOMAIN s -> {FREE, ALLOCATED}], Owns(s, t),
         NEW s2, NEW t2, Tiling(s2), Effect(s, t, s2, t2)
  PROVE  Owns(s2, t2)' /\ Undisturbed(s, s2)
<1>1. /\ Owned = Allocated(s, t)
      /\ writing \cap sent = {} /\ writing \cap cancelled = {} /\ sent \cap cancelled = {}
      /\ \A b \in writing : s[b] >= AllocSize
  BY DEF Owns
<1>2. AllocSize \in Nat /\ AllocSize > 0 /\ FREE # ALLOCATED
  BY AllocSizePositive DEF FREE, ALLOCATED
<1>3. CASE AllocTo(s, t, s2, t2)
  <2>1. PICK b \in DOMAIN s :
          /\ t[b] = FREE /\ s[b] >= AllocSize
          /\ s2 = TrimSizes(s, b, AllocSize)
          /\ t2 = TrimTypes(s, [t EXCEPT ![b] = ALLOCATED], b, AllocSize)
          /\ writing' = writing \cup {b}
          /\ UNCHANGED <<sent, cancelled, aborted>>
    BY <1>3 DEF AllocTo
  <2> DEFINE a == [t EXCEPT ![b] = ALLOCATED]
  <2>2. a \in [DOMAIN s -> {FREE, ALLOCATED}]
    OBVIOUS
  <2>3. Allocated(s, a) = Allocated(s, t) \cup {b}
    BY DEF Allocated
  <2> HIDE DEF a
  <2>4. IsTrimmed(s, a, b, AllocSize, s2, t2)
    BY <2>1, <2>2, <1>2, TrimKeeps DEF a
  <2>5. b \notin Owned
    BY <2>1, <1>1, <1>2 DEF Allocated
  <2>6. Owned' = Owned \cup {b}
    BY <2>1 DEF Owned
  <2>7. Owned' = Allocated(s2, t2)
    BY <2>3, <2>4, <2>6, <1>1, TrimmedAllocated
  <2>8. \A c \in DOMAIN s : c # b => s2[c] = s[c]
    BY <2>4 DEF IsTrimmed
  <2>9. s2[b] >= AllocSize
    BY <2>1, <2>4 DEF IsTrimmed
  <2>10. \A c \in Owned : c \in DOMAIN s /\ c # b
    BY <2>5, <1>1 DEF Allocated
  <2>11. \A c \in writing' : s2[c] >= AllocSize
    BY <2>1, <2>8, <2>9, <2>10, <1>1 DEF Owned
  <2>12. writing' \cap sent' = {} /\ writing' \cap cancelled' = {} /\ sent' \cap cancelled' = {}
    BY <2>1, <2>5, <1>1 DEF Owned
  <2>13. Undisturbed(s, s2)
    BY <2>6, <2>8, <2>9, <2>10 DEF Undisturbed
  <2>14. QED
    BY <2>7, <2>11, <2>12, <2>13 DEF Owns
<1>4. CASE TrimTo(s, t, s2, t2)
  <2>1. PICK b \in writing, n \in SentSizes :
          /\ s2 = TrimSizes(s, b, n + BlockHeader + BlockFooter)
          /\ t2 = TrimTypes(s, t, b, n + BlockHeader + BlockFooter)
          /\ writing' = writing \ {b} /\ sent' = sent \cup {b}
          /\ UNCHANGED <<cancelled, aborted>>
    BY <1>4 DEF TrimTo
  <2>2. PICK k : k = n + BlockHeader + BlockFooter
    OBVIOUS
  <2>3. k \in Nat /\ k > 0
    BY <2>2, MessageWords
  <2>4. b \in DOMAIN s
    BY <1>1 DEF Owned, Allocated
  <2>5. IsTrimmed(s, t, b, k, s2, t2)
    BY <2>1, <2>2, <2>3, <2>4, TrimKeeps
  <2>6. Owned' = Owned
    BY <2>1 DEF Owned
  <2>7. Owned' = Allocated(s2, t2)
    BY <2>5, <2>6, <1>1, TrimmedAllocated
  <2>8. \A c \in DOMAIN s : c # b => s2[c] = s[c]
    BY <2>5 DEF IsTrimmed
  <2>9. s2[b] = s[b] \/ s2[b] < s[b]
    BY <2>5 DEF IsTrimmed
  <2>10. \A c \in Owned : c \in DOMAIN s
    BY <1>1 DEF Allocated
  <2>11. \A c \in writing' : s2[c] >= AllocSize
    BY <2>1, <2>8, <2>10, <1>1 DEF Owned
  <2>12. writing' \cap sent' = {} /\ writing' \cap cancelled' = {} /\ sent' \cap cancelled' = {}
    BY <2>1, <1>1
  <2>13. Undisturbed(s, s2)
    BY <2>1, <2>6, <2>8, <2>9, <2>10 DEF Undisturbed
  <2>14. QED
    BY <2>7, <2>11, <2>12, <2>13 DEF Owns
<1>5. CASE CancelTo(s, t, s2, t2)
  <2>1. PICK b \in writing :
          /\ s2 = s /\ t2 = t
          /\ writing' = writing \ {b} /\ cancelled' = cancelled \cup {b}
          /\ UNCHANGED <<sent, aborted>>
    BY <1>5 DEF CancelTo
  <2>2. Owned' = Owned
    BY <2>1 DEF Owned
  <2>3. writing' \cap sent' = {} /\ writing' \cap cancelled' = {} /\ sent' \cap cancelled' = {}
    BY <2>1, <1>1
  <2>4. Undisturbed(s, s2)
    BY <2>1, <2>2 DEF Undisturbed
  <2>5. QED
    BY <2>1, <2>2, <2>3, <2>4, <1>1 DEF Owns
<1>6. CASE FreeTo(s, t, s2, t2)
  <2>1. PICK b \in sent :
          /\ FreedTo(s, t, b, s2, t2, aborted')
          /\ sent' = sent \ {b} /\ UNCHANGED <<writing, cancelled>>
    BY <1>6 DEF FreeTo
  <2>2. b \in DOMAIN s
    BY <1>1 DEF Owned, Allocated
  <2> DEFINE a == [t EXCEPT ![b] = FREE]
  <2>3. Allocated(s, a) = Allocated(s, t) \ {b}
    BY <1>2 DEF Allocated
  <2> HIDE DEF a
  <2>4. Kept(s, a, s2, t2)
    BY <2>1, <2>2, FreeKeeps DEF a
  <2>5. Owned' = Owned \ {b}
    BY <2>1, <1>1 DEF Owned
  <2>6. Owned' = Allocated(s2, t2)
    BY <2>3, <2>4, <2>5, <1>1, KeptAllocated
  <2>7. \A c \in Owned' : s2[c] = s[c]
    <3>1. Owned' = Allocated(s, a)
      BY <2>3, <2>5, <1>1
    <3>2. QED
      BY <3>1, <2>4 DEF Kept, Allocated
  <2>8. \A c \in writing' : s2[c] >= AllocSize
    BY <2>1, <2>7, <1>1 DEF Owned
  <2>9. writing' \cap sent' = {} /\ writing' \cap cancelled' = {} /\ sent' \cap cancelled' = {}
    BY <2>1, <1>1
  <2>10. Undisturbed(s, s2)
    BY <2>5, <2>7 DEF Undisturbed
  <2>11. QED
    BY <2>6, <2>8, <2>9, <2>10 DEF Owns
<1>7. QED
  BY <1>3, <1>4, <1>5, <1>6 DEF Effect


-----------------------------------------------------------------------------
(* The invariants hold of every tiling *)

LEMMA GoodType ==
  ASSUME NEW s, NEW t, NEW l, Good(mem, s, t, l), Owns(s, t), aborted \in BOOLEAN
  PROVE  TypeOK
<1>1. Represents(mem, s, t, l) /\ Tiling(s) /\ t \in [DOMAIN s -> {FREE, ALLOCATED}]
  BY DEF Good
<1>2. Chained(mem, l) /\ DOMAIN mem.hdr = DOMAIN s
  BY <1>1 DEF Represents
<1>3. PICK n \in Nat : n = Len(l)
  BY <1>2 DEF Chained
<1>4. \A i \in 1..n : l[i] \in DOMAIN s
  BY <1>2, <1>3 DEF Chained
<1>5. ASSUME NEW i PROVE Entry(l, i) \in DOMAIN s \cup {NULL}
  BY <1>3, <1>4 DEF Entry
<1>6. mem.head \in DOMAIN s \cup {NULL}
  BY <1>2, <1>5 DEF Chained
<1>7. ASSUME NEW b \in DOMAIN s
      PROVE  /\ mem.hdr[b].size \in 1..TotalSize
             /\ mem.hdr[b].type \in {FREE, ALLOCATED}
             /\ mem.hdr[b].next \in DOMAIN s \cup {NULL}
  <2>1. mem.hdr[b].size = s[b] /\ mem.hdr[b].type = t[b]
    BY <1>1, Fields
  <2>2. s[b] \in 1..TotalSize
    <3>1. PICK x : x = s[b] /\ x \in Nat /\ x > 0 /\ b \in Nat /\ b >= Start /\ b + x <= End
      BY <1>1, Apart, Within
    <3>2. TotalSize \in Nat /\ Start \in Nat /\ End = Start + TotalSize
      BY SizesAssumption DEF Start, End
    <3>3. QED
      BY <3>1, <3>2
  <2>3. mem.hdr[b].next \in DOMAIN s \cup {NULL}
    <3>1. CASE InList(l, b)
      <4>1. PICK i \in 1..n : l[i] = b
        BY <3>1, <1>3 DEF InList
      <4>2. mem.hdr[b].next = Entry(l, i + 1)
        BY <4>1, <1>2, <1>3 DEF Chained
      <4>3. QED
        BY <4>2, <1>5
    <3>2. CASE ~InList(l, b)
      BY <3>2, <1>2 DEF Chained
    <3>3. QED
      BY <3>1, <3>2
  <2>4. QED
    BY <2>1, <2>2, <2>3, <1>1
<1>8. Owned \subseteq DOMAIN s
  BY DEF Owns, Allocated
<1>9. DOMAIN s \subseteq Start..(End - 1)
  BY <1>1 DEF Tiling, IsBlocks
<1>10. QED
  BY <1>2, <1>6, <1>7, <1>8, <1>9 DEF TypeOK, Blocks

LEMMA GoodTiles ==
  ASSUME NEW s, NEW t, NEW l, Good(mem, s, t, l)
  PROVE  Tiled
<1>1. Represents(mem, s, t, l) /\ Tiling(s)
  BY DEF Good
<1>2. /\ DOMAIN mem.hdr = DOMAIN s
      /\ DOMAIN mem.ftr = {b + s[b] : b \in DOMAIN s}
      /\ \A b \in DOMAIN s : mem.ftr[b + s[b]] = [size |-> s[b], type |-> t[b]]
  BY <1>1 DEF Represents
<1>3. \A b \in DOMAIN s : mem.hdr[b].size = s[b] /\ mem.hdr[b].type = t[b]
  BY <1>1, Fields
<1>4. \A b \in DOMAIN s : BlockEnd(b) = b + s[b]
  BY <1>3 DEF BlockEnd
<1>5. /\ \A b \in DOMAIN s : BlockEnd(b) = End \/ BlockEnd(b) \in DOMAIN s
      /\ \A b, c \in DOMAIN s : b < c => BlockEnd(b) <= c
      /\ Start \in DOMAIN s
  BY <1>1, <1>4 DEF Tiling
<1>6. DOMAIN mem.ftr = {BlockEnd(b) : b \in DOMAIN s}
  BY <1>2, <1>4
<1>7. \A b \in DOMAIN s :
        mem.ftr[BlockEnd(b)] = [size |-> mem.hdr[b].size, type |-> mem.hdr[b].type]
  BY <1>2, <1>3, <1>4
<1>8. QED
  BY <1>2, <1>5, <1>6, <1>7 DEF Tiled, Blocks

LEMMA GoodList ==
  ASSUME NEW s, NEW t, NEW l, Good(mem, s, t, l), Owns(s, t)
  PROVE  FreeListExact
<1>1. /\ Represents(mem, s, t, l) /\ Tiling(s) /\ t \in [DOMAIN s -> {FREE, ALLOCATED}]
      /\ \A c \in DOMAIN s : t[c] = FREE <=> InList(l, c)
  BY DEF Good
<1>2. Chained(mem, l) /\ DOMAIN mem.hdr = DOMAIN s /\ DOMAIN mem.hdr \subseteq Nat
  BY <1>1, Apart DEF Represents
<1>3. FreeList(mem) = l
  BY <1>2, Listing
<1>4. PICK n \in Nat : n = Len(l)
  BY <1>2 DEF Chained
<1>5. /\ l \in [1..n -> DOMAIN s] /\ \A i, j \in 1..n : l[i] = l[j] => i = j
      /\ DOMAIN l = 1..n
  BY <1>2, <1>4 DEF Chained
<1>6. PICK T : T = {l[i] : i \in 1..n}
  OBVIOUS
<1>7. FreeBlocks(mem) = T
  BY <1>3, <1>5, <1>6 DEF FreeBlocks
<1>8. Cardinality(T) = n
  <2>1. l \in [1..n -> T]
    BY <1>5, <1>6
  <2>2. l \in Bijection(1..n, T)
    BY <2>1, <1>5, <1>6 DEF Bijection, Injection, Surjection, IsInjective
  <2>3. ExistsBijection(1..n, T)
    BY <2>2 DEF ExistsBijection
  <2>4. IsFiniteSet(1..n) /\ Cardinality(1..n) = n
    <3>1. 1 \in Int /\ n \in Int
      OBVIOUS
    <3>2. IsFiniteSet(1..n) /\ Cardinality(1..n) = IF 1 > n THEN 0 ELSE n - 1 + 1
      BY <3>1, FS_Interval
    <3>3. (IF 1 > n THEN 0 ELSE n - 1 + 1) = n
      OBVIOUS
    <3>4. QED
      BY <3>2, <3>3
  <2>5. QED
    BY <2>3, <2>4, FS_Bijection
<1>9. \A b \in DOMAIN s : mem.hdr[b].type = t[b]
  BY <1>1, Fields
<1>10. \A b : b \in T <=> b \in DOMAIN s /\ InList(l, b)
  BY <1>4, <1>5, <1>6 DEF InList
<1>11. T = {b \in DOMAIN s : mem.hdr[b].type = FREE}
  BY <1>1, <1>9, <1>10
<1>12. Owned = {b \in DOMAIN s : mem.hdr[b].type = ALLOCATED}
  BY <1>9 DEF Owns, Allocated
<1>13. QED
  BY <1>2, <1>3, <1>4, <1>7, <1>8, <1>11, <1>12 DEF FreeListExact, Blocks

-----------------------------------------------------------------------------
(* The theorems *)

LEMMA InvInit == Init => IInv
<1> SUFFICES ASSUME Init PROVE IInv
  OBVIOUS
<1> DEFINE s == [c \in {Start} |-> TotalSize]
           t == [c \in {Start} |-> FREE]
<1>1. PICK l : Good(mem, s, t, l)
  BY Created
<1>2. Allocated(s, t) = {}
  BY DEF Allocated, FREE, ALLOCATED
<1> HIDE DEF s, t
<1>3. Owns(s, t)
  BY <1>2 DEF Init, Owns, Owned
<1>4. aborted \in BOOLEAN
  BY DEF Init
<1>5. QED
  BY <1>1, <1>3, <1>4 DEF IInv

LEMMA EffectAborted ==
  ASSUME NEW s, NEW t, NEW s2, NEW t2, aborted \in BOOLEAN, Effect(s, t, s2, t2)
  PROVE  aborted' \in BOOLEAN
BY DEF Effect, AllocTo, TrimTo, CancelTo, FreeTo

LEMMA InvNext == IInv /\ [Next]_vars => IInv'
<1> SUFFICES ASSUME IInv, [Next]_vars PROVE IInv'
  OBVIOUS
<1>1. PICK s, t, l : Good(mem, s, t, l) /\ Owns(s, t)
  BY DEF IInv
<1>2. aborted \in BOOLEAN
  BY DEF IInv
<1>3. CASE Next
  <2>1. PICK s2, t2, j : Good(mem', s2, t2, j) /\ Effect(s, t, s2, t2)
    BY <1>1, <1>3, Effects
  <2>2. Tiling(s) /\ t \in [DOMAIN s -> {FREE, ALLOCATED}] /\ Tiling(s2)
    BY <1>1, <2>1 DEF Good
  <2>3. Owns(s2, t2)'
    BY <1>1, <2>1, <2>2, OwnersKept
  <2>4. aborted' \in BOOLEAN
    BY <1>2, <2>1, EffectAborted
  <2>5. QED
    BY <2>1, <2>3, <2>4 DEF IInv
<1>4. CASE UNCHANGED vars
  BY <1>1, <1>2, <1>4 DEF vars, IInv, Owns, Owned
<1>5. QED
  BY <1>3, <1>4

\* Whatever is allocated, trimmed, cancelled and freed, the memory stays a
\* tiling with its free list, and the allocated blocks are those in use.
THEOREM Invariance == Spec => []IInv
BY InvInit, InvNext, PTL DEF Spec

\* The tags and the links of the blocks are in range (allocator.c follows them
\* without a check).
THEOREM Typing == Spec => []TypeOK
<1>1. IInv => TypeOK
  BY GoodType DEF IInv
<1>2. QED
  BY <1>1, Invariance, PTL

\* The blocks tile the memory and each has the same tag at both ends, so that
\* merging finds the neighbours of a block.
THEOREM Tiles == Spec => []Tiled
<1>1. IInv => Tiled
  BY GoodTiles DEF IInv
<1>2. QED
  BY <1>1, Invariance, PTL

\* The free list holds the free blocks, each once, and the allocated ones are
\* exactly those somebody was given: none is lost and none given out twice.
THEOREM ExactList == Spec => []FreeListExact
<1>1. IInv => FreeListExact
  BY GoodList DEF IInv
<1>2. QED
  BY <1>1, Invariance, PTL

\* The block of a message that is sent is one of the largest message's size
\* until then, so what trimming leaves is enough for the message.
LEMMA TrimLeavesRoom ==
  ASSUME NEW s, NEW t, NEW l, Good(mem, s, t, l), Owns(s, t),
         NEW b \in writing, NEW n \in SentSizes, Trim(b, n)
  PROVE  mem'.hdr[b].size >= n + BlockHeader + BlockFooter
<1>1. PICK k : k = n + BlockHeader + BlockFooter
  OBVIOUS
<1>2. k \in Nat /\ k > 0 /\ k <= AllocSize
  BY <1>1, MessageWords
<1>3. b \in DOMAIN s /\ t[b] = ALLOCATED /\ s[b] >= AllocSize
  BY DEF Owns, Owned, Allocated
<1>4. PICK j : Good(TrimBlock(mem, b, k), TrimSizes(s, b, k), TrimTypes(s, t, b, k), j)
  BY <1>2, <1>3, Trimmed
<1>5. mem' = TrimBlock(mem, b, k)
  BY <1>1 DEF Trim
<1>6. Tiling(s) /\ t \in [DOMAIN s -> {FREE, ALLOCATED}]
  BY DEF Good
<1>7. IsTrimmed(s, t, b, k, TrimSizes(s, b, k), TrimTypes(s, t, b, k))
  BY <1>2, <1>3, <1>6, TrimKeeps
<1>8. s[b] >= k
  <2>1. s[b] \in Nat /\ AllocSize \in Nat
    BY <1>3, <1>6, Apart, AllocSizePositive
  <2>2. QED
    BY <2>1, <1>2, <1>3
<1>9. b \in DOMAIN TrimSizes(s, b, k) /\ TrimSizes(s, b, k)[b] >= k
  BY <1>3, <1>7, <1>8 DEF IsTrimmed
<1>10. Represents(mem', TrimSizes(s, b, k), TrimTypes(s, t, b, k), j)
  BY <1>4, <1>5 DEF Good
<1>11. mem'.hdr[b].size = TrimSizes(s, b, k)[b]
  BY <1>9, <1>10, Fields
<1>12. QED
  BY <1>1, <1>9, <1>11

\* No operation moves, grows or retags a block that is in use, and the block
\* of a message that is sent keeps room for the message and its tags.
THEOREM Undisturbing == Spec => OwnersUndisturbed
<1> DEFINE A == /\ \A b \in Owned \cap Owned' :
                     /\ mem'.hdr[b].type = mem.hdr[b].type
                     /\ \/ mem'.hdr[b].size = mem.hdr[b].size
                        \/ /\ b \in writing /\ b \in sent'
                           /\ mem'.hdr[b].size < mem.hdr[b].size
                /\ \A b \in writing : \A n \in SentSizes :
                     Trim(b, n) => mem'.hdr[b].size >= n + BlockHeader + BlockFooter
                /\ \A b \in Owned' \ Owned : /\ mem'.hdr[b].type = ALLOCATED
                                             /\ mem'.hdr[b].size >= AllocSize
<1>1. ASSUME IInv, [Next]_vars PROVE [A]_vars
  <2>1. PICK s, t, l : Good(mem, s, t, l) /\ Owns(s, t)
    BY <1>1 DEF IInv
  <2>2. CASE Next
    <3>1. PICK s2, t2, j : Good(mem', s2, t2, j) /\ Effect(s, t, s2, t2)
      BY <2>1, <2>2, Effects
    <3>2. Tiling(s) /\ t \in [DOMAIN s -> {FREE, ALLOCATED}] /\ Tiling(s2)
          /\ Represents(mem, s, t, l) /\ Represents(mem', s2, t2, j)
      BY <2>1, <3>1 DEF Good
    <3>3. Owns(s2, t2)' /\ Undisturbed(s, s2)
      BY <2>1, <3>1, <3>2, OwnersKept
    <3>4. \A b \in Owned : /\ b \in DOMAIN s /\ mem.hdr[b].size = s[b]
                           /\ mem.hdr[b].type = ALLOCATED
      <4>1. \A b \in Owned : b \in DOMAIN s /\ t[b] = ALLOCATED
        BY <2>1 DEF Owns, Allocated
      <4>2. QED
        BY <4>1, <3>2, Fields
    <3>5. \A b \in Owned' : /\ b \in DOMAIN s2 /\ mem'.hdr[b].size = s2[b]
                            /\ mem'.hdr[b].type = ALLOCATED
      <4>1. \A b \in Owned' : b \in DOMAIN s2 /\ t2[b] = ALLOCATED
        BY <3>3 DEF Owns, Allocated
      <4>2. QED
        BY <4>1, <3>2, Fields
    <3>6. ASSUME NEW b \in writing, NEW n \in SentSizes, Trim(b, n)
          PROVE  mem'.hdr[b].size >= n + BlockHeader + BlockFooter
      BY <2>1, <3>6, TrimLeavesRoom
    <3>7. A
      BY <3>3, <3>4, <3>5, <3>6 DEF Undisturbed
    <3>8. QED
      BY <3>7
  <2>3. CASE UNCHANGED vars
    BY <2>3
  <2>4. QED
    BY <1>1, <2>2, <2>3
<1>2. [][A]_vars => OwnersUndisturbed
  BY PTL DEF OwnersUndisturbed
<1> HIDE DEF A
<1>3. QED
  BY <1>1, <1>2, Invariance, PTL DEF Spec


-----------------------------------------------------------------------------
(* No block is too small: this needs a memory that is not *)

Usable(s) == \A b \in DOMAIN s : s[b] >= BlockHeader + BlockFooter + 1

LEMMA UsableKept ==
  ASSUME NEW s, NEW t, Tiling(s), t \in [DOMAIN s -> {FREE, ALLOCATED}], Owns(s, t),
         NEW s2, NEW t2, Tiling(s2), Effect(s, t, s2, t2), Usable(s)
  PROVE  Usable(s2)
<1>1. PICK least : least = BlockHeader + BlockFooter + 1
  OBVIOUS
<1>2. least \in Nat /\ AllocSize >= least /\ MinBlock >= least /\ MinBlock \in Nat
  BY <1>1, SizesAssumption DEF AllocSize, MinBlock
<1>3. \A b \in DOMAIN s : s[b] >= least
  BY <1>1 DEF Usable
<1>4. ASSUME NEW a, NEW b, NEW k, k >= least, IsTrimmed(s, a, b, k, s2, t2) PROVE Usable(s2)
  <2>1. ASSUME NEW c \in DOMAIN s2 PROVE s2[c] >= least
    <3>1. CASE c \in DOMAIN s
      <4>1. c # b => s2[c] = s[c]
        BY <3>1, <1>4 DEF IsTrimmed
      <4>2. c = b => s2[c] = s[c] \/ s2[c] = k
        BY <1>4 DEF IsTrimmed
      <4>3. QED
        BY <4>1, <4>2, <3>1, <1>3, <1>4
    <3>2. CASE c \notin DOMAIN s
      <4>1. s2[c] >= MinBlock /\ s2[c] \in Nat
        BY <3>2, <1>4, Apart DEF IsTrimmed
      <4>2. QED
        BY <4>1, <1>2
    <3>3. QED
      BY <3>1, <3>2
  <2>2. QED
    BY <2>1, <1>1 DEF Usable
<1>5. CASE AllocTo(s, t, s2, t2)
  <2>1. PICK b \in DOMAIN s :
          /\ s2 = TrimSizes(s, b, AllocSize)
          /\ t2 = TrimTypes(s, [t EXCEPT ![b] = ALLOCATED], b, AllocSize)
    BY <1>5 DEF AllocTo
  <2> DEFINE a == [t EXCEPT ![b] = ALLOCATED]
  <2>2. a \in [DOMAIN s -> {FREE, ALLOCATED}]
    OBVIOUS
  <2> HIDE DEF a
  <2>3. IsTrimmed(s, a, b, AllocSize, s2, t2)
    BY <2>1, <2>2, AllocSizePositive, TrimKeeps DEF a
  <2>4. QED
    BY <2>3, <1>2, <1>4
<1>6. CASE TrimTo(s, t, s2, t2)
  <2>1. PICK b \in writing, n \in SentSizes :
          /\ s2 = TrimSizes(s, b, n + BlockHeader + BlockFooter)
          /\ t2 = TrimTypes(s, t, b, n + BlockHeader + BlockFooter)
    BY <1>6 DEF TrimTo
  <2>2. PICK k : k = n + BlockHeader + BlockFooter
    OBVIOUS
  <2>3. k \in Nat /\ k > 0 /\ k >= least
    BY <2>2, <1>1, MessageWords
  <2>4. b \in DOMAIN s
    BY DEF Owns, Owned, Allocated
  <2>5. IsTrimmed(s, t, b, k, s2, t2)
    BY <2>1, <2>2, <2>3, <2>4, TrimKeeps
  <2>6. QED
    BY <2>3, <2>5, <1>4
<1>7. CASE CancelTo(s, t, s2, t2)
  BY <1>7 DEF CancelTo
<1>8. CASE FreeTo(s, t, s2, t2)
  <2>1. PICK b \in sent : FreedTo(s, t, b, s2, t2, aborted')
    BY <1>8 DEF FreeTo
  <2>2. b \in DOMAIN s
    BY DEF Owns, Owned, Allocated
  <2>3. Kept(s, [t EXCEPT ![b] = FREE], s2, t2)
    BY <2>1, <2>2, FreeKeeps
  <2>4. ASSUME NEW c \in DOMAIN s2 PROVE s2[c] >= least
    <3>1. c \in DOMAIN s /\ s2[c] >= s[c]
      BY <2>3 DEF Kept
    <3>2. s[c] >= least /\ s[c] \in Nat /\ s2[c] \in Nat
      BY <3>1, <1>3, Apart
    <3>3. QED
      BY <3>1, <3>2, <1>2
  <2>5. QED
    BY <2>4, <1>1 DEF Usable
<1>9. QED
  BY <1>5, <1>6, <1>7, <1>8 DEF Effect

UsableInv == \E s, t, l : Good(mem, s, t, l) /\ Owns(s, t) /\ Usable(s)

\* In a memory with room for the smallest message no block is ever too small
\* for its tags and that message.
THEOREM AlwaysUsable ==
  ASSUME TotalSize >= BlockHeader + BlockFooter + 1
  PROVE  Spec => []BlocksUsable
<1>1. Init => UsableInv
  <2> SUFFICES ASSUME Init PROVE UsableInv
    OBVIOUS
  <2> DEFINE s == [c \in {Start} |-> TotalSize]
             t == [c \in {Start} |-> FREE]
  <2>1. PICK l : Good(mem, s, t, l)
    BY Created
  <2>2. Allocated(s, t) = {}
    BY DEF Allocated, FREE, ALLOCATED
  <2>3. Usable(s)
    BY DEF Usable
  <2> HIDE DEF s, t
  <2>4. Owns(s, t)
    BY <2>2 DEF Init, Owns, Owned
  <2>5. QED
    BY <2>1, <2>3, <2>4 DEF UsableInv
<1>2. UsableInv /\ [Next]_vars => UsableInv'
  <2> SUFFICES ASSUME UsableInv, [Next]_vars PROVE UsableInv'
    OBVIOUS
  <2>1. PICK s, t, l : Good(mem, s, t, l) /\ Owns(s, t) /\ Usable(s)
    BY DEF UsableInv
  <2>2. CASE Next
    <3>1. PICK s2, t2, j : Good(mem', s2, t2, j) /\ Effect(s, t, s2, t2)
      BY <2>1, <2>2, Effects
    <3>2. Tiling(s) /\ t \in [DOMAIN s -> {FREE, ALLOCATED}] /\ Tiling(s2)
      BY <2>1, <3>1 DEF Good
    <3>3. Owns(s2, t2)'
      BY <2>1, <3>1, <3>2, OwnersKept
    <3>4. Usable(s2)
      BY <2>1, <3>1, <3>2, UsableKept
    <3>5. QED
      BY <3>1, <3>3, <3>4 DEF UsableInv
  <2>3. CASE UNCHANGED vars
    BY <2>1, <2>3 DEF vars, UsableInv, Owns, Owned
  <2>4. QED
    BY <2>2, <2>3
<1>3. UsableInv => BlocksUsable
  <2> SUFFICES ASSUME UsableInv PROVE BlocksUsable
    OBVIOUS
  <2>1. PICK s, t, l : Good(mem, s, t, l) /\ Usable(s)
    BY DEF UsableInv
  <2>2. Represents(mem, s, t, l)
    BY <2>1 DEF Good
  <2>3. DOMAIN mem.hdr = DOMAIN s
    BY <2>2 DEF Represents
  <2>4. \A b \in DOMAIN s : mem.hdr[b].size = s[b]
    BY <2>2, Fields
  <2>5. QED
    BY <2>1, <2>3, <2>4 DEF BlocksUsable, Blocks, Usable
<1>4. QED
  BY <1>1, <1>2, <1>3, PTL DEF Spec


-----------------------------------------------------------------------------
(* When nothing is allocated, the largest message can be *)

\* Once block w is freed and merged with the free blocks behind it, the largest
\* message fits, unless an allocated block is in the way.  (What trim_block
\* cuts off stays behind the block, and a freed one is merged.)
Room(s, t, w) ==
  LET e == w + s[w]
      f == e + s[e]
  IN \/ s[w] >= AllocSize
     \/ /\ e \in DOMAIN s
        /\ \/ t[e] = ALLOCATED
           \/ s[w] + s[e] >= AllocSize
           \/ f \in DOMAIN s /\ t[f] = ALLOCATED

Roomy(s, t) == \A w \in DOMAIN s : t[w] = ALLOCATED => Room(s, t, w)

Spacious(s, t) ==
  Allocated(s, t) = {} => \E c \in DOMAIN s : t[c] = FREE /\ s[c] >= AllocSize

\* Joining two free blocks takes no room from the others, ...
LEMMA RoomBesides ==
  ASSUME NEW s, NEW t, Tiling(s), t \in [DOMAIN s -> {FREE, ALLOCATED}],
         NEW p \in DOMAIN s, t[p] = FREE, p + s[p] \in DOMAIN s, t[p + s[p]] = FREE,
         NEW w \in DOMAIN s, w # p, w # p + s[p], Room(s, t, w)
  PROVE  Room(Joined(s, p), JoinedTypes(t, p + s[p]), w)
<1> DEFINE r == Joined(s, p)
           u == JoinedTypes(t, p + s[p])
<1> SUFFICES Room(r, u, w)
  OBVIOUS
<1>1. PICK q : q = p + s[p]
  OBVIOUS
<1>2. PICK A : A = AllocSize
  OBVIOUS
<1>3. DOMAIN r = DOMAIN s \ {q} /\ \A c \in DOMAIN s : c # p /\ c # q => r[c] = s[c]
  <2>1. IsJoined(r, s, p)
    BY JoinedParts
  <2> HIDE DEF r
  <2>2. QED
    BY <2>1, <1>1 DEF IsJoined
<1>4. Kept(s, t, r, u)
  BY JoinKeeps
<1>5. \A c \in DOMAIN s \ {q} : u[c] = t[c]
  BY <1>1 DEF JoinedTypes
<1> HIDE DEF r, u
<1>6. FREE # ALLOCATED /\ A \in Nat
  BY AllocSizePositive, <1>2 DEF FREE, ALLOCATED
<1>7. PICK e : e = w + s[w]
  OBVIOUS
<1>8. PICK f : f = e + s[e]
  OBVIOUS
<1>9. r[w] = s[w] /\ w \in DOMAIN r
  BY <1>1, <1>3
<1>10. e # q
  BY <1>1, <1>7, Apart
<1>11. CASE s[w] >= A
  BY <1>2, <1>9, <1>11 DEF Room
<1>12. CASE e \in DOMAIN s
  <2>1. e \in DOMAIN r /\ u[e] = t[e]
    BY <1>3, <1>5, <1>10, <1>12
  <2>2. CASE t[e] = ALLOCATED
    BY <2>1, <2>2, <1>7, <1>9 DEF Room
  <2>3. CASE s[w] + s[e] >= A
    <3>1. r[e] >= s[e]
      BY <2>1, <1>4 DEF Kept
    <3>2. s[w] \in Nat /\ s[e] \in Nat
      BY <1>12, Apart
    <3>3. r[e] \in Nat
      <4>1. Tiling(r)
        BY JoinedTiles DEF r
      <4>2. QED
        BY <4>1, <2>1, Apart
    <3>4. PICK x, y, z : x = s[w] /\ y = s[e] /\ z = r[e]
      OBVIOUS
    <3>5. x + z >= A
      BY <2>3, <3>1, <3>2, <3>3, <3>4, <1>6
    <3>6. r[w] + r[e] >= A
      BY <3>4, <3>5, <1>9
    <3>7. QED
      BY <3>6, <2>1, <1>2, <1>7, <1>9 DEF Room
  <2>4. CASE f \in DOMAIN s /\ t[f] = ALLOCATED
    <3>1. e # p
      BY <2>4, <1>1, <1>6, <1>8
    <3>2. r[e] = s[e]
      BY <3>1, <1>3, <1>10, <1>12
    <3>3. f # q
      BY <2>4, <1>1, <1>6
    <3>4. f \in DOMAIN r /\ u[f] = ALLOCATED
      BY <2>4, <3>3, <1>3, <1>5
    <3>5. QED
      BY <3>2, <3>4, <2>1, <1>7, <1>8, <1>9 DEF Room
  <2>5. QED
    BY <2>2, <2>3, <2>4, <1>2, <1>7, <1>8, <1>11 DEF Room
<1>13. s[w] >= A \/ e \in DOMAIN s
  BY <1>2, <1>7 DEF Room
<1>14. QED
  BY <1>11, <1>12, <1>13

\* ... and the joined block has the room of its second part.
LEMMA RoomJoined ==
  ASSUME NEW s, NEW t, Tiling(s), t \in [DOMAIN s -> {FREE, ALLOCATED}],
         NEW p \in DOMAIN s, t[p] = FREE,
         NEW q \in DOMAIN s, q = p + s[p], t[q] = FREE, Room(s, t, q)
  PROVE  Room(Joined(s, p), JoinedTypes(t, q), p)
<1> DEFINE r == Joined(s, p)
           u == JoinedTypes(t, q)
<1> SUFFICES Room(r, u, p)
  OBVIOUS
<1>1. PICK A : A = AllocSize
  OBVIOUS
<1>2. PICK x, y, n : x = s[p] /\ y = s[q] /\ n = q + y
  OBVIOUS
<1>3. /\ DOMAIN r = DOMAIN s \ {q} /\ p < q /\ q < n /\ n \in Nat
      /\ \A c \in DOMAIN s : c # p /\ c # q => r[c] = s[c]
      /\ r[p] = x + y /\ p + (x + y) = n
  <2>1. IsJoined(r, s, p)
    BY JoinedParts
  <2> HIDE DEF r
  <2>2. QED
    BY <2>1, <1>2 DEF IsJoined
<1>4. \A c \in DOMAIN s \ {q} : u[c] = t[c]
  BY DEF JoinedTypes
<1>5. x \in Nat /\ y \in Nat /\ p \in Nat /\ q \in Nat /\ A \in Nat /\ FREE # ALLOCATED
  BY <1>1, <1>2, AllocSizePositive, Apart DEF FREE, ALLOCATED
<1> HIDE DEF r, u
<1>6. p + r[p] = n
  BY <1>3
<1>7. CASE y >= A
  <2>1. r[p] >= A
    BY <1>3, <1>5, <1>7
  <2>2. QED
    BY <2>1, <1>1 DEF Room
<1>8. CASE n \in DOMAIN s
  <2>1. n # p /\ n # q
    BY <1>3, <1>5
  <2>2. n \in DOMAIN r /\ r[n] = s[n] /\ u[n] = t[n]
    BY <2>1, <1>3, <1>4, <1>8
  <2>3. CASE t[n] = ALLOCATED
    BY <2>2, <2>3, <1>6 DEF Room
  <2>4. CASE y + s[n] >= A
    <3>1. PICK z : z = s[n] /\ z \in Nat
      BY <1>8, Apart
    <3>2. (x + y) + z >= A
      BY <3>1, <2>4, <1>5
    <3>3. r[p] + r[n] >= A
      BY <3>1, <3>2, <2>2, <1>3
    <3>4. QED
      BY <3>3, <2>2, <1>1, <1>6 DEF Room
  <2>5. CASE n + s[n] \in DOMAIN s /\ t[n + s[n]] = ALLOCATED
    <3>1. n + s[n] # q
      BY <2>5, <1>5
    <3>2. n + r[n] \in DOMAIN r /\ u[n + r[n]] = ALLOCATED
      BY <3>1, <2>2, <2>5, <1>3, <1>4
    <3>3. QED
      BY <3>2, <2>2, <1>6 DEF Room
  <2>6. QED
    BY <2>3, <2>4, <2>5, <1>1, <1>2, <1>7 DEF Room
<1>9. y >= A \/ n \in DOMAIN s
  BY <1>1, <1>2 DEF Room
<1>10. QED
  BY <1>7, <1>8, <1>9


\* Trimming leaves the others their room and keeps that of its block.
LEMMA RoomTrimmed ==
  ASSUME NEW s, NEW t, Tiling(s), t \in [DOMAIN s -> {FREE, ALLOCATED}],
         NEW b \in DOMAIN s, t[b] = ALLOCATED, s[b] >= AllocSize,
         \A w \in DOMAIN s : t[w] = ALLOCATED /\ w # b => Room(s, t, w),
         NEW k \in Nat, k > 0
  PROVE  Roomy(TrimSizes(s, b, k), TrimTypes(s, t, b, k))
<1> DEFINE r == TrimSizes(s, b, k)
           u == TrimTypes(s, t, b, k)
<1>1. PICK A : A = AllocSize
  OBVIOUS
<1>2. A \in Nat /\ FREE # ALLOCATED
  BY <1>1, AllocSizePositive DEF FREE, ALLOCATED
<1>3. IsTrimmed(s, t, b, k, r, u)
  BY TrimKeeps
<1>4. Room(r, u, b)
  <2>1. CASE s[b] - k < MinBlock
    <3>1. r = s /\ u = t
      BY <2>1 DEF TrimSizes, TrimTypes
    <3> HIDE DEF r, u
    <3>2. QED
      BY <3>1 DEF Room
  <2>2. CASE ~(s[b] - k < MinBlock)
    <3>1. PICK x : x = s[b] /\ x \in Nat
      BY Apart
    <3>2. PICK y : y = MinBlock /\ y \in Nat /\ y > 0
      BY SizesAssumption DEF MinBlock
    <3>3. k < s[b] /\ 0 < k
      BY <3>1, <3>2, <2>2
    <3>4. r = Cut(s, b, k)
      BY <2>2 DEF TrimSizes
    <3>5. IsCut(r, s, b, k)
      BY <3>3, <3>4, CutParts
    <3> HIDE DEF r, u
    <3>6. PICK z : z = b + k
      OBVIOUS
    <3>7. r[b] = k /\ r[z] = x - k /\ z \in DOMAIN r
      BY <3>1, <3>5, <3>6 DEF IsCut
    <3>8. k + (x - k) = x
      BY <3>1
    <3>9. r[b] + r[z] >= A
      BY <3>1, <3>7, <3>8, <1>1
    <3>10. QED
      BY <3>6, <3>7, <3>9, <1>1 DEF Room
  <2>3. QED
    BY <2>1, <2>2
<1> HIDE DEF r, u
<1>5. ASSUME NEW w \in DOMAIN r, u[w] = ALLOCATED, w # b PROVE Room(r, u, w)
  <2>1. w \in DOMAIN s
    BY <1>2, <1>3, <1>5 DEF IsTrimmed
  <2>2. t[w] = ALLOCATED /\ r[w] = s[w]
    BY <2>1, <1>3, <1>5 DEF IsTrimmed
  <2>3. Room(s, t, w)
    BY <2>1, <2>2, <1>5
  <2>4. PICK e : e = w + s[w]
    OBVIOUS
  <2>5. PICK f : f = e + s[e]
    OBVIOUS
  <2>6. \/ s[w] >= A
        \/ e \in DOMAIN s /\ t[e] = ALLOCATED
        \/ e \in DOMAIN s /\ t[e] # ALLOCATED /\ s[w] + s[e] >= A
        \/ e \in DOMAIN s /\ t[e] # ALLOCATED /\ f \in DOMAIN s /\ t[f] = ALLOCATED
    BY <2>3, <2>4, <2>5, <1>1 DEF Room
  <2>7. CASE s[w] >= A
    BY <2>2, <2>7, <1>1 DEF Room
  <2>8. CASE e \in DOMAIN s /\ t[e] = ALLOCATED
    <3>1. e \in DOMAIN r /\ u[e] = ALLOCATED
      BY <2>8, <1>3 DEF IsTrimmed
    <3>2. QED
      BY <3>1, <2>2, <2>4 DEF Room
  <2>9. CASE e \in DOMAIN s /\ t[e] # ALLOCATED /\ s[w] + s[e] >= A
    <3>1. e \in DOMAIN r /\ r[e] = s[e]
      BY <2>9, <1>3 DEF IsTrimmed
    <3>2. QED
      BY <3>1, <2>2, <2>4, <2>9, <1>1 DEF Room
  <2>10. CASE e \in DOMAIN s /\ t[e] # ALLOCATED /\ f \in DOMAIN s /\ t[f] = ALLOCATED
    <3>1. e \in DOMAIN r /\ r[e] = s[e] /\ f \in DOMAIN r /\ u[f] = ALLOCATED
      BY <2>10, <1>3 DEF IsTrimmed
    <3>2. QED
      BY <3>1, <2>2, <2>4, <2>5 DEF Room
  <2>11. QED
    BY <2>6, <2>7, <2>8, <2>9, <2>10
<1>6. Roomy(r, u)
  BY <1>4, <1>5 DEF Roomy
<1>7. QED
  BY <1>6 DEF r, u

\* While block x is being merged it counts neither as allocated nor, with what
\* is before it, as free.
Merging(s, t, x) ==
  /\ Room(s, t, x)
  /\ \A w \in DOMAIN s : t[w] = ALLOCATED => Room(s, t, w) \/ w + s[w] = x

LEMMA RoomPrev ==
  ASSUME NEW s, NEW t, Tiling(s), t \in [DOMAIN s -> {FREE, ALLOCATED}], Roomy(s, t),
         NEW b \in DOMAIN s, t[b] = ALLOCATED,
         NEW s2, NEW t2, NEW x, JoinPrev(s, [t EXCEPT ![b] = FREE], b, s2, t2, x)
  PROVE  Merging(s2, t2, x)
<1> DEFINE a == [t EXCEPT ![b] = FREE]
<1>1. /\ a \in [DOMAIN s -> {FREE, ALLOCATED}] /\ a[b] = FREE
      /\ \A c \in DOMAIN s : c # b => a[c] = t[c]
  OBVIOUS
<1>2. JoinPrev(s, a, b, s2, t2, x)
  OBVIOUS
<1> HIDE DEF a
<1>3. FREE # ALLOCATED
  BY DEF FREE, ALLOCATED
<1>4. \A c \in DOMAIN s : /\ c \in Nat /\ c < c + s[c] /\ c + s[c] \in Nat
                          /\ c + s[c] \in DOMAIN s =>
                               c < (c + s[c]) + s[c + s[c]]
  <2>1. ASSUME NEW c \in DOMAIN s PROVE c \in Nat /\ c < c + s[c] /\ c + s[c] \in Nat
    BY Apart
  <2>2. ASSUME NEW c \in DOMAIN s, c + s[c] \in DOMAIN s PROVE c < (c + s[c]) + s[c + s[c]]
    <3>1. PICK n : n = c + s[c]
      OBVIOUS
    <3>2. n \in DOMAIN s
      BY <3>1, <2>2
    <3>3. n < n + s[n] /\ n \in Nat /\ n + s[n] \in Nat /\ c < n /\ c \in Nat
      BY <3>1, <3>2, <2>1
    <3>4. c < n + s[n]
      BY <3>3
    <3>5. QED
      BY <3>1, <3>4
  <2>3. QED
    BY <2>1, <2>2
<1>5. Room(s, a, b)
  <2>1. Room(s, t, b)
    BY DEF Roomy
  <2>2. PICK e : e = b + s[b]
    OBVIOUS
  <2>3. PICK f : f = e + s[e]
    OBVIOUS
  <2>4. e # b /\ (e \in DOMAIN s => f # b)
    BY <2>2, <2>3, <1>4
  <2>5. /\ e \in DOMAIN s => a[e] = t[e]
        /\ e \in DOMAIN s /\ f \in DOMAIN s => a[f] = t[f]
    BY <2>4, <1>1
  <2>6. QED
    BY <2>1, <2>2, <2>3, <2>5 DEF Room
<1>6. ASSUME NEW w \in DOMAIN s, a[w] = ALLOCATED
      PROVE  LET e == w + s[w] IN
             Room(s, a, w) \/ e = b \/ (e \in DOMAIN s /\ a[e] = FREE /\ e + s[e] = b)
  <2>1. w # b /\ t[w] = ALLOCATED
    BY <1>1, <1>3, <1>6
  <2>2. Room(s, t, w)
    BY <2>1 DEF Roomy
  <2>3. PICK e : e = w + s[w]
    OBVIOUS
  <2>4. PICK f : f = e + s[e]
    OBVIOUS
  <2>5. SUFFICES ASSUME e # b, ~(e \in DOMAIN s /\ a[e] = FREE /\ f = b)
                 PROVE  Room(s, a, w)
    BY <2>3, <2>4
  <2>6. e \in DOMAIN s => a[e] = t[e] /\ a[e] \in {FREE, ALLOCATED}
    BY <2>5, <1>1
  <2>7. e \in DOMAIN s /\ a[e] # ALLOCATED /\ f \in DOMAIN s => a[f] = t[f]
    BY <2>5, <2>6, <1>1
  <2>8. QED
    BY <2>2, <2>3, <2>4, <2>6, <2>7 DEF Room
<1>7. CASE s2 = s /\ t2 = a /\ x = b /\ \A p \in DOMAIN s : p + s[p] = b => a[p] = ALLOCATED
  <2>1. ASSUME NEW w \in DOMAIN s, a[w] = ALLOCATED PROVE Room(s, a, w) \/ w + s[w] = b
    <3>1. PICK e : e = w + s[w]
      OBVIOUS
    <3>2. Room(s, a, w) \/ e = b \/ (e \in DOMAIN s /\ a[e] = FREE /\ e + s[e] = b)
      BY <3>1, <2>1, <1>6
    <3>3. QED
      BY <3>1, <3>2, <1>3, <1>7
  <2>2. QED
    BY <2>1, <1>5, <1>7 DEF Merging
<1>8. CASE /\ x \in DOMAIN s /\ x + s[x] = b /\ a[x] = FREE
           /\ s2 = Joined(s, x) /\ t2 = JoinedTypes(a, b)
  <2>1. Room(s2, t2, x)
    BY <1>1, <1>5, <1>8, RoomJoined
  <2>2. /\ DOMAIN s2 = DOMAIN s \ {b} /\ \A c \in DOMAIN s : c # x /\ c # b => s2[c] = s[c]
    <3>1. IsJoined(s2, s, x)
      BY <1>8, JoinedParts
    <3>2. QED
      BY <3>1, <1>8 DEF IsJoined
  <2>3. \A c \in DOMAIN s \ {b} : t2[c] = a[c]
    BY <1>1, <1>8 DEF JoinedTypes
  <2>4. ASSUME NEW w \in DOMAIN s2, t2[w] = ALLOCATED PROVE Room(s2, t2, w) \/ w + s2[w] = x
    <3>1. w \in DOMAIN s /\ w # b /\ a[w] = ALLOCATED /\ w # x
      BY <2>2, <2>3, <2>4, <1>3, <1>8
    <3>2. s2[w] = s[w]
      BY <3>1, <2>2
    <3>3. PICK e : e = w + s[w]
      OBVIOUS
    <3>4. Room(s, a, w) \/ e = b \/ (e \in DOMAIN s /\ a[e] = FREE /\ e + s[e] = b)
      BY <3>1, <3>3, <1>6
    <3>5. CASE Room(s, a, w)
      <4>1. w # x + s[x] /\ x + s[x] \in DOMAIN s /\ a[x + s[x]] = FREE
        BY <3>1, <1>1, <1>8
      <4>2. Room(Joined(s, x), JoinedTypes(a, x + s[x]), w)
        BY <4>1, <3>1, <3>5, <1>1, <1>8, RoomBesides
      <4>3. QED
        BY <4>2, <1>8
    <3>6. CASE e = b
      BY <3>1, <3>3, <3>6, <1>8, Apart
    <3>7. CASE e \in DOMAIN s /\ e + s[e] = b
      <4>1. e = x
        BY <3>7, <1>8, Apart
      <4>2. QED
        BY <4>1, <3>2, <3>3
    <3>8. QED
      BY <3>4, <3>5, <3>6, <3>7
  <2>5. QED
    BY <2>1, <2>4 DEF Merging
<1>9. QED
  BY <1>2, <1>7, <1>8 DEF JoinPrev

LEMMA RoomNext ==
  ASSUME NEW s, NEW t, Tiling(s), t \in [DOMAIN s -> {FREE, ALLOCATED}],
         NEW x \in DOMAIN s, t[x] = FREE, Merging(s, t, x), x + s[x] \in DOMAIN s,
         NEW s2, NEW t2, JoinNext(s, t, x, s2, t2)
  PROVE  Roomy(s2, t2) /\ Spacious(s2, t2)
<1>1. PICK A : A = AllocSize
  OBVIOUS
<1>2. PICK n : n = x + s[x]
  OBVIOUS
<1>3. FREE # ALLOCATED /\ A \in Nat
  BY <1>1, AllocSizePositive DEF FREE, ALLOCATED
<1>4. n \in DOMAIN s
  BY <1>2
<1>5. CASE s2 = s /\ t2 = t /\ t[n] = ALLOCATED
  <2>1. ASSUME NEW w \in DOMAIN s, t[w] = ALLOCATED PROVE Room(s, t, w)
    <3>1. CASE w + s[w] = x
      BY <3>1, <1>2, <1>4, <1>5 DEF Room
    <3>2. CASE w + s[w] # x
      BY <3>2, <2>1 DEF Merging
    <3>3. QED
      BY <3>1, <3>2
  <2>2. Allocated(s, t) # {}
    BY <1>4, <1>5 DEF Allocated
  <2>3. QED
    BY <2>1, <2>2, <1>5 DEF Roomy, Spacious
<1>6. CASE t[n] = FREE /\ s2 = Joined(s, x) /\ t2 = JoinedTypes(t, n)
  <2>1. PICK y, z, g : y = s[x] /\ z = s[n] /\ g = n + z
    OBVIOUS
  <2>2. y \in Nat /\ z \in Nat /\ x \in Nat
    BY <2>1, <1>4, Apart
  <2>3. /\ DOMAIN s2 = DOMAIN s \ {n} /\ s2[x] = y + z /\ x + (y + z) = g /\ x # n
        /\ \A c \in DOMAIN s : c # x /\ c # n => s2[c] = s[c]
    <3>1. IsJoined(s2, s, x)
      BY <1>6, JoinedParts
    <3>2. x < n /\ n \in Nat
      BY <3>1, <1>2 DEF IsJoined
    <3>3. QED
      BY <3>1, <3>2, <2>1, <2>2, <1>2 DEF IsJoined
  <2>4. x \in DOMAIN s2 /\ x + s2[x] = g
    BY <2>3
  <2>5. \A c \in DOMAIN s \ {n} : t2[c] = t[c]
    BY <1>6 DEF JoinedTypes
  <2>6. \/ s2[x] >= A
        \/ g \in DOMAIN s2 /\ t2[g] = ALLOCATED
    <3>1. Room(s, t, x)
      BY DEF Merging
    <3>2. y >= A \/ y + z >= A \/ (g \in DOMAIN s /\ t[g] = ALLOCATED)
      BY <3>1, <2>1, <1>1, <1>2, <1>3, <1>6 DEF Room
    <3>3. CASE y >= A
      BY <3>3, <2>2, <2>3, <1>3
    <3>4. CASE y + z >= A
      BY <3>4, <2>3
    <3>5. CASE g \in DOMAIN s /\ t[g] = ALLOCATED
      <4>1. g # n
        BY <3>5, <1>3, <1>6
      <4>2. QED
        BY <4>1, <3>5, <2>3, <2>5
    <3>6. QED
      BY <3>2, <3>3, <3>4, <3>5
  <2>7. s2[x] \in Nat
    BY <2>2, <2>3
  <2>8. ASSUME NEW w \in DOMAIN s2, t2[w] = ALLOCATED PROVE Room(s2, t2, w)
    <3>1. w \in DOMAIN s /\ w # n /\ t[w] = ALLOCATED /\ w # x
      BY <2>3, <2>5, <2>8, <1>3
    <3>2. s2[w] = s[w]
      BY <3>1, <2>3
    <3>3. CASE Room(s, t, w)
      <4>1. w # x + s[x] /\ t[x + s[x]] = FREE
        BY <3>1, <1>2, <1>6
      <4>2. Room(Joined(s, x), JoinedTypes(t, x + s[x]), w)
        BY <4>1, <3>1, <3>3, RoomBesides
      <4>3. QED
        BY <4>2, <1>2, <1>6
    <3>4. CASE w + s[w] = x
      <4>1. w + s2[w] = x
        BY <3>2, <3>4
      <4>2. CASE s2[x] >= A
        <5>1. s2[w] \in Nat
          BY <3>1, <3>2, Apart
        <5>2. s2[w] + s2[x] >= A
          BY <5>1, <4>2, <2>7, <1>3
        <5>3. QED
          BY <5>2, <4>1, <2>4, <1>1 DEF Room
      <4>3. CASE g \in DOMAIN s2 /\ t2[g] = ALLOCATED
        BY <4>1, <4>3, <2>4 DEF Room
      <4>4. QED
        BY <4>2, <4>3, <2>6
    <3>5. QED
      BY <3>1, <3>3, <3>4 DEF Merging
  <2>9. Spacious(s2, t2)
    <3>1. SUFFICES ASSUME Allocated(s2, t2) = {}
                   PROVE  \E c \in DOMAIN s2 : t2[c] = FREE /\ s2[c] >= AllocSize
      BY DEF Spacious
    <3>2. s2[x] >= A
      BY <3>1, <2>6 DEF Allocated
    <3>3. t2[x] = FREE
      BY <2>3, <2>5
    <3>4. QED
      BY <3>2, <3>3, <2>4, <1>1
  <2>10. QED
    BY <2>8, <2>9 DEF Roomy
<1>7. QED
  BY <1>2, <1>5, <1>6 DEF JoinNext


LEMMA RoomKept ==
  ASSUME NEW s, NEW t, Tiling(s), t \in [DOMAIN s -> {FREE, ALLOCATED}], Owns(s, t),
         Roomy(s, t), NEW s2, NEW t2, Effect(s, t, s2, t2), ~aborted'
  PROVE  Roomy(s2, t2) /\ Spacious(s2, t2)
<1>1. FREE # ALLOCATED /\ AllocSize \in Nat /\ AllocSize > 0
  BY AllocSizePositive DEF FREE, ALLOCATED
<1>2. CASE AllocTo(s, t, s2, t2)
  <2>1. PICK b \in DOMAIN s :
          /\ t[b] = FREE /\ s[b] >= AllocSize
          /\ s2 = TrimSizes(s, b, AllocSize)
          /\ t2 = TrimTypes(s, [t EXCEPT ![b] = ALLOCATED], b, AllocSize)
    BY <1>2 DEF AllocTo
  <2> DEFINE a == [t EXCEPT ![b] = ALLOCATED]
  <2>2. /\ a \in [DOMAIN s -> {FREE, ALLOCATED}] /\ a[b] = ALLOCATED
        /\ \A c \in DOMAIN s : c # b => a[c] = t[c]
    OBVIOUS
  <2>3. t2 = TrimTypes(s, a, b, AllocSize)
    BY <2>1
  <2> HIDE DEF a
  <2>4. ASSUME NEW w \in DOMAIN s, a[w] = ALLOCATED, w # b PROVE Room(s, a, w)
    <3>1. Room(s, t, w)
      BY <2>2, <2>4 DEF Roomy
    <3>2. \A c \in DOMAIN s : t[c] = ALLOCATED => a[c] = ALLOCATED
      BY <2>2
    <3>3. QED
      BY <3>1, <3>2 DEF Room
  <2>5. Roomy(s2, t2)
    BY <2>1, <2>2, <2>3, <2>4, <1>1, RoomTrimmed
  <2>6. IsTrimmed(s, a, b, AllocSize, s2, t2)
    BY <2>1, <2>2, <2>3, <1>1, TrimKeeps
  <2>7. b \in Allocated(s2, t2)
    BY <2>2, <2>6 DEF IsTrimmed, Allocated
  <2>8. QED
    BY <2>5, <2>7 DEF Spacious
<1>3. CASE TrimTo(s, t, s2, t2)
  <2>1. PICK b \in writing, n \in SentSizes :
          /\ s2 = TrimSizes(s, b, n + BlockHeader + BlockFooter)
          /\ t2 = TrimTypes(s, t, b, n + BlockHeader + BlockFooter)
    BY <1>3 DEF TrimTo
  <2>2. PICK k : k = n + BlockHeader + BlockFooter
    OBVIOUS
  <2>3. k \in Nat /\ k > 0
    BY <2>2, MessageWords
  <2>4. b \in DOMAIN s /\ t[b] = ALLOCATED /\ s[b] >= AllocSize
    BY DEF Owns, Owned, Allocated
  <2>5. \A w \in DOMAIN s : t[w] = ALLOCATED /\ w # b => Room(s, t, w)
    BY DEF Roomy
  <2>6. Roomy(s2, t2)
    BY <2>1, <2>2, <2>3, <2>4, <2>5, RoomTrimmed
  <2>7. IsTrimmed(s, t, b, k, s2, t2)
    BY <2>1, <2>2, <2>3, <2>4, TrimKeeps
  <2>8. b \in Allocated(s2, t2)
    BY <2>4, <2>7 DEF IsTrimmed, Allocated
  <2>9. QED
    BY <2>6, <2>8 DEF Spacious
<1>4. CASE CancelTo(s, t, s2, t2)
  <2>1. PICK b \in writing : s2 = s /\ t2 = t
    BY <1>4 DEF CancelTo
  <2>2. b \in Allocated(s2, t2)
    BY <2>1 DEF Owns, Owned
  <2>3. QED
    BY <2>1, <2>2 DEF Spacious
<1>5. CASE FreeTo(s, t, s2, t2)
  <2>1. PICK b \in sent : FreedTo(s, t, b, s2, t2, aborted')
    BY <1>5 DEF FreeTo
  <2>2. b \in DOMAIN s /\ t[b] = ALLOCATED
    BY DEF Owns, Owned, Allocated
  <2> DEFINE a == [t EXCEPT ![b] = FREE]
  <2>3. PICK s1, t1, x :
          /\ Tiling(s1) /\ t1 \in [DOMAIN s1 -> {FREE, ALLOCATED}]
          /\ JoinPrev(s, a, b, s1, t1, x)
          /\ x + s1[x] \in DOMAIN s1 /\ JoinNext(s1, t1, x, s2, t2)
    BY <2>1 DEF FreedTo
  <2>4. Merging(s1, t1, x)
    BY <2>2, <2>3, RoomPrev
  <2>5. a \in [DOMAIN s -> {FREE, ALLOCATED}] /\ a[b] = FREE
    BY <2>2
  <2> HIDE DEF a
  <2>6. x \in DOMAIN s1 /\ t1[x] = FREE
    BY <2>2, <2>3, <2>5, PrevKeeps
  <2>7. QED
    BY <2>3, <2>4, <2>6, RoomNext
<1>6. QED
  BY <1>2, <1>3, <1>4, <1>5 DEF Effect

RoomInv ==
  \E s, t, l : /\ Good(mem, s, t, l) /\ Owns(s, t)
               /\ ~aborted => Roomy(s, t) /\ Spacious(s, t)

\* In a memory with room for the largest message: whatever was allocated,
\* trimmed and freed, and in whatever order, once nothing is allocated the
\* largest message can be.  The memory does not fragment for good.
THEOREM NeverFragmented ==
  ASSUME TotalSize >= AllocSize
  PROVE  Spec => []AllocatesWhenEmpty
<1>1. Init => RoomInv
  <2> SUFFICES ASSUME Init PROVE RoomInv
    OBVIOUS
  <2> DEFINE s == [c \in {Start} |-> TotalSize]
             t == [c \in {Start} |-> FREE]
  <2>1. PICK l : Good(mem, s, t, l)
    BY Created
  <2>2. Allocated(s, t) = {}
    BY DEF Allocated, FREE, ALLOCATED
  <2>3. s[Start] = TotalSize /\ Start \in DOMAIN s /\ t[Start] = FREE
    OBVIOUS
  <2> HIDE DEF s, t
  <2>4. Owns(s, t)
    BY <2>2 DEF Init, Owns, Owned
  <2>5. Roomy(s, t)
    BY <2>2 DEF Roomy, Allocated
  <2>6. Spacious(s, t)
    BY <2>3 DEF Spacious
  <2>7. QED
    BY <2>1, <2>4, <2>5, <2>6 DEF RoomInv
<1>2. RoomInv /\ [Next]_vars => RoomInv'
  <2> SUFFICES ASSUME RoomInv, [Next]_vars PROVE RoomInv'
    OBVIOUS
  <2>1. PICK s, t, l : /\ Good(mem, s, t, l) /\ Owns(s, t)
                       /\ ~aborted => Roomy(s, t) /\ Spacious(s, t)
    BY DEF RoomInv
  <2>2. CASE Next
    <3>1. PICK s2, t2, j : Good(mem', s2, t2, j) /\ Effect(s, t, s2, t2)
      BY <2>1, <2>2, Effects
    <3>2. Tiling(s) /\ t \in [DOMAIN s -> {FREE, ALLOCATED}] /\ Tiling(s2)
      BY <2>1, <3>1 DEF Good
    <3>3. Owns(s2, t2)'
      BY <2>1, <3>1, <3>2, OwnersKept
    <3>4. ~aborted
      BY <2>2 DEF Next, Alloc, Trim, Cancel, Free
    <3>5. ~aborted' => Roomy(s2, t2) /\ Spacious(s2, t2)
      BY <2>1, <3>1, <3>2, <3>4, RoomKept
    <3>6. QED
      BY <3>1, <3>3, <3>5 DEF RoomInv
  <2>3. CASE UNCHANGED vars
    BY <2>1, <2>3 DEF vars, RoomInv, Owns, Owned
  <2>4. QED
    BY <2>2, <2>3
<1>3. RoomInv => AllocatesWhenEmpty
  <2> SUFFICES ASSUME RoomInv, Owned = {}, ~aborted PROVE Fitting(mem) # {}
    BY DEF AllocatesWhenEmpty
  <2>1. PICK s, t, l : Good(mem, s, t, l) /\ Owns(s, t) /\ Spacious(s, t)
    BY DEF RoomInv
  <2>2. PICK c \in DOMAIN s : t[c] = FREE /\ s[c] >= AllocSize
    BY <2>1 DEF Owns, Spacious
  <2>3. Represents(mem, s, t, l) /\ InList(l, c) /\ DOMAIN s \subseteq Nat
    BY <2>1, <2>2, Apart DEF Good
  <2>4. Chained(mem, l) /\ DOMAIN mem.hdr = DOMAIN s
    BY <2>3 DEF Represents
  <2>5. FreeBlocks(mem) = {l[i] : i \in 1..Len(l)}
    BY <2>3, <2>4, Entries
  <2>6. c \in FreeBlocks(mem)
    BY <2>3, <2>5 DEF InList
  <2>7. mem.hdr[c].size >= AllocSize
    BY <2>2, <2>3, Fields
  <2>8. QED
    BY <2>6, <2>7 DEF Fitting
<1>4. QED
  BY <1>1, <1>2, <1>3, PTL DEF Spec


=============================================================================
