--------------------------- MODULE ShmArenaProofs ---------------------------
(***************************************************************************)
(* Theorems about ShmArena, for any senders, blocks and messages.          *)
(***************************************************************************)
EXTENDS ShmArena, FiniteSetTheorems, SequenceTheorems, TLAPS

\* The counter stays in its 32 bits.
LEMMA CounterTyped ==
  ASSUME NEW n \in 0..CountMax
  PROVE  Incremented(n) \in 0..CountMax /\ Decremented(n) \in 0..CountMax
  BY ArenaAssumption DEF Incremented, Decremented

\* The variables keep their types; a receiver past its look at the head of the
\* list, and a sender with a writer, hold a block (transport_shm.c:264, 330).
THEOREM Typing == Spec => []TypeOK
<1>1. Init => TypeOK
  BY ArenaAssumption
  DEF Init, TypeOK, L!Init, Threads, BlockOrNull, SenderLabels, ReceiverLabels
<1>2. TypeOK /\ [Next]_vars => TypeOK'
  <2> SUFFICES ASSUME TypeOK, [Next]_vars PROVE TypeOK'
    OBVIOUS
  <2> USE ArenaAssumption
  <2>1. ASSUME NEW s \in Senders, NEW b \in Blocks, NEW m \in Messages, MessageInit(s, b, m)
        PROVE  TypeOK'
    BY <2>1 DEF TypeOK, MessageInit, Go, Threads, BlockOrNull, SenderLabels, ReceiverLabels
  <2>2. ASSUME NEW s \in Senders, Cancel(s) PROVE TypeOK'
    BY <2>2 DEF TypeOK, Cancel, Go, shared, Threads, BlockOrNull, SenderLabels, ReceiverLabels
  <2>3. ASSUME NEW s \in Senders, SendLock(s) PROVE TypeOK'
    BY <2>3 DEF TypeOK, SendLock, Go, L!Acquire, shared, Threads, BlockOrNull, SenderLabels, ReceiverLabels
  <2>4. ASSUME NEW s \in Senders, SendLink(s) PROVE TypeOK'
    BY <2>4 DEF TypeOK, SendLink, Go, Threads, BlockOrNull, SenderLabels, ReceiverLabels
  <2>5. ASSUME NEW s \in Senders, SendStore(s) PROVE TypeOK'
    BY <2>5 DEF TypeOK, SendStore, Go, L!Release, Threads, BlockOrNull, SenderLabels, ReceiverLabels
  <2>6. ASSUME NEW s \in Senders, SendCount(s) PROVE TypeOK'
    BY <2>6, CounterTyped DEF TypeOK, SendCount, Go, Threads, BlockOrNull, SenderLabels, ReceiverLabels
  <2>7. ASSUME NEW r \in Receivers, RecvCheck(r) PROVE TypeOK'
    BY <2>7 DEF TypeOK, RecvCheck, Go, shared, Threads, BlockOrNull, SenderLabels, ReceiverLabels
  <2>8. ASSUME NEW r \in Receivers, RecvPeek(r) PROVE TypeOK'
    BY <2>8 DEF TypeOK, RecvPeek, Go, shared, Threads, BlockOrNull, SenderLabels, ReceiverLabels
  <2>9. ASSUME NEW r \in Receivers, RecvLock(r) PROVE TypeOK'
    BY <2>9 DEF TypeOK, RecvLock, Go, L!Acquire, shared, Threads, BlockOrNull, SenderLabels, ReceiverLabels
  <2>10. ASSUME NEW r \in Receivers, RecvUnlink(r) PROVE TypeOK'
    BY <2>10 DEF TypeOK, RecvUnlink, Go, Threads, BlockOrNull, SenderLabels, ReceiverLabels
  <2>11. ASSUME NEW r \in Receivers, RecvUnlock(r) PROVE TypeOK'
    BY <2>11 DEF TypeOK, RecvUnlock, Go, L!Release, Threads, BlockOrNull, SenderLabels, ReceiverLabels
  <2>12. ASSUME NEW r \in Receivers, RecvCount(r) PROVE TypeOK'
    BY <2>12, CounterTyped DEF TypeOK, RecvCount, Go, Threads, BlockOrNull, SenderLabels, ReceiverLabels
  <2>13. ASSUME NEW b \in Blocks, MessageRelease(b) PROVE TypeOK'
    BY <2>13 DEF TypeOK, MessageRelease, shared
  <2>14. CASE UNCHANGED vars
    BY <2>14 DEF TypeOK, vars
  <2>15. QED
    BY <2>1, <2>2, <2>3, <2>4, <2>5, <2>6, <2>7, <2>8, <2>9, <2>10, <2>11, <2>12, <2>13, <2>14
    DEF Next
<1>3. QED
  BY <1>1, <1>2, PTL DEF Spec

-----------------------------------------------------------------------------
(* The list, with one receiver: arena_receivers shows why one.  The        *)
(* invariant, ListInv, has five parts that only hold together.             *)

OneReceiver == \A q, r \in Receivers : q = r

LastOf(l) == IF l = <<>> THEN NULL ELSE l[Len(l)]

\* A thread is in a critical section exactly while it has the lock.
Inside == {"link", "store", "unlink", "unlock"}
LockHeld == \A t \in Threads : pc[t] \in Inside <=> lock = t

\* The links of the list.
Linkage ==
  /\ first = IF list = <<>> THEN NULL ELSE list[1]
  /\ \A i \in 1..Len(list) : next[list[i]] = IF i = Len(list) THEN NULL ELSE list[i + 1]

\* Its ends, and what a thread in or before its critical section knows of them.
Ends ==
  /\ (\A t \in Threads : pc[t] \notin {"store", "unlock"}) => last = LastOf(list)
  /\ \A s \in Senders : pc[s] = "link" => seen[s] = LastOf(list)
  /\ \A s \in Senders : pc[s] = "store" => blk[s] = LastOf(list)
  /\ \A r \in Receivers : pc[r] = "unlock" => list = <<>> \/ last = LastOf(list)
  /\ \A r \in Receivers : pc[r] \in {"lock", "unlink"} => list # <<>> /\ blk[r] = list[1]

\* No block is in two places, and a message that is not linked links nothing.
Gone == free \cup held \cup cancelled
Apart ==
  /\ free \cap held = {} /\ free \cap cancelled = {} /\ held \cap cancelled = {}
  /\ \A i, j \in 1..Len(list) : list[i] = list[j] => i = j
  /\ \A i \in 1..Len(list) : list[i] \notin Gone
  /\ \A s \in Drafts : blk[s] \notin Gone /\ next[blk[s]] = NULL
  /\ \A s \in Drafts, i \in 1..Len(list) : list[i] # blk[s]
  /\ \A s, t \in Drafts : blk[s] = blk[t] => s = t
  /\ \A r \in InHand : blk[r] \notin Gone
  /\ \A r \in InHand, i \in 1..Len(list) : list[i] # blk[r]
  /\ \A r \in InHand, s \in Drafts : blk[s] # blk[r]

\* What Len, Append and Tail do to the list of blocks.
LEMMA ListFacts ==
  ASSUME NEW l \in Seq(Blocks)
  PROVE  /\ Len(l) \in Nat
         /\ l = <<>> <=> Len(l) = 0
         /\ DOMAIN l = 1..Len(l)
         /\ \A i \in 1..Len(l) : l[i] \in Blocks
  OBVIOUS

LEMMA AppendFacts ==
  ASSUME NEW l \in Seq(Blocks), NEW b \in Blocks
  PROVE  /\ Append(l, b) \in Seq(Blocks) /\ Append(l, b) # <<>>
         /\ Len(Append(l, b)) = Len(l) + 1
         /\ Append(l, b)[Len(l) + 1] = b
         /\ \A i \in 1..Len(l) : Append(l, b)[i] = l[i]
  OBVIOUS

LEMMA TailFacts ==
  ASSUME NEW l \in Seq(Blocks), l # <<>>
  PROVE  /\ Tail(l) \in Seq(Blocks)
         /\ Len(l) >= 1 /\ Len(Tail(l)) = Len(l) - 1
         /\ Head(l) = l[1]
         /\ \A i \in 1..Len(l) - 1 : Tail(l)[i] = l[i + 1]
  OBVIOUS

\* Every step keeps the lock with the thread in its critical section.
LEMMA LockStep ==
  ASSUME TypeOK, LockHeld, [Next]_vars
  PROVE  LockHeld'
<1> USE DEF Go, Inside, Threads
<1>1. /\ pc \in [Threads -> SenderLabels \cup ReceiverLabels]
      /\ NoThread \notin Threads /\ Senders \cap Receivers = {}
  BY ArenaAssumption DEF TypeOK
<1>2. ASSUME NEW s \in Senders,
             \/ \E b \in Blocks, m \in Messages : MessageInit(s, b, m)
             \/ Cancel(s) \/ SendLink(s) \/ SendCount(s)
      PROVE  LockHeld'
  BY <1>1, <1>2 DEF LockHeld, MessageInit, Cancel, SendLink, SendCount
<1>3. ASSUME NEW s \in Senders, SendLock(s) PROVE LockHeld'
  BY <1>1, <1>3 DEF LockHeld, SendLock, L!Acquire
<1>4. ASSUME NEW s \in Senders, SendStore(s) PROVE LockHeld'
  BY <1>1, <1>4 DEF LockHeld, SendStore, L!Release
<1>5. ASSUME NEW r \in Receivers,
             RecvCheck(r) \/ RecvPeek(r) \/ RecvUnlink(r) \/ RecvCount(r)
      PROVE  LockHeld'
  BY <1>1, <1>5 DEF LockHeld, RecvCheck, RecvPeek, RecvUnlink, RecvCount
<1>6. ASSUME NEW r \in Receivers, RecvLock(r) PROVE LockHeld'
  BY <1>1, <1>6 DEF LockHeld, RecvLock, L!Acquire
<1>7. ASSUME NEW r \in Receivers, RecvUnlock(r) PROVE LockHeld'
  BY <1>1, <1>7 DEF LockHeld, RecvUnlock, L!Release
<1>8. CASE (\E b \in Blocks : MessageRelease(b)) \/ UNCHANGED vars
  BY <1>8 DEF LockHeld, MessageRelease, vars
<1>9. QED
  BY <1>2, <1>3, <1>4, <1>5, <1>6, <1>7, <1>8 DEF Next

\* Every step keeps the links spelling the list.
LEMMA LinkageStep ==
  ASSUME TypeOK, Linkage, Ends, Apart, [Next]_vars
  PROVE  Linkage'
<1>1. list \in Seq(Blocks) /\ next \in [Blocks -> BlockOrNull]
  BY DEF TypeOK
<1>2. ASSUME NEW s \in Senders, NEW b \in Blocks, NEW m \in Messages, MessageInit(s, b, m)
      PROVE  Linkage'
  <2>1. b \in free /\ next' = [next EXCEPT ![b] = NULL] /\ UNCHANGED <<first, list>>
    BY <1>2 DEF MessageInit
  <2>2. \A i \in 1..Len(list) : list[i] # b
    BY <2>1 DEF Apart, Gone
  <2>3. QED
    BY <1>1, <2>1, <2>2, ListFacts DEF Linkage
<1>3. ASSUME NEW s \in Senders, SendLink(s) PROVE Linkage'
  <2>1. /\ blk[s] \in Blocks /\ next[blk[s]] = NULL
        /\ \A i \in 1..Len(list) : list[i] # blk[s]
    BY <1>3 DEF SendLink, Go, Apart, Drafts, TypeOK
  <2>2. seen[s] = LastOf(list) /\ list' = Append(list, blk[s])
    BY <1>3 DEF SendLink, Go, Ends
  <2>3. CASE list = <<>>
    <3>1. first' = blk[s] /\ next' = next
      BY <1>3, <2>2, <2>3 DEF SendLink, LastOf
    <3>2. Len(list) = 0
      BY <2>3
    <3>3. QED
      BY <1>1, <2>1, <2>2, <3>1, <3>2, AppendFacts DEF Linkage
  <2>4. CASE list # <<>>
    <3>1. Len(list) \in Nat /\ Len(list) # 0 /\ \A i \in 1..Len(list) : list[i] \in Blocks
      BY <1>1, <2>4, ListFacts
    <3>2. first' = first /\ next' = [next EXCEPT ![list[Len(list)]] = blk[s]]
      BY <1>3, <2>2, <2>4, <3>1, ArenaAssumption DEF SendLink, LastOf
    <3>3. \A i, j \in 1..Len(list) : list[i] = list[j] => i = j
      BY DEF Apart
    <3>4. first' = list'[1]
      BY <1>1, <2>1, <2>2, <2>4, <3>1, <3>2, AppendFacts DEF Linkage
    <3>5. ASSUME NEW i \in 1..Len(list) + 1
          PROVE  next'[list'[i]] = IF i = Len(list) + 1 THEN NULL ELSE list'[i + 1]
      <4>1. CASE i = Len(list) + 1
        BY <1>1, <2>1, <2>2, <3>1, <3>2, <4>1, AppendFacts
      <4>2. CASE i = Len(list)
        BY <1>1, <2>1, <2>2, <3>1, <3>2, <4>2, AppendFacts
      <4>3. CASE i < Len(list)
        BY <1>1, <2>1, <2>2, <3>1, <3>2, <3>3, <4>3, AppendFacts DEF Linkage
      <4>4. QED
        BY <3>1, <4>1, <4>2, <4>3
    <3>6. QED
      BY <1>1, <2>1, <2>2, <3>4, <3>5, AppendFacts DEF Linkage
  <2>5. QED
    BY <2>3, <2>4
<1>4. ASSUME NEW r \in Receivers, RecvUnlink(r) PROVE Linkage'
  <2>1. list # <<>> /\ blk[r] = list[1]
    BY <1>4 DEF RecvUnlink, Go, Ends
  <2>2. first' = next[list[1]] /\ next' = next /\ list' = Tail(list)
    BY <1>4, <2>1 DEF RecvUnlink
  <2>3. /\ Len(list) \in Nat /\ Len(list) >= 1 /\ Len(list') = Len(list) - 1
        /\ \A i \in 1..Len(list') : list'[i] = list[i + 1]
        /\ list' = <<>> <=> Len(list') = 0
    BY <1>1, <2>1, <2>2, TailFacts, ListFacts
  <2>4. first' = IF list' = <<>> THEN NULL ELSE list'[1]
    <3>1. 1 \in 1..Len(list) /\ 1 + 1 = 2
      BY <2>3
    <3>2. next[list[1]] = IF 1 = Len(list) THEN NULL ELSE list[2]
      BY <3>1 DEF Linkage
    <3>3. Len(list) # 1 => list'[1] = list[2]
      BY <2>3
    <3>4. QED
      BY <2>2, <2>3, <3>2, <3>3
  <2>5. ASSUME NEW i \in 1..Len(list')
        PROVE  next'[list'[i]] = IF i = Len(list') THEN NULL ELSE list'[i + 1]
    <3>1. i + 1 \in 1..Len(list) /\ list'[i] = list[i + 1]
      BY <2>3
    <3>2. next[list[i + 1]] = IF i + 1 = Len(list) THEN NULL ELSE list[i + 1 + 1]
      BY <3>1 DEF Linkage
    <3>3. i # Len(list') => list'[i + 1] = list[i + 1 + 1]
      BY <2>3
    <3>4. QED
      BY <2>2, <2>3, <3>1, <3>2, <3>3
  <2>6. QED
    BY <2>4, <2>5 DEF Linkage
<1>5. ASSUME NEW s \in Senders, Cancel(s) \/ SendLock(s) \/ SendStore(s) \/ SendCount(s)
      PROVE  Linkage'
  BY <1>5 DEF Linkage, Cancel, SendLock, SendStore, SendCount, shared
<1>6. ASSUME NEW r \in Receivers,
             RecvCheck(r) \/ RecvPeek(r) \/ RecvLock(r) \/ RecvUnlock(r) \/ RecvCount(r)
      PROVE  Linkage'
  BY <1>6 DEF Linkage, RecvCheck, RecvPeek, RecvLock, RecvUnlock, RecvCount, shared
<1>7. ASSUME NEW b \in Blocks, MessageRelease(b) PROVE Linkage'
  BY <1>7 DEF Linkage, MessageRelease, shared
<1>8. CASE UNCHANGED vars
  BY <1>8 DEF Linkage, vars
<1>9. QED
  BY <1>2, <1>3, <1>4, <1>5, <1>6, <1>7, <1>8 DEF Next

\* Every step keeps what is known of the ends of the list.
LEMMA EndsStep ==
  ASSUME OneReceiver, TypeOK, LockHeld, Linkage, Ends, [Next]_vars
  PROVE  Ends'
<1> USE DEF Threads, Inside, Go
<1>1. /\ list \in Seq(Blocks) /\ pc \in [Threads -> SenderLabels \cup ReceiverLabels]
      /\ blk \in [Threads -> BlockOrNull] /\ seen \in [Senders -> BlockOrNull]
      /\ Senders \cap Receivers = {}
  BY ArenaAssumption DEF TypeOK
<1>2. \A s \in Senders : pc[s] # "unlock" /\ pc[s] # "unlink"
  BY DEF TypeOK, SenderLabels
<1>3. \A r \in Receivers : pc[r] # "store" /\ pc[r] # "link"
  BY DEF TypeOK, ReceiverLabels
<1>4. \A t, u \in Threads : pc[t] \in Inside /\ pc[u] \in Inside => t = u
  BY DEF LockHeld
<1>5. lock = NoThread => \A t \in Threads : pc[t] \notin Inside
  BY ArenaAssumption DEF LockHeld
<1>6. ASSUME NEW s \in Senders, NEW b \in Blocks, NEW m \in Messages, MessageInit(s, b, m)
      PROVE  Ends'
  BY <1>1, <1>6 DEF Ends, MessageInit, LastOf
<1>7. ASSUME NEW s \in Senders, Cancel(s) PROVE Ends'
  BY <1>1, <1>7 DEF Ends, Cancel, shared, LastOf
<1>8. ASSUME NEW s \in Senders, SendLock(s) PROVE Ends'
  <2>1. last = LastOf(list)
    BY <1>5, <1>8 DEF SendLock, L!Acquire, Ends
  <2>2. UNCHANGED <<last, list, blk>> /\ seen' = [seen EXCEPT ![s] = last]
    BY <1>8 DEF SendLock, shared
  <2>3. pc' = [pc EXCEPT ![s] = "link"]
    BY <1>8 DEF SendLock
  <2>4. QED
    BY <1>1, <2>1, <2>2, <2>3 DEF Ends, LastOf
<1>9. ASSUME NEW s \in Senders, SendLink(s) PROVE Ends'
  <2>1. /\ list' = Append(list, blk[s]) /\ UNCHANGED <<last, blk, seen>>
        /\ pc[s] = "link" /\ pc' = [pc EXCEPT ![s] = "store"] /\ blk[s] \in Blocks
    BY <1>9 DEF SendLink, TypeOK
  <2>2. \A t \in Threads : t # s => pc[t] \notin Inside
    BY <1>4, <2>1
  <2>3. LastOf(list') = blk[s] /\ list' # <<>>
    BY <1>1, <2>1, AppendFacts DEF LastOf
  <2>4. pc'[s] = "store" /\ \A t \in Threads : t # s => pc'[t] = pc[t]
    BY <1>1, <2>1
  <2>5. \A r \in Receivers : pc[r] = "lock" => list # <<>> /\ blk[r] = list[1]
    BY DEF Ends
  <2>6. list # <<>> => list'[1] = list[1]
    BY <1>1, <2>1, AppendFacts, ListFacts
  <2>7. QED
    BY <1>1, <2>1, <2>2, <2>3, <2>4, <2>5, <2>6 DEF Ends
<1>10. ASSUME NEW s \in Senders, SendStore(s) PROVE Ends'
  BY <1>1, <1>4, <1>10 DEF Ends, SendStore, L!Release, LastOf
<1>11. ASSUME NEW s \in Senders, SendCount(s) PROVE Ends'
  BY <1>1, <1>11 DEF Ends, SendCount, LastOf
<1>12. ASSUME NEW r \in Receivers, RecvCheck(r) PROVE Ends'
  BY <1>1, <1>12 DEF Ends, RecvCheck, shared, LastOf
<1>13. ASSUME NEW r \in Receivers, RecvPeek(r) PROVE Ends'
  <2>1. /\ pc[r] = "peek" /\ UNCHANGED <<last, list, seen>>
        /\ pc' = [pc EXCEPT ![r] = IF first = NULL THEN "aborted" ELSE "lock"]
        /\ blk' = [blk EXCEPT ![r] = first]
    BY <1>13 DEF RecvPeek, shared
  <2>2. first # NULL => list # <<>> /\ first = list[1]
    BY DEF Linkage
  <2>3. QED
    BY <1>1, <2>1, <2>2 DEF Ends, LastOf
<1>14. ASSUME NEW r \in Receivers, RecvLock(r) PROVE Ends'
  BY <1>1, <1>14 DEF Ends, RecvLock, L!Acquire, shared, LastOf
<1>15. ASSUME NEW r \in Receivers, RecvUnlink(r) PROVE Ends'
  <2>1. /\ pc[r] = "unlink" /\ pc' = [pc EXCEPT ![r] = "unlock"]
        /\ list # <<>> /\ list' = Tail(list) /\ UNCHANGED <<last, blk, seen>>
    BY <1>15 DEF RecvUnlink, Ends
  <2>2. \A t \in Threads : t # r => pc[t] \notin Inside
    BY <1>4, <2>1
  <2>3. last = LastOf(list)
    BY <1>2, <1>3, <2>1, <2>2 DEF Ends
  <2>4. list' = <<>> \/ LastOf(list') = LastOf(list)
    BY <1>1, <2>1, TailFacts, ListFacts DEF LastOf
  <2>5. pc'[r] = "unlock" /\ \A t \in Threads : t # r => pc'[t] = pc[t]
    BY <1>1, <2>1
  <2>6. \A q \in Receivers : q = r
    BY DEF OneReceiver
  <2>7. QED
    BY <1>1, <2>1, <2>2, <2>3, <2>4, <2>5, <2>6 DEF Ends
<1>16. ASSUME NEW r \in Receivers, RecvUnlock(r) PROVE Ends'
  <2>1. /\ pc[r] = "unlock" /\ pc' = [pc EXCEPT ![r] = "count"]
        /\ last' = IF first = NULL THEN NULL ELSE last
        /\ UNCHANGED <<list, blk, seen>>
    BY <1>16 DEF RecvUnlock
  <2>2. \A t \in Threads : t # r => pc[t] \notin Inside
    BY <1>4, <2>1
  <2>3. first = NULL <=> list = <<>>
    BY <1>1, ListFacts, ArenaAssumption DEF Linkage
  <2>4. last' = LastOf(list)
    BY <2>1, <2>3 DEF Ends, LastOf
  <2>5. pc'[r] = "count" /\ \A t \in Threads : t # r => pc'[t] = pc[t]
    BY <1>1, <2>1
  <2>6. QED
    BY <1>1, <2>1, <2>2, <2>4, <2>5 DEF Ends, LastOf
<1>17. ASSUME NEW r \in Receivers, RecvCount(r) PROVE Ends'
  BY <1>1, <1>17 DEF Ends, RecvCount, LastOf
<1>18. ASSUME NEW b \in Blocks, MessageRelease(b) PROVE Ends'
  BY <1>18 DEF Ends, MessageRelease, shared, LastOf
<1>19. CASE UNCHANGED vars
  BY <1>19 DEF Ends, vars, LastOf
<1>20. QED
  BY <1>6, <1>7, <1>8, <1>9, <1>10, <1>11, <1>12, <1>13, <1>14, <1>15, <1>16, <1>17, <1>18, <1>19
  DEF Next

\* Every step keeps the blocks apart.
LEMMA ApartStep ==
  ASSUME OneReceiver, TypeOK, LockHeld, Ends, Apart, [Next]_vars
  PROVE  Apart'
<1> USE DEF Go
<1>1. /\ list \in Seq(Blocks) /\ pc \in [Threads -> SenderLabels \cup ReceiverLabels]
      /\ blk \in [Threads -> BlockOrNull] /\ next \in [Blocks -> BlockOrNull]
      /\ Senders \cap Receivers = {} /\ Senders \subseteq Threads /\ Receivers \subseteq Threads
  BY ArenaAssumption DEF TypeOK, Threads
<1>2. /\ \A s \in Senders : pc[s] # "idle" => blk[s] \in Blocks
      /\ \A r \in Receivers : pc[r] \in {"lock", "unlink", "unlock", "count"} => blk[r] \in Blocks
      /\ free \subseteq Blocks /\ held \subseteq Blocks /\ cancelled \subseteq Blocks
  BY DEF TypeOK
<1>3. ASSUME NEW s \in Senders, NEW b \in Blocks, NEW m \in Messages, MessageInit(s, b, m)
      PROVE  Apart'
  BY <1>1, <1>3 DEF Apart, Gone, Drafts, InHand, MessageInit
<1>4. ASSUME NEW s \in Senders, Cancel(s) PROVE Apart'
  BY <1>1, <1>4 DEF Apart, Gone, Drafts, InHand, Cancel, shared
<1>5. ASSUME NEW s \in Senders, SendLock(s) PROVE Apart'
  BY <1>1, <1>5 DEF Apart, Gone, Drafts, InHand, SendLock, shared
<1>6. ASSUME NEW s \in Senders, SendLink(s) PROVE Apart'
  <2>1. /\ pc[s] = "link" /\ pc' = [pc EXCEPT ![s] = "store"] /\ blk[s] \in Blocks
        /\ list' = Append(list, blk[s]) /\ UNCHANGED <<free, held, cancelled, blk>>
    BY <1>2, <1>6 DEF SendLink
  <2>2. s \in Drafts /\ Drafts' = Drafts \ {s} /\ InHand' = InHand
    BY <1>1, <2>1 DEF Drafts, InHand
  <2>3. /\ Len(list) \in Nat /\ Len(list') = Len(list) + 1 /\ list'[Len(list) + 1] = blk[s]
        /\ \A i \in 1..Len(list) : list'[i] = list[i] /\ list'[i] # blk[s]
    BY <1>1, <2>1, <2>2, AppendFacts, ListFacts DEF Apart
  <2>4. \A i \in 1..Len(list') : i \in 1..Len(list) \/ (i = Len(list) + 1 /\ list'[i] = blk[s])
    BY <2>3
  <2>5. \A t \in Drafts' : next'[blk[t]] = NULL
    <3>1. seen[s] = NULL \/ \E i \in 1..Len(list) : seen[s] = list[i]
      <4>1. seen[s] = LastOf(list)
        BY <2>1 DEF Ends
      <4>2. QED
        BY <1>1, <4>1, ListFacts DEF LastOf
    <3>2. \A t \in Drafts : seen[s] = NULL \/ seen[s] # blk[t]
      BY <3>1 DEF Apart
    <3>3. \A t \in Drafts : blk[t] \in Blocks /\ next[blk[t]] = NULL
      BY <1>2 DEF Apart, Drafts
    <3>4. QED
      BY <1>1, <1>6, <2>1, <2>2, <3>2, <3>3 DEF SendLink
  <2>6. \A i, j \in 1..Len(list') : list'[i] = list'[j] => i = j
    BY <2>3, <2>4 DEF Apart
  <2>7. \A i \in 1..Len(list') : list'[i] \notin Gone'
    BY <2>1, <2>2, <2>3, <2>4 DEF Apart, Gone
  <2>8. \A t \in Drafts', i \in 1..Len(list') : list'[i] # blk'[t]
    BY <2>1, <2>2, <2>3, <2>4 DEF Apart
  <2>9. \A r \in InHand', i \in 1..Len(list') : list'[i] # blk'[r]
    BY <2>1, <2>2, <2>3, <2>4 DEF Apart
  <2>10. QED
    BY <2>1, <2>2, <2>5, <2>6, <2>7, <2>8, <2>9 DEF Apart, Gone
<1>7. ASSUME NEW s \in Senders, SendStore(s) PROVE Apart'
  BY <1>1, <1>7 DEF Apart, Gone, Drafts, InHand, SendStore
<1>8. ASSUME NEW s \in Senders, SendCount(s) PROVE Apart'
  BY <1>1, <1>8 DEF Apart, Gone, Drafts, InHand, SendCount
<1>9. ASSUME NEW r \in Receivers, RecvCheck(r) PROVE Apart'
  BY <1>1, <1>9 DEF Apart, Gone, Drafts, InHand, RecvCheck, shared
<1>10. ASSUME NEW r \in Receivers, RecvPeek(r) PROVE Apart'
  BY <1>1, <1>10 DEF Apart, Gone, Drafts, InHand, RecvPeek, shared
<1>11. ASSUME NEW r \in Receivers, RecvLock(r) PROVE Apart'
  BY <1>1, <1>11 DEF Apart, Gone, Drafts, InHand, RecvLock, shared
<1>12. ASSUME NEW r \in Receivers, RecvUnlink(r) PROVE Apart'
  <2>1. /\ pc[r] = "unlink" /\ pc' = [pc EXCEPT ![r] = "unlock"]
        /\ list # <<>> /\ blk[r] = list[1] /\ list' = Tail(list)
        /\ UNCHANGED <<next, free, held, cancelled, blk>>
    BY <1>12 DEF RecvUnlink, Ends
  <2>2. Drafts' = Drafts /\ InHand' = {r}
    BY <1>1, <2>1 DEF Drafts, InHand, OneReceiver
  <2>3. /\ Len(list) \in Nat /\ Len(list) >= 1 /\ Len(list') = Len(list) - 1
        /\ \A i \in 1..Len(list') : i + 1 \in 1..Len(list) /\ list'[i] = list[i + 1]
    BY <1>1, <2>1, TailFacts, ListFacts
  <2>4. \A i, j \in 1..Len(list') : list'[i] = list'[j] => i = j
    BY <2>3 DEF Apart
  <2>5. \A i \in 1..Len(list') : list'[i] \notin Gone' /\ list'[i] # blk[r]
    BY <2>1, <2>3 DEF Apart, Gone
  <2>6. blk[r] \notin Gone /\ \A s \in Drafts : blk[s] # blk[r]
    BY <2>1, <2>3 DEF Apart
  <2>7. \A s \in Drafts, i \in 1..Len(list') : list'[i] # blk[s]
    BY <2>3 DEF Apart
  <2>8. QED
    BY <2>1, <2>2, <2>4, <2>5, <2>6, <2>7 DEF Apart, Gone
<1>13. ASSUME NEW r \in Receivers, RecvUnlock(r) PROVE Apart'
  BY <1>1, <1>13 DEF Apart, Gone, Drafts, InHand, RecvUnlock
<1>14. ASSUME NEW r \in Receivers, RecvCount(r) PROVE Apart'
  <2>1. /\ pc[r] = "count" /\ pc' = [pc EXCEPT ![r] = "idle"] /\ held' = held \cup {blk[r]}
        /\ blk' = [blk EXCEPT ![r] = NULL] /\ UNCHANGED <<next, free, cancelled, list>>
    BY <1>14 DEF RecvCount
  <2>2. /\ r \in InHand /\ InHand' = {} /\ Drafts' = Drafts
        /\ \A s \in Drafts : blk'[s] = blk[s]
    BY <1>1, <2>1 DEF Drafts, InHand, OneReceiver
  <2>3. QED
    BY <2>1, <2>2 DEF Apart, Gone
<1>15. ASSUME NEW b \in Blocks, MessageRelease(b) PROVE Apart'
  BY <1>15 DEF Apart, Gone, Drafts, InHand, MessageRelease, shared
<1>16. CASE UNCHANGED vars
  BY <1>16 DEF Apart, Gone, Drafts, InHand, vars
<1>17. QED
  BY <1>3, <1>4, <1>5, <1>6, <1>7, <1>8, <1>9, <1>10, <1>11, <1>12, <1>13, <1>14, <1>15, <1>16
  DEF Next

\* Every block is somewhere.
Covered == \A b \in Blocks :
  \/ b \in Gone
  \/ \E s \in Drafts : b = blk[s]
  \/ \E i \in 1..Len(list) : b = list[i]
  \/ \E r \in InHand : b = blk[r]

LEMMA CoveredStep ==
  ASSUME OneReceiver, TypeOK, Ends, Covered, [Next]_vars
  PROVE  Covered'
<1> USE DEF Go
<1>1. /\ list \in Seq(Blocks) /\ pc \in [Threads -> SenderLabels \cup ReceiverLabels]
      /\ blk \in [Threads -> BlockOrNull]
      /\ Senders \cap Receivers = {} /\ Senders \subseteq Threads /\ Receivers \subseteq Threads
  BY ArenaAssumption DEF TypeOK, Threads
<1>2. ASSUME NEW s \in Senders, NEW b \in Blocks, NEW m \in Messages, MessageInit(s, b, m)
      PROVE  Covered'
  <2>1. /\ pc[s] = "idle" /\ pc' = [pc EXCEPT ![s] = "writing"] /\ blk' = [blk EXCEPT ![s] = b]
        /\ free' = free \ {b} /\ UNCHANGED <<held, cancelled, list>>
    BY <1>2 DEF MessageInit
  <2>2. /\ s \in Drafts' /\ blk'[s] = b /\ InHand' = InHand
        /\ \A t \in Drafts : t \in Drafts' /\ blk'[t] = blk[t]
        /\ \A r \in InHand : blk'[r] = blk[r]
    BY <1>1, <2>1 DEF Drafts, InHand
  <2>3. QED
    BY <2>1, <2>2 DEF Covered, Gone
<1>3. ASSUME NEW s \in Senders, Cancel(s) PROVE Covered'
  <2>1. /\ pc[s] = "writing" /\ pc' = [pc EXCEPT ![s] = "idle"] /\ blk' = [blk EXCEPT ![s] = NULL]
        /\ cancelled' = cancelled \cup {blk[s]} /\ UNCHANGED <<free, held, list>>
    BY <1>3 DEF Cancel
  <2>2. /\ InHand' = InHand /\ \A t \in Drafts \ {s} : t \in Drafts' /\ blk'[t] = blk[t]
        /\ \A r \in InHand : blk'[r] = blk[r]
    BY <1>1, <2>1 DEF Drafts, InHand
  <2>3. QED
    BY <2>1, <2>2 DEF Covered, Gone
<1>4. ASSUME NEW s \in Senders, SendLink(s) PROVE Covered'
  <2>1. /\ pc[s] = "link" /\ pc' = [pc EXCEPT ![s] = "store"] /\ blk[s] \in Blocks
        /\ list' = Append(list, blk[s]) /\ UNCHANGED <<free, held, cancelled, blk>>
    BY <1>4 DEF SendLink, TypeOK
  <2>2. InHand' = InHand /\ Drafts' = Drafts \ {s}
    BY <1>1, <2>1 DEF Drafts, InHand
  <2>3. /\ Len(list) \in Nat /\ Len(list') = Len(list) + 1 /\ list'[Len(list) + 1] = blk[s]
        /\ \A i \in 1..Len(list) : list'[i] = list[i]
    BY <1>1, <2>1, AppendFacts, ListFacts
  <2>4. \A i \in 1..Len(list) : i \in 1..Len(list')
    BY <2>3
  <2>5. Len(list) + 1 \in 1..Len(list')
    BY <2>3
  <2>6. QED
    BY <2>1, <2>2, <2>3, <2>4, <2>5 DEF Covered, Gone
<1>5. ASSUME NEW r \in Receivers, RecvUnlink(r) PROVE Covered'
  <2>1. /\ pc[r] = "unlink" /\ pc' = [pc EXCEPT ![r] = "unlock"]
        /\ list # <<>> /\ blk[r] = list[1] /\ list' = Tail(list)
        /\ UNCHANGED <<free, held, cancelled, blk>>
    BY <1>5 DEF RecvUnlink, Ends
  <2>2. Drafts' = Drafts /\ r \in InHand' /\ InHand \subseteq InHand'
    BY <1>1, <2>1 DEF Drafts, InHand
  <2>3. \A i \in 1..Len(list) : i = 1 \/ (i - 1 \in 1..Len(list') /\ list'[i - 1] = list[i])
    <3>1. /\ Len(list) \in Nat /\ Len(list') = Len(list) - 1
          /\ \A j \in 1..Len(list) - 1 : list'[j] = list[j + 1]
      BY <1>1, <2>1, TailFacts, ListFacts
    <3>2. ASSUME NEW i \in 1..Len(list), i # 1
          PROVE  i - 1 \in 1..Len(list) - 1 /\ (i - 1) + 1 = i
      BY <3>1, <3>2
    <3>3. QED
      BY <3>1, <3>2
  <2>4. ASSUME NEW i \in 1..Len(list)
        PROVE  (\E j \in 1..Len(list') : list[i] = list'[j]) \/ \E q \in InHand' : list[i] = blk[q]
    BY <2>1, <2>2, <2>3
  <2>5. Gone' = Gone /\ \A q \in InHand : q \in InHand' /\ blk'[q] = blk[q]
    BY <2>1, <2>2 DEF Gone
  <2>6. ASSUME NEW b \in Blocks
        PROVE  \/ b \in Gone'
               \/ \E s \in Drafts' : b = blk'[s]
               \/ \E i \in 1..Len(list') : b = list'[i]
               \/ \E q \in InHand' : b = blk'[q]
    <3>1. CASE \E i \in 1..Len(list) : b = list[i]
      BY <2>1, <2>4, <3>1
    <3>2. CASE ~ \E i \in 1..Len(list) : b = list[i]
      BY <2>1, <2>2, <2>5, <3>2 DEF Covered
    <3>3. QED
      BY <3>1, <3>2
  <2>7. QED
    BY <2>6 DEF Covered
<1>6. ASSUME NEW r \in Receivers, RecvCount(r) PROVE Covered'
  <2>1. /\ pc[r] = "count" /\ pc' = [pc EXCEPT ![r] = "idle"] /\ held' = held \cup {blk[r]}
        /\ blk' = [blk EXCEPT ![r] = NULL] /\ UNCHANGED <<free, cancelled, list>>
    BY <1>6 DEF RecvCount
  <2>2. /\ Drafts' = Drafts /\ \A s \in Drafts : blk'[s] = blk[s]
        /\ \A q \in InHand : q = r
    BY <1>1, <2>1 DEF Drafts, InHand, OneReceiver
  <2>3. QED
    BY <2>1, <2>2 DEF Covered, Gone
<1>7. ASSUME NEW b \in Blocks, MessageRelease(b) PROVE Covered'
  BY <1>7 DEF Covered, Gone, Drafts, InHand, MessageRelease
<1>8. ASSUME NEW s \in Senders, SendLock(s) PROVE Covered'
  BY <1>1, <1>8 DEF Covered, Gone, Drafts, InHand, SendLock
<1>9. ASSUME NEW s \in Senders, SendStore(s) \/ SendCount(s) PROVE Covered'
  <2>1. /\ \A t \in Drafts : t \in Drafts' /\ blk'[t] = blk[t]
        /\ \A r \in InHand : r \in InHand' /\ blk'[r] = blk[r]
        /\ UNCHANGED <<free, held, cancelled, list>>
    BY <1>1, <1>9 DEF SendStore, SendCount, Drafts, InHand
  <2>2. QED
    BY <2>1 DEF Covered, Gone
<1>10. ASSUME NEW r \in Receivers, RecvCheck(r) \/ RecvPeek(r) \/ RecvLock(r) \/ RecvUnlock(r)
       PROVE  Covered'
  <2>1. /\ \A t \in Drafts : t \in Drafts' /\ blk'[t] = blk[t]
        /\ \A q \in InHand : q \in InHand' /\ blk'[q] = blk[q]
        /\ UNCHANGED <<free, held, cancelled, list>>
    BY <1>1, <1>10 DEF RecvCheck, RecvPeek, RecvLock, RecvUnlock, Drafts, InHand
  <2>2. QED
    BY <2>1 DEF Covered, Gone
<1>11. CASE UNCHANGED vars
  BY <1>11 DEF Covered, Gone, Drafts, InHand, vars
<1>12. QED
  BY <1>2, <1>3, <1>4, <1>5, <1>6, <1>7, <1>8, <1>9, <1>10, <1>11 DEF Next

ListInv == LockHeld /\ Linkage /\ Ends /\ Apart /\ Covered

LEMMA ListInvariance == OneReceiver => (Spec => [](TypeOK /\ ListInv))
<1> SUFFICES ASSUME OneReceiver PROVE Spec => [](TypeOK /\ ListInv)
  OBVIOUS
<1>1. Init => ListInv
  <2> SUFFICES ASSUME Init PROVE ListInv
    OBVIOUS
  <2>1. Drafts = {} /\ InHand = {} /\ list = <<>> /\ Len(list) = 0
    BY DEF Init, Drafts, InHand, Threads
  <2>2. LockHeld
    BY ArenaAssumption DEF Init, L!Init, LockHeld, Inside, Threads
  <2>3. Linkage /\ Ends
    BY <2>1 DEF Init, Linkage, Ends, LastOf, Threads
  <2>4. Apart /\ Covered
    BY <2>1 DEF Init, Apart, Covered, Gone
  <2>5. QED
    BY <2>2, <2>3, <2>4 DEF ListInv
<1>2. TypeOK /\ ListInv /\ [Next]_vars => ListInv'
  BY LockStep, LinkageStep, EndsStep, ApartStep, CoveredStep DEF ListInv
<1>3. QED
  BY <1>1, <1>2, Typing, PTL DEF Spec

\* With one receiver, the pointers in shared memory spell the messages in the
\* order in which they were linked (transport_shm.c:290, 338).
THEOREM Spelled == OneReceiver => (Spec => []ListSpelled)
<1> SUFFICES ASSUME OneReceiver PROVE Spec => []ListSpelled
  OBVIOUS
<1>1. TypeOK /\ ListInv => ListSpelled
  <2> SUFFICES ASSUME TypeOK, ListInv PROVE ListSpelled
    OBVIOUS
  <2>1. list \in Seq(Blocks) /\ DOMAIN list = 1..Len(list)
    BY DEF TypeOK
  <2>2. list # <<>> => Head(list) = list[1]
    BY <2>1, TailFacts
  <2>3. lock = NoThread => last = LastOf(list)
    BY ArenaAssumption DEF ListInv, LockHeld, Ends, Inside, Threads
  <2>4. QED
    BY <2>1, <2>2, <2>3 DEF ListInv, Linkage, ListSpelled, LastOf
<1>2. QED
  BY <1>1, ListInvariance, PTL

-----------------------------------------------------------------------------
(* Counting. *)

\* A function that tells the elements of a finite set apart keeps their number.
LEMMA ImageCount ==
  ASSUME NEW S, IsFiniteSet(S), NEW f, \A x, y \in S : f[x] = f[y] => x = y
  PROVE  /\ IsFiniteSet({f[x] : x \in S})
         /\ Cardinality({f[x] : x \in S}) = Cardinality(S)
<1> DEFINE T == {f[x] : x \in S}
           g == [x \in S |-> f[x]]
<1>1. g \in [S -> T] /\ \A x \in S : g[x] = f[x]
  OBVIOUS
<1>2. (\A x, y \in S : g[x] = g[y] => x = y) /\ (\A t \in T : \E x \in S : g[x] = t)
  OBVIOUS
<1> HIDE DEF g
<1>3. g \in Bijection(S, T)
  BY <1>1, <1>2 DEF Bijection, Injection, IsInjective, Surjection
<1>4. ExistsBijection(S, T)
  BY <1>3 DEF ExistsBijection
<1>5. QED
  BY <1>4, FS_Bijection

LEMMA DisjointCount ==
  ASSUME NEW S, NEW T, IsFiniteSet(S), IsFiniteSet(T), S \cap T = {}
  PROVE  /\ IsFiniteSet(S \cup T)
         /\ Cardinality(S \cup T) = Cardinality(S) + Cardinality(T)
<1>1. Cardinality(S) \in Nat /\ Cardinality(T) \in Nat
  BY FS_CardinalityType
<1>2. QED
  BY <1>1, FS_Union, FS_EmptySet

\* The places of a block are disjoint, and together all blocks.
LEMMA Placed ==
  ASSUME OneReceiver, TypeOK, ListInv
  PROVE  BlocksOwnedOnce
<1> DEFINE D == {blk[s] : s \in Drafts}
           H == {blk[r] : r \in InHand}
<1>1. /\ list \in Seq(Blocks) /\ DOMAIN list = 1..Len(list) /\ Len(list) \in Nat
      /\ free \subseteq Blocks /\ held \subseteq Blocks /\ cancelled \subseteq Blocks
  BY DEF TypeOK
<1>2. D \subseteq Blocks /\ H \subseteq Blocks /\ Linked \subseteq Blocks
  BY <1>1, ListFacts DEF TypeOK, Drafts, InHand, Linked
<1>3. Blocks = free \cup D \cup Linked \cup H \cup held \cup cancelled
  BY <1>1, <1>2 DEF ListInv, Covered, Gone, Linked
<1>4. /\ free \cap held = {} /\ free \cap cancelled = {} /\ held \cap cancelled = {}
      /\ D \cap free = {} /\ D \cap held = {} /\ D \cap cancelled = {}
      /\ Linked \cap free = {} /\ Linked \cap held = {} /\ Linked \cap cancelled = {}
      /\ H \cap free = {} /\ H \cap held = {} /\ H \cap cancelled = {}
      /\ Linked \cap D = {} /\ H \cap D = {} /\ H \cap Linked = {}
  BY <1>1 DEF ListInv, Apart, Gone, Linked
<1>5. IsFiniteSet(D) /\ Cardinality(D) = Cardinality(Drafts)
  <2>1. IsFiniteSet(Drafts)
    BY ArenaAssumption, FS_Subset DEF Drafts
  <2>2. \A s, t \in Drafts : blk[s] = blk[t] => s = t
    BY DEF ListInv, Apart
  <2>3. QED
    BY <2>1, <2>2, ImageCount
<1>6. IsFiniteSet(H) /\ Cardinality(H) = Cardinality(InHand)
  <2>1. IsFiniteSet(InHand)
    BY ArenaAssumption, FS_Subset DEF InHand
  <2>2. \A q, r \in InHand : blk[q] = blk[r] => q = r
    BY DEF OneReceiver, InHand
  <2>3. QED
    BY <2>1, <2>2, ImageCount
<1>7. IsFiniteSet(Linked) /\ Cardinality(Linked) = Len(list)
  <2>1. IsFiniteSet(1..Len(list)) /\ Cardinality(1..Len(list)) = Len(list)
    BY <1>1, FS_Interval
  <2>2. \A i, j \in 1..Len(list) : list[i] = list[j] => i = j
    BY DEF ListInv, Apart
  <2>3. QED
    BY <1>1, <2>1, <2>2, ImageCount DEF Linked
<1>8. IsFiniteSet(free) /\ IsFiniteSet(held) /\ IsFiniteSet(cancelled)
  BY <1>1, ArenaAssumption, FS_Subset
<1> HIDE DEF D, H
<1>9. QED
  <2>1. IsFiniteSet(free \cup D) /\ Cardinality(free \cup D) = Cardinality(free) + Cardinality(D)
    BY <1>4, <1>5, <1>8, DisjointCount
  <2>2. /\ IsFiniteSet(free \cup D \cup Linked)
        /\ Cardinality(free \cup D \cup Linked) = Cardinality(free \cup D) + Cardinality(Linked)
    BY <1>4, <1>7, <2>1, DisjointCount
  <2>3. /\ IsFiniteSet(free \cup D \cup Linked \cup H)
        /\ Cardinality(free \cup D \cup Linked \cup H) = Cardinality(free \cup D \cup Linked) + Cardinality(H)
    BY <1>4, <1>6, <2>2, DisjointCount
  <2>4. /\ IsFiniteSet(free \cup D \cup Linked \cup H \cup held)
        /\ Cardinality(free \cup D \cup Linked \cup H \cup held)
             = Cardinality(free \cup D \cup Linked \cup H) + Cardinality(held)
    BY <1>4, <1>8, <2>3, DisjointCount
  <2>5. Cardinality(Blocks)
          = Cardinality(free \cup D \cup Linked \cup H \cup held) + Cardinality(cancelled)
    BY <1>3, <1>4, <1>8, <2>4, DisjointCount
  <2>6. Cardinality(Blocks) = Cardinality(free) + Cardinality(D) + Len(list)
                                + Cardinality(H) + Cardinality(held) + Cardinality(cancelled)
    BY <1>7, <2>1, <2>2, <2>3, <2>4, <2>5
  <2>7. Blocks = UNION {free, D, Linked, H, held, cancelled}
    BY <1>3
  <2>8. QED
    BY <1>5, <1>6, <2>6, <2>7 DEF BlocksOwnedOnce, D, H

\* With one receiver, no block is in two places or lost, except with a
\* cancelled writer (transport_shm.c:251, 351, 369).
THEOREM OwnedOnce == OneReceiver => (Spec => []BlocksOwnedOnce)
<1> SUFFICES ASSUME OneReceiver PROVE Spec => []BlocksOwnedOnce
  OBVIOUS
<1>1. TypeOK /\ ListInv => BlocksOwnedOnce
  BY Placed
<1>2. QED
  BY <1>1, ListInvariance, PTL

\* The list, with the block in hand, fits the counter.
LEMMA ListBounded ==
  ASSUME OneReceiver, TypeOK, ListInv
  PROVE  /\ Len(list) \in Nat /\ Cardinality(InHand) \in Nat /\ Cardinality(Uncounted) \in Nat
         /\ IsFiniteSet(InHand) /\ IsFiniteSet(Uncounted)
         /\ Len(list) + Cardinality(InHand) <= CountMax
<1>1. Len(list) \in Nat
  BY DEF TypeOK
<1>2. /\ IsFiniteSet(free) /\ IsFiniteSet(held) /\ IsFiniteSet(cancelled) /\ IsFiniteSet(Drafts)
      /\ IsFiniteSet(InHand) /\ IsFiniteSet(Uncounted) /\ IsFiniteSet(Blocks)
  BY ArenaAssumption, FS_Subset DEF TypeOK, Drafts, InHand, Uncounted
<1>3. /\ Cardinality(free) \in Nat /\ Cardinality(held) \in Nat /\ Cardinality(cancelled) \in Nat
      /\ Cardinality(Drafts) \in Nat /\ Cardinality(InHand) \in Nat
      /\ Cardinality(Uncounted) \in Nat /\ Cardinality(Blocks) \in Nat
  BY <1>2, FS_CardinalityType
<1>4. Len(list) + Cardinality(InHand) <= Cardinality(Blocks)
  BY <1>1, <1>3, Placed DEF BlocksOwnedOnce
<1>5. QED
  BY <1>1, <1>2, <1>3, <1>4, ArenaAssumption

\* The counter tracks the list, and stays above zero from the receiver's look
\* at it until the receiver itself decrements it: only the receiver does.
CountInv ==
  /\ CountTracksList
  /\ \A r \in Receivers : pc[r] \in {"peek", "lock", "unlink", "unlock", "count"} => num > 0
  /\ NoAbort

LEMMA CountStep ==
  ASSUME OneReceiver, TypeOK, ListInv, CountInv, [Next]_vars
  PROVE  CountInv'
<1> USE DEF Go
<1>1. /\ list \in Seq(Blocks) /\ pc \in [Threads -> SenderLabels \cup ReceiverLabels]
      /\ num \in Nat /\ CountMax \in Nat
      /\ Senders \cap Receivers = {} /\ Senders \subseteq Threads /\ Receivers \subseteq Threads
  BY ArenaAssumption DEF TypeOK, Threads
<1>2. /\ Len(list) \in Nat /\ Cardinality(InHand) \in Nat /\ Cardinality(Uncounted) \in Nat
      /\ IsFiniteSet(InHand) /\ IsFiniteSet(Uncounted)
      /\ Len(list) + Cardinality(InHand) <= CountMax
  BY ListBounded
<1>3. num + Cardinality(Uncounted) = Len(list) + Cardinality(InHand)
  BY DEF CountInv, CountTracksList
\* What most steps leave alone.
<1>4. ASSUME num' = num, list' = list, Uncounted' = Uncounted, InHand' = InHand
      PROVE  CountTracksList'
  BY <1>3, <1>4 DEF CountTracksList
<1>5. ASSUME NEW s \in Senders, SendLink(s) PROVE CountInv'
  <2>1. /\ pc[s] = "link" /\ pc' = [pc EXCEPT ![s] = "store"] /\ num' = num
        /\ list' = Append(list, blk[s]) /\ blk[s] \in Blocks
    BY <1>5 DEF SendLink, TypeOK
  <2>2. s \notin Uncounted /\ Uncounted' = Uncounted \cup {s} /\ InHand' = InHand
    BY <1>1, <2>1 DEF Uncounted, InHand
  <2>3. Cardinality(Uncounted') = Cardinality(Uncounted) + 1
    BY <1>2, <2>2, FS_AddElement
  <2>4. Len(list') = Len(list) + 1 /\ num' = num
    BY <1>1, <2>1, AppendFacts
  <2>5. CountTracksList'
    BY <1>1, <1>2, <1>3, <2>2, <2>3, <2>4 DEF CountTracksList
  <2>6. QED
    BY <1>1, <2>1, <2>5 DEF CountInv, NoAbort
<1>6. ASSUME NEW s \in Senders, SendCount(s) PROVE CountInv'
  <2>1. pc[s] = "count" /\ pc' = [pc EXCEPT ![s] = "idle"] /\ list' = list
    BY <1>6 DEF SendCount
  <2>2. s \in Uncounted /\ Uncounted' = Uncounted \ {s} /\ InHand' = InHand
    BY <1>1, <2>1 DEF Uncounted, InHand
  <2>3. Cardinality(Uncounted') = Cardinality(Uncounted) - 1
    BY <1>2, <2>2, FS_RemoveElement
  <2>4. Cardinality(Uncounted) >= 1
    BY <1>2, <2>2, FS_EmptySet
  <2>5. num' = num + 1
    BY <1>1, <1>2, <1>3, <1>6, <2>4 DEF SendCount, Incremented
  <2>6. CountTracksList'
    BY <1>1, <1>2, <1>3, <2>1, <2>2, <2>3, <2>5 DEF CountTracksList
  <2>7. QED
    BY <1>1, <2>1, <2>5, <2>6 DEF CountInv, NoAbort
<1>7. ASSUME NEW r \in Receivers, RecvCheck(r) PROVE CountInv'
  <2>1. pc[r] = "idle" /\ pc' = [pc EXCEPT ![r] = "peek"] /\ num # 0 /\ UNCHANGED <<num, list>>
    BY <1>7 DEF RecvCheck, shared
  <2>2. Uncounted' = Uncounted /\ InHand' = InHand
    BY <1>1, <2>1 DEF Uncounted, InHand
  <2>3. QED
    BY <1>1, <1>4, <2>1, <2>2 DEF CountInv, NoAbort
<1>8. ASSUME NEW r \in Receivers, RecvPeek(r) PROVE CountInv'
  <2>1. /\ pc[r] = "peek" /\ UNCHANGED <<num, list>>
        /\ pc' = [pc EXCEPT ![r] = IF first = NULL THEN "aborted" ELSE "lock"]
    BY <1>8 DEF RecvPeek, shared
  <2>2. InHand = {}
    BY <2>1 DEF OneReceiver, InHand
  <2>3. Cardinality(InHand) = 0
    BY <2>2, FS_EmptySet
  <2>4. num > 0
    BY <2>1 DEF CountInv
  <2>5. Len(list) > 0
    BY <1>1, <1>2, <1>3, <2>3, <2>4
  <2>6. list # <<>> /\ list[1] \in Blocks
    BY <1>1, <2>5, ListFacts
  <2>7. first # NULL
    BY <2>6, ArenaAssumption DEF ListInv, Linkage
  <2>8. pc' = [pc EXCEPT ![r] = "lock"]
    BY <2>1, <2>7
  <2>9. Uncounted' = Uncounted /\ InHand' = InHand
    BY <1>1, <2>1, <2>8 DEF Uncounted, InHand
  <2>10. QED
    BY <1>1, <1>4, <2>1, <2>8, <2>9 DEF CountInv, NoAbort
<1>9. ASSUME NEW r \in Receivers, RecvUnlink(r) PROVE CountInv'
  <2>1. /\ pc[r] = "unlink" /\ pc' = [pc EXCEPT ![r] = "unlock"] /\ num' = num
        /\ list # <<>> /\ list' = Tail(list)
    BY <1>9 DEF RecvUnlink, ListInv, Ends
  <2>2. r \notin InHand /\ Uncounted' = Uncounted /\ InHand' = InHand \cup {r}
    BY <1>1, <2>1 DEF Uncounted, InHand
  <2>3. Cardinality(InHand') = Cardinality(InHand) + 1
    BY <1>2, <2>2, FS_AddElement
  <2>4. Len(list') = Len(list) - 1
    BY <1>1, <2>1, TailFacts
  <2>5. CountTracksList'
    BY <1>1, <1>2, <1>3, <2>1, <2>2, <2>3, <2>4 DEF CountTracksList
  <2>6. QED
    BY <1>1, <2>1, <2>5 DEF CountInv, NoAbort
<1>10. ASSUME NEW r \in Receivers, RecvCount(r) PROVE CountInv'
  <2>1. pc[r] = "count" /\ pc' = [pc EXCEPT ![r] = "idle"] /\ list' = list
    BY <1>10 DEF RecvCount
  <2>2. r \in InHand /\ Uncounted' = Uncounted /\ InHand' = InHand \ {r}
    BY <1>1, <2>1 DEF Uncounted, InHand
  <2>3. Cardinality(InHand') = Cardinality(InHand) - 1
    BY <1>2, <2>2, FS_RemoveElement
  <2>4. num > 0
    BY <2>1 DEF CountInv
  <2>5. num' = num - 1
    BY <1>1, <1>10, <2>4 DEF RecvCount, Decremented
  <2>6. CountTracksList'
    BY <1>1, <1>2, <1>3, <2>1, <2>2, <2>3, <2>5 DEF CountTracksList
  <2>7. \A q \in Receivers : pc'[q] = "idle"
    BY <1>1, <2>1 DEF OneReceiver
  <2>8. QED
    BY <2>6, <2>7 DEF CountInv, NoAbort
<1>11. ASSUME NEW s \in Senders,
              \/ \E b \in Blocks, m \in Messages : MessageInit(s, b, m)
              \/ Cancel(s) \/ SendLock(s) \/ SendStore(s)
       PROVE  CountInv'
  <2>1. PICK to \in {"writing", "idle", "link", "count"} :
          /\ pc' = [pc EXCEPT ![s] = to]
          /\ (pc[s] = "store") <=> (to = "count")
          /\ pc[s] # "count" /\ UNCHANGED <<num, list>>
    BY <1>11 DEF MessageInit, Cancel, SendLock, SendStore, shared
  <2>2. Uncounted' = Uncounted /\ InHand' = InHand
    BY <1>1, <2>1 DEF Uncounted, InHand
  <2>3. QED
    BY <1>1, <1>4, <2>1, <2>2 DEF CountInv, NoAbort
<1>12. ASSUME NEW r \in Receivers, RecvLock(r) \/ RecvUnlock(r) PROVE CountInv'
  <2>1. /\ UNCHANGED <<num, list>>
        /\ \/ pc[r] = "lock" /\ pc' = [pc EXCEPT ![r] = "unlink"]
           \/ pc[r] = "unlock" /\ pc' = [pc EXCEPT ![r] = "count"]
    BY <1>12 DEF RecvLock, RecvUnlock, shared
  <2>2. Uncounted' = Uncounted /\ InHand' = InHand
    BY <1>1, <2>1 DEF Uncounted, InHand
  <2>3. QED
    BY <1>1, <1>4, <2>1, <2>2 DEF CountInv, NoAbort
<1>13. ASSUME (\E b \in Blocks : MessageRelease(b)) \/ UNCHANGED vars PROVE CountInv'
  <2>1. UNCHANGED <<num, list, pc>>
    BY <1>13 DEF MessageRelease, shared, vars
  <2>2. Uncounted' = Uncounted /\ InHand' = InHand
    BY <2>1 DEF Uncounted, InHand
  <2>3. QED
    BY <1>4, <2>1, <2>2 DEF CountInv, NoAbort
<1>14. QED
  BY <1>5, <1>6, <1>7, <1>8, <1>9, <1>10, <1>11, <1>12, <1>13 DEF Next

LEMMA CountInvariance == OneReceiver => (Spec => []CountInv)
<1> SUFFICES ASSUME OneReceiver PROVE Spec => []CountInv
  OBVIOUS
<1>1. Init => CountInv
  <2> SUFFICES ASSUME Init PROVE CountInv
    OBVIOUS
  <2>1. Uncounted = {} /\ InHand = {} /\ Len(list) = 0 /\ num = 0
    BY DEF Init, Uncounted, InHand, Threads
  <2>2. CountTracksList
    BY <2>1, FS_EmptySet DEF CountTracksList
  <2>3. QED
    BY <2>2 DEF Init, CountInv, NoAbort, Threads
<1>2. TypeOK /\ ListInv /\ CountInv /\ [Next]_vars => CountInv'
  BY CountStep
<1>3. QED
  BY <1>1, <1>2, ListInvariance, PTL DEF Spec

\* With one receiver, the counter is off from the list by exactly the threads
\* between their change of the list and their change of it, and never wraps
\* (transport_shm.c:308, 346).
THEOREM Counted == OneReceiver => (Spec => []CountTracksList)
<1> SUFFICES ASSUME OneReceiver PROVE Spec => []CountTracksList
  OBVIOUS
<1>1. CountInv => CountTracksList
  BY DEF CountInv
<1>2. QED
  BY <1>1, CountInvariance, PTL

\* One receiver never fails its assertion, although it reads the counter and
\* the head of the list without the lock (transport_shm.c:325-332).
THEOREM NeverAborts == OneReceiver => (Spec => []NoAbort)
<1> SUFFICES ASSUME OneReceiver PROVE Spec => []NoAbort
  OBVIOUS
<1>1. CountInv => NoAbort
  BY DEF CountInv
<1>2. QED
  BY <1>1, CountInvariance, PTL

-----------------------------------------------------------------------------
(* The arena is a message channel. *)

Spells(l, f) == [i \in DOMAIN l |-> f[l[i]]]

\* Reading a list of blocks through what they carry.
LEMMA SpellsFacts ==
  ASSUME NEW l \in Seq(Blocks), NEW f \in [Blocks -> Messages]
  PROVE  /\ Spells(l, f) \in Seq(Messages)
         /\ Len(Spells(l, f)) = Len(l)
         /\ \A i \in 1..Len(l) : Spells(l, f)[i] = f[l[i]]
<1>1. Len(l) \in Nat /\ DOMAIN l = 1..Len(l) /\ \A i \in 1..Len(l) : f[l[i]] \in Messages
  BY ListFacts
<1>2. QED
  BY <1>1 DEF Spells

LEMMA SpellsAppend ==
  ASSUME NEW l \in Seq(Blocks), NEW f \in [Blocks -> Messages], NEW b \in Blocks
  PROVE  Spells(Append(l, b), f) = Append(Spells(l, f), f[b])
<1> DEFINE p == Spells(Append(l, b), f)
           q == Append(Spells(l, f), f[b])
<1>1. Append(l, b) \in Seq(Blocks) /\ f[b] \in Messages /\ Len(l) \in Nat
  BY AppendFacts
<1>2. p \in Seq(Messages) /\ Len(p) = Len(l) + 1
  BY <1>1, AppendFacts, SpellsFacts
<1>3. q \in Seq(Messages) /\ Len(q) = Len(l) + 1
  BY <1>1, SpellsFacts
<1>4. /\ \A i \in 1..Len(l) + 1 : p[i] = f[Append(l, b)[i]]
      /\ \A i \in 1..Len(l) : q[i] = f[l[i]]
      /\ q[Len(l) + 1] = f[b]
  <2>1. Len(Append(l, b)) = Len(l) + 1
    BY AppendFacts
  <2>2. Spells(l, f) \in Seq(Messages) /\ Len(Spells(l, f)) = Len(l)
    BY SpellsFacts
  <2>3. \A i \in 1..Len(l) : q[i] = Spells(l, f)[i]
    BY <1>1, <2>2
  <2>4. \A i \in 1..Len(l) + 1 : p[i] = f[Append(l, b)[i]]
    BY <1>1, <2>1, SpellsFacts
  <2>5. q[Len(l) + 1] = f[b]
    BY <1>1, <2>2
  <2>6. QED
    BY <2>2, <2>3, <2>4, <2>5, SpellsFacts
<1> HIDE DEF p, q
<1>5. ASSUME NEW i \in 1..Len(l) + 1 PROVE p[i] = q[i]
  BY <1>1, <1>4, AppendFacts
<1>6. p = q
  BY <1>2, <1>3, <1>5, SeqEqual
<1>7. QED
  BY <1>6 DEF p, q

LEMMA SpellsTail ==
  ASSUME NEW l \in Seq(Blocks), NEW f \in [Blocks -> Messages], l # <<>>
  PROVE  /\ Spells(l, f) # <<>> /\ Head(Spells(l, f)) = f[l[1]]
         /\ Spells(Tail(l), f) = Tail(Spells(l, f))
<1> DEFINE s == Spells(l, f)
           p == Spells(Tail(l), f)
<1>1. s \in Seq(Messages) /\ Len(s) = Len(l) /\ Len(l) \in Nat /\ Len(l) >= 1
  BY SpellsFacts, TailFacts
<1>2. s # <<>> /\ s[1] = f[l[1]] /\ Head(s) = s[1]
  BY <1>1, SpellsFacts
<1>3. Tail(l) \in Seq(Blocks) /\ Len(Tail(l)) = Len(l) - 1
  BY TailFacts
<1>4. p \in Seq(Messages) /\ Len(p) = Len(l) - 1
  BY <1>3, SpellsFacts
<1>5. Tail(s) \in Seq(Messages) /\ Len(Tail(s)) = Len(l) - 1
  BY <1>1, <1>2
<1>6. ASSUME NEW i \in 1..Len(l) - 1 PROVE p[i] = Tail(s)[i]
  <2>1. p[i] = f[Tail(l)[i]] /\ Tail(l)[i] = l[i + 1]
    <3>1. i \in 1..Len(Tail(l)) /\ Tail(l)[i] = l[i + 1]
      BY <1>3, TailFacts
    <3>2. p[i] = f[Tail(l)[i]]
      BY <1>3, <3>1, SpellsFacts
    <3>3. QED
      BY <3>1, <3>2
  <2>2. i + 1 \in 1..Len(l) /\ s[i + 1] = f[l[i + 1]]
    BY <1>1, SpellsFacts
  <2>3. Tail(s)[i] = s[i + 1]
    BY <1>1, <1>2
  <2>4. QED
    BY <2>1, <2>2, <2>3
<1> HIDE DEF p, s
<1>7. p = Tail(s)
  BY <1>4, <1>5, <1>6, SeqEqual
<1>8. QED
  BY <1>2, <1>7 DEF p, s

\* Blocks in use carry different messages.
Distinct == \A b, c \in Blocks \ free : body[b] = body[c] => b = c

LEMMA DistinctStep ==
  ASSUME TypeOK, Distinct, [Next]_vars
  PROVE  Distinct'
<1>1. body \in [Blocks -> Messages] /\ free \subseteq Blocks /\ held \subseteq Blocks
  BY DEF TypeOK
<1>2. ASSUME NEW s \in Senders, NEW b \in Blocks, NEW m \in Messages, MessageInit(s, b, m)
      PROVE  Distinct'
  BY <1>1, <1>2 DEF Distinct, MessageInit
<1>3. ASSUME NEW b \in Blocks, MessageRelease(b) PROVE Distinct'
  BY <1>1, <1>3 DEF Distinct, MessageRelease
<1>4. ASSUME NEW s \in Senders,
             Cancel(s) \/ SendLock(s) \/ SendLink(s) \/ SendStore(s) \/ SendCount(s)
      PROVE  UNCHANGED <<body, free>>
  BY <1>4 DEF Cancel, SendLock, SendLink, SendStore, SendCount
<1>5. ASSUME NEW r \in Receivers,
             \/ RecvCheck(r) \/ RecvPeek(r) \/ RecvLock(r)
             \/ RecvUnlink(r) \/ RecvUnlock(r) \/ RecvCount(r)
      PROVE  UNCHANGED <<body, free>>
  BY <1>5 DEF RecvCheck, RecvPeek, RecvLock, RecvUnlink, RecvUnlock, RecvCount
<1>6. ASSUME UNCHANGED <<body, free>> PROVE Distinct'
  BY <1>6 DEF Distinct
<1>7. UNCHANGED vars => UNCHANGED <<body, free>>
  BY DEF vars
<1>8. QED
  BY <1>2, <1>3, <1>4, <1>5, <1>6, <1>7 DEF Next

LEMMA DistinctInvariance == Spec => []Distinct
<1>1. Init => Distinct
  BY DEF Init, Distinct
<1>2. TypeOK /\ Distinct /\ [Next]_vars => Distinct'
  BY DistinctStep
<1>3. QED
  BY <1>1, <1>2, Typing, PTL DEF Spec

\* What the mapping calls queue and held.
Queue == Spells(list, body)
Taken == held \cup {blk[r] : r \in InHand}
Carried == {body[b] : b \in Taken}

LEMMA ChannelStep ==
  ASSUME OneReceiver, TypeOK, ListInv, Distinct, [Next]_vars
  PROVE  C!Next \/ UNCHANGED <<Queue, Carried>>
<1> USE DEF Go
<1>1. /\ list \in Seq(Blocks) /\ DOMAIN list = 1..Len(list) /\ body \in [Blocks -> Messages]
      /\ pc \in [Threads -> SenderLabels \cup ReceiverLabels] /\ blk \in [Threads -> BlockOrNull]
      /\ free \subseteq Blocks /\ held \subseteq Blocks
      /\ Senders \cap Receivers = {} /\ Senders \subseteq Threads /\ Receivers \subseteq Threads
  BY ArenaAssumption DEF TypeOK, Threads
<1>2. \A i \in 1..Len(list) : list[i] \in Blocks \ free
  BY <1>1, ListFacts DEF ListInv, Apart, Gone
<1>3. Taken \subseteq Blocks \ free
  BY <1>1 DEF Taken, ListInv, Apart, Gone, InHand, TypeOK
<1>4. /\ C!Init = (Queue = <<>> /\ Carried = {})
      /\ C!Queued = {Queue[i] : i \in DOMAIN Queue}
      /\ C!Next = \/ /\ Queue # <<>> /\ Queue' = Tail(Queue)
                     /\ Carried' = Carried \cup {Head(Queue)}
                  \/ \E m \in Messages :
                       \/ /\ m \notin C!Queued \cup Carried
                          /\ Queue' = Append(Queue, m) /\ Carried' = Carried
                       \/ /\ m \in Carried /\ Carried' = Carried \ {m} /\ Queue' = Queue
  BY DEF C!Init, C!Queued, C!Next, C!Send, C!Receive, C!Release, Queue, Carried, Taken, Spells
\* Steps that the channel does not see.
<1>5. ASSUME body' = body, list' = list, held' = held, InHand' = InHand,
             \A r \in InHand : blk'[r] = blk[r]
      PROVE  UNCHANGED <<Queue, Carried>>
  <2>1. Queue' = Queue
    BY <1>5 DEF Queue
  <2>2. Taken' = Taken
    BY <1>5 DEF Taken
  <2>3. QED
    BY <1>5, <2>1, <2>2 DEF Carried
<1>6. ASSUME NEW s \in Senders, NEW b \in Blocks, NEW m \in Messages, MessageInit(s, b, m)
      PROVE  UNCHANGED <<Queue, Carried>>
  <2>1. /\ b \in free /\ body' = [body EXCEPT ![b] = m] /\ list' = list /\ held' = held
        /\ pc[s] = "idle" /\ pc' = [pc EXCEPT ![s] = "writing"] /\ blk' = [blk EXCEPT ![s] = b]
    BY <1>6 DEF MessageInit
  <2>2. InHand' = InHand /\ \A r \in InHand : blk'[r] = blk[r]
    BY <1>1, <2>1 DEF InHand
  <2>3. \A c \in Blocks \ free : body'[c] = body[c]
    BY <1>1, <2>1
  <2>4. Queue' = Queue
    BY <1>1, <1>2, <2>1, <2>3 DEF Queue, Spells
  <2>5. Taken' = Taken
    BY <2>1, <2>2 DEF Taken
  <2>6. QED
    BY <1>3, <2>3, <2>4, <2>5 DEF Carried
<1>7. ASSUME NEW s \in Senders, SendLink(s) PROVE C!Next
  <2>1. /\ pc[s] = "link" /\ pc' = [pc EXCEPT ![s] = "store"] /\ blk[s] \in Blocks
        /\ list' = Append(list, blk[s]) /\ UNCHANGED <<body, held, blk>>
    BY <1>7 DEF SendLink, TypeOK
  <2>2. s \in Drafts /\ InHand' = InHand
    BY <1>1, <2>1 DEF Drafts, InHand
  <2>3. /\ blk[s] \in Blocks \ free /\ \A i \in 1..Len(list) : list[i] # blk[s]
        /\ blk[s] \notin Taken
    BY <2>1, <2>2 DEF ListInv, Apart, Gone, Taken
  <2>4. body[blk[s]] \in Messages /\ Queue' = Append(Queue, body[blk[s]])
    BY <1>1, <2>1, SpellsAppend DEF Queue
  <2>5. Carried' = Carried
    BY <2>1, <2>2 DEF Carried, Taken
  <2>6. body[blk[s]] \notin Carried
    BY <1>3, <2>3 DEF Distinct, Carried
  <2>7. body[blk[s]] \notin C!Queued
    BY <1>1, <1>2, <1>4, <2>3 DEF Distinct, Queue, Spells
  <2>8. QED
    BY <1>4, <2>4, <2>5, <2>6, <2>7
<1>8. ASSUME NEW r \in Receivers, RecvUnlink(r) PROVE C!Next
  <2>1. /\ pc[r] = "unlink" /\ pc' = [pc EXCEPT ![r] = "unlock"]
        /\ list # <<>> /\ blk[r] = list[1] /\ list' = Tail(list)
        /\ UNCHANGED <<body, held, blk>>
    BY <1>8 DEF RecvUnlink, ListInv, Ends
  <2>2. Queue # <<>> /\ Queue' = Tail(Queue) /\ Head(Queue) = body[blk[r]]
    BY <1>1, <2>1, SpellsTail DEF Queue
  <2>3. InHand' = InHand \cup {r}
    BY <1>1, <2>1 DEF InHand
  <2>4. Taken' = Taken \cup {blk[r]}
    BY <2>1, <2>3 DEF Taken
  <2>5. Carried' = Carried \cup {Head(Queue)}
    BY <2>1, <2>2, <2>4 DEF Carried
  <2>6. QED
    BY <1>4, <2>2, <2>5
<1>9. ASSUME NEW r \in Receivers, RecvCount(r) PROVE UNCHANGED <<Queue, Carried>>
  <2>1. /\ pc[r] = "count" /\ pc' = [pc EXCEPT ![r] = "idle"] /\ held' = held \cup {blk[r]}
        /\ UNCHANGED <<body, list>>
    BY <1>9 DEF RecvCount
  <2>2. InHand = {r} /\ InHand' = {}
    BY <1>1, <2>1 DEF OneReceiver, InHand
  <2>3. Taken' = Taken
    BY <2>1, <2>2 DEF Taken
  <2>4. QED
    BY <2>1, <2>3 DEF Queue, Carried
<1>10. ASSUME NEW b \in Blocks, MessageRelease(b) PROVE C!Next
  <2>1. b \in held /\ held' = held \ {b} /\ UNCHANGED <<body, list, pc, blk>>
    BY <1>10 DEF MessageRelease
  <2>2. \A r \in InHand : blk[r] # b
    BY <2>1 DEF ListInv, Apart, Gone
  <2>3. b \in Taken /\ Taken' = Taken \ {b}
    BY <2>1, <2>2 DEF Taken, InHand
  <2>4. \A c \in Taken : body[c] = body[b] => c = b
    BY <1>3, <2>3 DEF Distinct
  <2>5. body[b] \in Carried /\ Carried' = Carried \ {body[b]}
    BY <2>1, <2>3, <2>4 DEF Carried
  <2>6. Queue' = Queue /\ body[b] \in Messages
    BY <1>1, <2>1 DEF Queue
  <2>7. QED
    BY <1>4, <2>5, <2>6
<1>11. ASSUME NEW s \in Senders, Cancel(s) \/ SendLock(s) \/ SendStore(s) \/ SendCount(s)
       PROVE  UNCHANGED <<Queue, Carried>>
  <2>1. /\ UNCHANGED <<body, list, held>> /\ InHand' = InHand
        /\ \A r \in InHand : blk'[r] = blk[r]
    BY <1>1, <1>11 DEF Cancel, SendLock, SendStore, SendCount, InHand
  <2>2. QED
    BY <1>5, <2>1
<1>12. ASSUME NEW r \in Receivers, RecvCheck(r) \/ RecvPeek(r) \/ RecvLock(r) \/ RecvUnlock(r)
       PROVE  UNCHANGED <<Queue, Carried>>
  <2>1. /\ UNCHANGED <<body, list, held>> /\ InHand' = InHand
        /\ \A q \in InHand : blk'[q] = blk[q]
    BY <1>1, <1>12 DEF RecvCheck, RecvPeek, RecvLock, RecvUnlock, InHand
  <2>2. QED
    BY <1>5, <2>1
<1>13. CASE UNCHANGED vars
  BY <1>5, <1>13 DEF vars, InHand
<1>14. QED
  BY <1>6, <1>7, <1>8, <1>9, <1>10, <1>11, <1>12, <1>13 DEF Next

\* With one receiver the arena implements the message channel: what is
\* received is what was sent, once each and in the order in which the messages
\* were linked, whatever steps the threads take meanwhile.
THEOREM Implements == OneReceiver => (Spec => Refinement)
<1> SUFFICES ASSUME OneReceiver PROVE Spec => Refinement
  OBVIOUS
<1>1. Init => C!Init
  <2> SUFFICES ASSUME Init PROVE C!Init
    OBVIOUS
  <2>1. list = <<>> /\ held = {} /\ InHand = {}
    BY DEF Init, InHand, Threads
  <2>2. [i \in DOMAIN list |-> body[list[i]]] = <<>>
    BY <2>1
  <2>3. QED
    BY <2>1, <2>2 DEF C!Init
<1>2. TypeOK /\ ListInv /\ Distinct /\ [Next]_vars => [C!Next]_<<Queue, Carried>>
  BY ChannelStep
<1>3. (C!Next \/ UNCHANGED <<Queue, Carried>>) => [C!Next]_C!vars
  BY DEF C!vars, Queue, Carried, Spells, Taken
<1>4. TypeOK /\ ListInv /\ Distinct /\ [Next]_vars => [C!Next]_C!vars
  BY <1>2, <1>3
<1>5. QED
  BY <1>1, <1>4, ListInvariance, DistinctInvariance, PTL DEF Spec, Refinement, C!Spec
=============================================================================
