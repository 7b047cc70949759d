-------------------------- MODULE FutexLockProofs --------------------------
(***************************************************************************)
(* Proofs about the futex lock, for any number of threads and processes.   *)
(*                                                                         *)
(*   Typing, WakeupOwed       whatever a failed compare-and-swap leaves in *)
(*                            `zero`                                       *)
(*   Exclusion, Implements    in the builds where `zero` stays 0           *)
(*                                                                         *)
(* The inductive invariant of the second group says why the lock works:    *)
(* everybody compares with 0, so the word is 1 exactly while somebody is   *)
(* inside, and a compare-and-swap succeeds only when nobody is.            *)
(***************************************************************************)
EXTENDS FutexLock, TLAPS

\* The futex word, the program counters, the locals and the set of ended
\* processes keep their types whatever a failed compare-and-swap writes.
THEOREM Typing == Spec => []TypeOK
<1>1. Init => TypeOK
  BY DEF Init, TypeOK, Free, Taken
<1>2. TypeOK /\ [Next]_vars => TypeOK'
  <2> SUFFICES ASSUME TypeOK, [Next]_vars PROVE TypeOK'
    OBVIOUS
  <2> USE DEF TypeOK, Go, Free, Taken
  <2>1. ASSUME NEW t \in Threads, Lock(t) PROVE TypeOK'
    BY <2>1 DEF Lock
  <2>2. ASSUME NEW t \in Threads, CasSucceeds(t) PROVE TypeOK'
    BY <2>2 DEF CasSucceeds
  <2>3. ASSUME NEW t \in Threads, CasFails(t) PROVE TypeOK'
    BY <2>3 DEF CasFails
  <2>4. ASSUME NEW t \in Threads, FutexSleeps(t) PROVE TypeOK'
    BY <2>4 DEF FutexSleeps
  <2>5. ASSUME NEW t \in Threads, FutexChanged(t) PROVE TypeOK'
    BY <2>5 DEF FutexChanged
  <2>6. ASSUME NEW t \in Threads, Unlock(t) PROVE TypeOK'
    BY <2>6 DEF Unlock
  <2>7. ASSUME NEW t \in Threads, FutexWake(t) PROVE TypeOK'
    BY <2>7 DEF FutexWake
  <2>8. ASSUME NEW p \in Processes, Exit(p) PROVE TypeOK'
    BY <2>8 DEF Exit
  <2>9. CASE UNCHANGED vars
    BY <2>9 DEF vars
  <2>10. QED
    BY <2>1, <2>2, <2>3, <2>4, <2>5, <2>6, <2>7, <2>8, <2>9 DEF Next, Step
<1>3. QED
  BY <1>1, <1>2, PTL DEF Spec

\* No thread sleeps on a free word without a wake-up on its way, in any build:
\* the word is compared as the thread falls asleep, and it becomes 0 only in
\* a step after which that same thread owes a wake-up to everybody.
THEOREM WakeupOwed == Spec => []NoLostWakeup
<1>1. Init => NoLostWakeup
  BY DEF Init, NoLostWakeup
<1>2. TypeOK /\ NoLostWakeup /\ [Next]_vars => NoLostWakeup'
  <2> SUFFICES ASSUME TypeOK, NoLostWakeup, [Next]_vars,
                      NEW s \in Threads, pc'[s] = "asleep"
               PROVE  (futex = Taken \/ \E u \in Threads : pc[u] = "wake")'
    BY DEF NoLostWakeup
  <2> USE DEF TypeOK, NoLostWakeup, Go, Free, Taken
  <2>1. ASSUME NEW t \in Threads, Lock(t) PROVE (futex = Taken \/ \E u \in Threads : pc[u] = "wake")'
    BY <2>1 DEF Lock
  <2>2. ASSUME NEW t \in Threads, CasSucceeds(t) PROVE (futex = Taken \/ \E u \in Threads : pc[u] = "wake")'
    BY <2>2 DEF CasSucceeds
  <2>3. ASSUME NEW t \in Threads, CasFails(t) PROVE (futex = Taken \/ \E u \in Threads : pc[u] = "wake")'
    BY <2>3 DEF CasFails
  <2>4. ASSUME NEW t \in Threads, FutexSleeps(t) PROVE (futex = Taken \/ \E u \in Threads : pc[u] = "wake")'
    BY <2>4 DEF FutexSleeps
  <2>5. ASSUME NEW t \in Threads, FutexChanged(t) PROVE (futex = Taken \/ \E u \in Threads : pc[u] = "wake")'
    BY <2>5 DEF FutexChanged
  <2>6. ASSUME NEW t \in Threads, Unlock(t) PROVE (futex = Taken \/ \E u \in Threads : pc[u] = "wake")'
    BY <2>6 DEF Unlock
  <2>7. ASSUME NEW t \in Threads, FutexWake(t) PROVE FALSE
    BY <2>7 DEF FutexWake
  <2>8. ASSUME NEW p \in Processes, Exit(p) PROVE (futex = Taken \/ \E u \in Threads : pc[u] = "wake")'
    BY <2>8 DEF Exit
  <2>9. CASE UNCHANGED vars
    BY <2>9 DEF vars
  <2>10. QED
    BY <2>1, <2>2, <2>3, <2>4, <2>5, <2>6, <2>7, <2>8, <2>9 DEF Next, Step
<1>3. QED
  BY <1>1, <1>2, Typing, PTL DEF Spec

-----------------------------------------------------------------------------
\* The inductive invariant behind mutual exclusion.
ZeroStaysZero == \A t \in Threads : expected[t] = Free

TakenMeansHeld == futex = Taken <=> \E t \in Threads : pc[t] = "locked"

LockInv == ZeroStaysZero /\ TakenMeansHeld /\ MutualExclusion

LEMMA LockInvInit == Init => LockInv
BY DEF Init, LockInv, ZeroStaysZero, TakenMeansHeld, MutualExclusion, Holders, Free, Taken

\* Every step keeps the invariant when a failed compare-and-swap leaves `zero`
\* alone.
LEMMA LockInvStep ==
  ASSUME CasOutcomes = {"kept"}, TypeOK, LockInv, [Next]_vars
  PROVE  LockInv'
<1> USE DEF TypeOK, LockInv, ZeroStaysZero, TakenMeansHeld, MutualExclusion, Holders, Go, Free, Taken
<1>1. ASSUME NEW t \in Threads, Lock(t) PROVE LockInv'
  BY <1>1 DEF Lock
<1>2. ASSUME NEW t \in Threads, CasSucceeds(t) PROVE LockInv'
  BY <1>2 DEF CasSucceeds
<1>3. ASSUME NEW t \in Threads, CasFails(t) PROVE LockInv'
  <2>1. UNCHANGED <<futex, expected>>
    BY <1>3 DEF CasFails
  <2>2. \A u \in Threads : pc'[u] = "locked" <=> pc[u] = "locked"
    BY <1>3 DEF CasFails
  <2>3. QED
    BY <2>1, <2>2
<1>4. ASSUME NEW t \in Threads, FutexSleeps(t) PROVE LockInv'
  BY <1>4 DEF FutexSleeps
<1>5. ASSUME NEW t \in Threads, FutexChanged(t) PROVE LockInv'
  BY <1>5 DEF FutexChanged
<1>6. ASSUME NEW t \in Threads, Unlock(t) PROVE LockInv'
  BY <1>6 DEF Unlock
<1>7. ASSUME NEW t \in Threads, FutexWake(t) PROVE LockInv'
  <2>1. \A u \in Threads : pc'[u] = "locked" <=> pc[u] = "locked"
    BY <1>7 DEF FutexWake
  <2>2. QED
    BY <1>7, <2>1 DEF FutexWake
<1>8. ASSUME NEW p \in Processes, Exit(p) PROVE LockInv'
  BY <1>8 DEF Exit
<1>9. CASE UNCHANGED vars
  BY <1>9 DEF vars
<1>10. QED
  BY <1>1, <1>2, <1>3, <1>4, <1>5, <1>6, <1>7, <1>8, <1>9 DEF Next, Step

LEMMA LockInvariance == CasOutcomes = {"kept"} => (Spec => []LockInv)
<1>1. CasOutcomes = {"kept"} /\ TypeOK /\ LockInv /\ [Next]_vars => LockInv'
  BY LockInvStep
<1> SUFFICES ASSUME CasOutcomes = {"kept"} PROVE Spec => []LockInv
  OBVIOUS
<1>2. TypeOK /\ LockInv /\ [Next]_vars => LockInv'
  BY <1>1
<1>3. QED
  BY <1>2, LockInvInit, Typing, PTL DEF Spec

\* In a build that keeps `zero`, at most one thread of any process is between
\* lock and unlock.
THEOREM Exclusion == CasOutcomes = {"kept"} => (Spec => []MutualExclusion)
<1> SUFFICES ASSUME CasOutcomes = {"kept"} PROVE Spec => []MutualExclusion
  OBVIOUS
<1>1. LockInv => MutualExclusion
  BY DEF LockInv
<1>2. QED
  BY <1>1, LockInvariance, PTL

-----------------------------------------------------------------------------
\* The thread the mapping names is the one inside.
LEMMA OwnerIsHolder ==
  ASSUME MutualExclusion, NEW t \in Threads, pc[t] = "locked"
  PROVE  Owner = t
<1>1. t \in Holders
  BY DEF Holders
<1>2. \A u \in Threads : pc[u] = "locked" => u = t
  BY DEF MutualExclusion, Holders
<1>3. (CHOOSE u \in Threads : pc[u] = "locked") = t
  BY <1>2
<1>4. QED
  BY <1>1, <1>3 DEF Owner

LEMMA NoHolderNoOwner ==
  ASSUME \A t \in Threads : pc[t] # "locked"
  PROVE  Owner = NoThread
BY DEF Owner, Holders

\* A step that moves nobody in or out is a stutter of the abstract lock.
LEMMA SameHolders ==
  ASSUME \A u \in Threads : pc'[u] = "locked" <=> pc[u] = "locked"
  PROVE  Owner' = Owner
<1>1. (CHOOSE u \in Threads : pc'[u] = "locked") = (CHOOSE u \in Threads : pc[u] = "locked")
  OBVIOUS
<1>2. CASE Holders = {}
  BY <1>2 DEF Owner, Holders
<1>3. CASE Holders # {}
  <2>1. Holders' # {}
    BY <1>3 DEF Holders
  <2>2. Owner' = CHOOSE u \in Threads : pc'[u] = "locked"
    BY <2>1 DEF Owner
  <2>3. Owner = CHOOSE u \in Threads : pc[u] = "locked"
    BY <1>3 DEF Owner
  <2>4. QED
    BY <1>1, <2>2, <2>3
<1>4. QED
  BY <1>2, <1>3

\* In a build that keeps `zero`, the lock implements the abstract mutex: a
\* successful compare-and-swap is its Acquire, storing 0 its Release, and every
\* other step is invisible.
THEOREM Implements == CasOutcomes = {"kept"} => (Spec => Refinement)
<1> SUFFICES ASSUME CasOutcomes = {"kept"} PROVE Spec => Refinement
  OBVIOUS
<1>1. Init => M!Init
  BY NoHolderNoOwner DEF Init, M!Init
<1>2. TypeOK /\ LockInv /\ LockInv' /\ [Next]_vars => [M!Next]_Owner
  <2> SUFFICES ASSUME TypeOK, LockInv, LockInv', [Next]_vars PROVE [M!Next]_Owner
    OBVIOUS
  <2> USE DEF TypeOK, Go, Free, Taken
  <2>a. LockInv => MutualExclusion
    BY DEF LockInv
  <2>b. MutualExclusion /\ MutualExclusion'
    BY <2>a DEF LockInv
  <2>1. ASSUME NEW t \in Threads, Lock(t) PROVE Owner' = Owner
    BY <2>1, SameHolders DEF Lock
  <2>2. ASSUME NEW t \in Threads, CasSucceeds(t) PROVE M!Next
    <3>1. futex = Free
      BY <2>2 DEF CasSucceeds, LockInv, ZeroStaysZero
    <3>2. Owner = NoThread
      BY <3>1, NoHolderNoOwner DEF LockInv, TakenMeansHeld
    <3>3. pc'[t] = "locked"
      BY <2>2 DEF CasSucceeds
    <3>4. Owner' = t
      BY <3>3, <2>b, OwnerIsHolder DEF Owner, Holders, MutualExclusion
    <3>5. QED
      BY <3>2, <3>4 DEF M!Next, M!Acquire
  <2>3. ASSUME NEW t \in Threads, CasFails(t) PROVE Owner' = Owner
    BY <2>3, SameHolders DEF CasFails
  <2>4. ASSUME NEW t \in Threads, FutexSleeps(t) PROVE Owner' = Owner
    BY <2>4, SameHolders DEF FutexSleeps
  <2>5. ASSUME NEW t \in Threads, FutexChanged(t) PROVE Owner' = Owner
    BY <2>5, SameHolders DEF FutexChanged
  <2>6. ASSUME NEW t \in Threads, Unlock(t) PROVE M!Next
    <3>1. Owner = t
      BY <2>6, <2>b, OwnerIsHolder DEF Unlock
    <3>2. \A u \in Threads : pc'[u] # "locked"
      BY <2>6, <2>b DEF Unlock, MutualExclusion, Holders
    <3>3. Owner' = NoThread
      BY <3>2 DEF Owner, Holders
    <3>4. QED
      BY <3>1, <3>3 DEF M!Next, M!Release
  <2>7. ASSUME NEW t \in Threads, FutexWake(t) PROVE Owner' = Owner
    BY <2>7, SameHolders DEF FutexWake
  <2>8. ASSUME NEW p \in Processes, Exit(p) PROVE Owner' = Owner
    BY <2>8, SameHolders DEF Exit
  <2>9. CASE UNCHANGED vars
    BY <2>9, SameHolders DEF vars
  <2>10. QED
    BY <2>1, <2>2, <2>3, <2>4, <2>5, <2>6, <2>7, <2>8, <2>9 DEF Next, Step
<1>3. QED
  BY <1>1, <1>2, Typing, LockInvariance, PTL DEF Spec, Refinement, M!Spec
=============================================================================
