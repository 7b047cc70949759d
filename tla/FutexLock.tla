----------------------------- MODULE FutexLock -----------------------------
(***************************************************************************)
(* The futex lock of libkrossbar, which exists twice with the same code:   *)
(* arena_lock/arena_unlock and allocator_lock/allocator_unlock.  A lock is *)
(* a word of shared memory, 0 when free and 1 when taken; threads of       *)
(* several processes take it with a compare-and-swap, sleep in the kernel  *)
(* while it is 1 and are all woken when it is released.                    *)
(*                                                                         *)
(* The compare-and-swap passes the address of a local `const uint32_t      *)
(* zero = 0` as the expected value.  A compare-and-swap that fails stores  *)
(* what it found in that object.  Writing to a const object is undefined:  *)
(* the compiler may go on using 0 (it folds the constant), or the next     *)
(* round may compare with what was found.  CasOutcomes says which of the   *)
(* two the build at hand produces.                                         *)
(***************************************************************************)
EXTENDS Naturals, FiniteSets

CONSTANTS
  Threads,       \* the threads that share the lock
  NoThread,      \* nobody
  Processes,     \* the processes the threads belong to
  ProcessOf,     \* the process of each thread
  MaxExits,      \* bound: how many processes end on a signal or an error
  CasOutcomes    \* what a failed compare-and-swap leaves in `zero`

ASSUME ThreadsAssumption ==
  /\ NoThread \notin Threads
  /\ ProcessOf \in [Threads -> Processes]
  /\ MaxExits \in Nat

ASSUME CasOutcomesAssumption == CasOutcomes \subseteq {"kept", "observed"}

VARIABLES
  futex,         \* the shared word
  pc,            \* where each thread is in lock/unlock
  expected,      \* each thread's local `zero`
  exited         \* the processes that have ended

vars == <<futex, pc, expected, exited>>

Free == 0
Taken == 1

TypeOK ==
  /\ futex \in {Free, Taken}
  /\ pc \in [Threads -> {"idle", "cas", "wait", "asleep", "locked", "wake"}]
  /\ expected \in [Threads -> {Free, Taken}]
  /\ exited \subseteq Processes

Running(t) == ProcessOf[t] \notin exited

Init ==
  /\ futex = Free
  /\ pc = [t \in Threads |-> "idle"]
  /\ expected = [t \in Threads |-> Free]
  /\ exited = {}

\* Moves thread t, still running, from one label to another.
Go(t, from, to) ==
  /\ Running(t)
  /\ pc[t] = from
  /\ pc' = [pc EXCEPT ![t] = to]
  /\ UNCHANGED exited

-----------------------------------------------------------------------------
(* lock *)

Lock(t) ==
  /\ Go(t, "idle", "cas")
  /\ expected' = [expected EXCEPT ![t] = Free]
  /\ UNCHANGED futex

\* (mutant) The word counts the threads that want the lock.
CasAdds(t) ==
  /\ Go(t, "cas", "locked")
  /\ futex' = futex + 1
  /\ UNCHANGED expected

CasSucceeds(t) ==
  /\ Go(t, "cas", "locked")
  /\ futex = expected[t]
  /\ futex' = Taken
  /\ UNCHANGED expected

\* (mutant) A build in which the failed compare-and-swap always writes `zero`.
CasFailsObserving(t) ==
  /\ Go(t, "cas", "wait")
  /\ futex # expected[t]
  /\ expected' = [expected EXCEPT ![t] = futex]
  /\ UNCHANGED futex

CasFails(t) ==
  /\ Go(t, "cas", "wait")
  /\ futex # expected[t]
  /\ \E outcome \in CasOutcomes :
       expected' = [expected EXCEPT ![t] = IF outcome = "observed" THEN futex ELSE @]
  /\ UNCHANGED futex

\* (mutant) A plain sleep: the word is not compared again.
FutexSleepsUnchecked(t) ==
  /\ Go(t, "wait", "asleep")
  /\ UNCHANGED <<futex, expected>>

\* FUTEX_WAIT compares the word with 1 and sleeps, in one step of the kernel.
FutexSleeps(t) ==
  /\ Go(t, "wait", "asleep")
  /\ futex = Taken
  /\ UNCHANGED <<futex, expected>>

\* The word has changed meanwhile: EAGAIN, and the loop tries again.
FutexChanged(t) ==
  /\ Go(t, "wait", "cas")
  /\ futex # Taken
  /\ UNCHANGED <<futex, expected>>

-----------------------------------------------------------------------------
(* unlock *)

\* (mutant) The futex is stored to without a wake-up after it.
UnlockWithoutWake(t) ==
  /\ Go(t, "locked", "idle")
  /\ futex' = Free
  /\ UNCHANGED expected

\* The compare-and-swap leaves 0; when it found 0, nobody is woken.
Unlock(t) ==
  /\ Go(t, "locked", IF futex = Taken THEN "wake" ELSE "idle")
  /\ futex' = Free
  /\ UNCHANGED expected

\* (mutant) futex_wake(1).
FutexWakeOne(t) ==
  /\ Running(t)
  /\ pc[t] = "wake"
  /\ LET sleepers == {u \in Threads : pc[u] = "asleep"}
     IN \/ sleepers = {} /\ pc' = [pc EXCEPT ![t] = "idle"]
        \/ \E u \in sleepers : pc' = [pc EXCEPT ![t] = "idle", ![u] = "cas"]
  /\ UNCHANGED <<futex, expected, exited>>

\* futex_wake(INT_MAX): every sleeper returns from futex_wait and tries again.
FutexWake(t) ==
  /\ Running(t)
  /\ pc[t] = "wake"
  /\ pc' = [u \in Threads |-> IF u = t THEN "idle"
                              ELSE IF pc[u] = "asleep" THEN "cas" ELSE pc[u]]
  /\ UNCHANGED <<futex, expected, exited>>

-----------------------------------------------------------------------------
\* A process ends wherever its threads are: it is killed, or a signal
\* interrupts a sleeping thread and the EINTR makes lock call exit(1).  The
\* word in shared memory stays as it is.
Exit(p) ==
  /\ p \notin exited
  /\ Cardinality(exited) < MaxExits
  /\ exited' = exited \cup {p}
  /\ UNCHANGED <<futex, pc, expected>>

Step(t) ==
  \/ Lock(t) \/ CasSucceeds(t) \/ CasFails(t) \/ FutexSleeps(t) \/ FutexChanged(t)
  \/ Unlock(t) \/ FutexWake(t)

Next == (\E t \in Threads : Step(t)) \/ (\E p \in Processes : Exit(p))

Spec == Init /\ [][Next]_vars

\* The scheduler runs every thread that is inside lock or unlock, or between
\* them: the sections the two locks protect are straight-line code.  Nobody is
\* obliged to call lock.
Proceed(t) == pc[t] # "idle" /\ Step(t)

FairSpec == Spec /\ \A t \in Threads : WF_vars(Proceed(t))

-----------------------------------------------------------------------------
Holders == {t \in Threads : pc[t] = "locked"}

\* Two threads are never inside the section the lock protects at once: the
\* list of messages and the free list are changed on the strength of this.
MutualExclusion == \A t, u \in Holders : t = u

\* unlock frees the word and wakes the sleepers in two steps, and lock decides
\* to sleep and sleeps in two steps.  No order of them leaves a thread asleep
\* on a free word with no wake-up on its way.
NoLostWakeup ==
  \A t \in Threads :
    pc[t] = "asleep" => futex = Taken \/ \E u \in Threads : pc[u] = "wake"

\* Somebody will never leave: its process ended inside the section, or after
\* freeing the word and before waking the sleepers.
Orphaned == \E t \in Threads : ~Running(t) /\ pc[t] \in {"locked", "wake"}

\* A thread that sleeps in lock is woken in the end, unless a process ended
\* holding the lock or owing the wake-up.
SleeperWoken ==
  \A t \in Threads : pc[t] = "asleep" ~> (pc[t] # "asleep" \/ Orphaned \/ ~Running(t))

\* A free lock somebody wants is taken in the end by one of those who want it
\* (lock is not fair: which one is not said).
FreeLockIsTaken ==
  ( futex = Free /\ \E t \in Threads : Running(t) /\ pc[t] \in {"cas", "wait", "asleep"} )
    ~> ( futex = Taken \/ Orphaned
           \/ \A t \in Threads : pc[t] \in {"cas", "wait", "asleep"} => ~Running(t) )

\* The lock implements the abstract one, which only the holder releases.
Owner == IF Holders = {} THEN NoThread ELSE CHOOSE t \in Threads : pc[t] = "locked"

M == INSTANCE Mutex WITH owner <- Owner

Refinement == M!Spec
=============================================================================
