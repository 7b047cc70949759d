------------------------------- MODULE Mutex -------------------------------
(***************************************************************************)
(* What the two futex locks of the shared-memory transport promise         *)
(* (arena_lock/arena_unlock in shmem/transport_shm.c and                   *)
(* allocator_lock/allocator_unlock in shmem/allocator.c): at most one      *)
(* thread is inside at a time, and only the thread inside leaves.          *)
(* FutexLock implements this module; ShmArena uses it as its lock.         *)
(***************************************************************************)
CONSTANTS
  Threads,     \* the threads, of any process, that share the lock
  NoThread     \* nobody holds the lock

VARIABLE owner

Init == owner = NoThread

\* arena_lock returns to its caller
Acquire(t) == /\ owner = NoThread
              /\ owner' = t

\* arena_unlock stores 0 in the futex
Release(t) == /\ owner = t
              /\ owner' = NoThread

Next == \E t \in Threads : Acquire(t) \/ Release(t)

Spec == Init /\ [][Next]_owner
=============================================================================
