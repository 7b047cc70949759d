---------------------------- MODULE MCFutexLock ----------------------------
(***************************************************************************)
(* Instances of FutexLock for TLC: three threads of two processes, the     *)
(* smallest in which a thread can be overtaken by another of its own       *)
(* process while a third one, of the other process, sleeps.                *)
(***************************************************************************)
EXTENDS FutexLock

CONSTANTS t1, t2, t3, p1, p2

MCThreads == {t1, t2, t3}
MCProcesses == {p1, p2}
MCProcessOf == [t \in MCThreads |-> IF t = t3 THEN p2 ELSE p1]

MCKept == {"kept"}
MCEither == {"kept", "observed"}
=============================================================================
