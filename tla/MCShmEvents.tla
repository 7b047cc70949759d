---------------------------- MODULE MCShmEvents ----------------------------
(***************************************************************************)
(* Instances of ShmEvents for TLC: a ring of one transport, and a ring     *)
(* that two transports share, as in test/test_shm_event_managers.cpp.      *)
(***************************************************************************)
EXTENDS ShmEvents
=============================================================================
