-------------------------- MODULE MCShmAllocator ---------------------------
(***************************************************************************)
(* Instances of ShmAllocator for TLC, with the sizes of a 64-bit build: an *)
(* allocator header of 40 bytes, a block header of 24, a footer of 16.     *)
(* Each .cfg gives the size of the memory and of the messages.             *)
(***************************************************************************)
EXTENDS ShmAllocator
=============================================================================
