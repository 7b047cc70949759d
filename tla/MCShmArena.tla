---------------------------- MODULE MCShmArena -----------------------------
(***************************************************************************)
(* Instances of ShmArena for TLC.  Two senders are needed for a send to    *)
(* overtake another between unlock and count, three blocks for a list with *)
(* a middle while a block is recycled.                                     *)
(***************************************************************************)
EXTENDS ShmArena

CONSTANTS b1, b2, b3, m1, m2, m3

TwoBlocks == {b1, b2}
ThreeBlocks == {b1, b2, b3}
TwoMessages == {m1, m2}
ThreeMessages == {m1, m2, m3}
=============================================================================
