-------------------------- MODULE MCUdsTransport ---------------------------
(***************************************************************************)
(* Instances of UdsTransport for TLC: messages of one, two and four        *)
(* units, for a socket that takes the long ones in parts.                  *)
(***************************************************************************)
EXTENDS UdsTransport

CONSTANTS m1, m2, m3

ThreeMessages == {m1, m2, m3}

Mixed == [m \in ThreeMessages |-> IF m = m1 THEN 1 ELSE IF m = m2 THEN 2 ELSE 4]
=============================================================================
