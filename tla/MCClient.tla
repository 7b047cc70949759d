------------------------------ MODULE MCClient ------------------------------
(***************************************************************************)
(* The instance of Client for TLC: A writes, B reads.                      *)
(***************************************************************************)
EXTENDS Client

CONSTANTS A, B

MCProcesses == {A, B}
MCPeerOf == [p \in MCProcesses |-> IF p = A THEN B ELSE A]

\* One message with a large document, two with small ones, and what fails.
MCScenarios ==
  {[room |-> 3, messages |-> 1, failures |-> 0, sizes |-> {16}],
   [room |-> 1, messages |-> 2, failures |-> 0, sizes |-> {16}],
   [room |-> 0, messages |-> 1, failures |-> 1, sizes |-> {1, 2, 5, 6, 8, 9, 16}]}
=============================================================================
