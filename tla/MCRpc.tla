------------------------------- MODULE MCRpc -------------------------------
(***************************************************************************)
(* Instances of Rpc for TLC: two processes, both of which may send         *)
(* requests.                                                               *)
(***************************************************************************)
EXTENDS Rpc

CONSTANTS A, B

MCProcesses == {A, B}
MCPeerOf == [p \in MCProcesses |-> IF p = A THEN B ELSE A]

OneEach == [p \in MCProcesses |-> 1]
TwoAndOne == [p \in MCProcesses |-> IF p = A THEN 2 ELSE 1]
OneAndTwo == [p \in MCProcesses |-> IF p = A THEN 1 ELSE 2]
=============================================================================
