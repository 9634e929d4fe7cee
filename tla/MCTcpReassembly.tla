-------------------------- MODULE MCTcpReassembly --------------------------
(* Streams for checking TcpReassembly. *)
EXTENDS TcpReassembly, TLC

\* A request of four bytes and an answer of one.
MCStreamLen == ("AToB" :> 4) @@ ("BToA" :> 1)
=============================================================================
