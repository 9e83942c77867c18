---------------------------- MODULE MCTcpEngine ----------------------------
(* TcpEngine on small instances.                                           *)
EXTENDS TcpEngine

\* Nodes and connections are interchangeable in safety properties.
Symmetry == Permutations(Node) \cup Permutations(Conn)
=============================================================================
