---------------------------- MODULE MCPoolServers ----------------------------
(***************************************************************************)
(* Instances of PoolServers.                                               *)
(***************************************************************************)
EXTENDS PoolServers

\* Every tcp and UDP port can be bound at once, and the turn can pass all of them.
ASSUME Roomy ==
    /\ Cardinality(Handle) >= Cardinality(TcpNode \cup UdpNode)
    /\ MaxMsg > Cardinality(UdpNode)
=============================================================================
