----------------------------- MODULE MCHttpServer -----------------------------
(***************************************************************************)
(* Instances of HttpServer.                                                *)
(***************************************************************************)
EXTENDS HttpServer

\* Two workers can be at two requests of one connection, and a connection can be
\* followed by another of its node or of a second one.
ASSUME Overlap ==
    /\ Cardinality(Worker) >= 2 /\ Cardinality(Node) >= 2
    /\ MaxRequests >= 2 /\ MaxConns >= 2

\* Workers and nodes are interchangeable, and no liveness is checked.
Symmetry == Permutations(Worker) \cup Permutations(Node)
=============================================================================
