--------------------------- MODULE MCPoolRequests ---------------------------
(***************************************************************************)
(* Instances of PoolRequests.                                              *)
(***************************************************************************)
EXTENDS PoolRequests

CONSTANT a   \* the thread that calls twice

Ones == [t \in By |-> 1]
TwoAndOnes == [Ones EXCEPT ![a] = 2]

\* Somebody calls, from the application and from a callback.
ASSUME Used == Caller # {} /\ \A t \in By : MaxCalls[t] > 0
=============================================================================
