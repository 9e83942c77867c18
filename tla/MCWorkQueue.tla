----------------------------- MODULE MCWorkQueue -----------------------------
(***************************************************************************)
(* Instances of WorkQueue.                                                 *)
(***************************************************************************)
EXTENDS WorkQueue

\* A task can still lie in the deque while every worker has one.
ASSUME Busy == Worker # {} /\ Cardinality(Task) > Cardinality(Worker)
=============================================================================
