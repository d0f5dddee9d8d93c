------------------------------ MODULE MCEngine ------------------------------
(* Engine.tla on a small instance. *)
EXTENDS Engine, TLC

CONSTANTS t1, t2, c1, c2

Both == <<c1, c2>>
Hosts == [t \in Tool |-> IF t = t1 THEN c1 ELSE c2]

\* The identifiers are interchangeable.
Alike == Permutations(Id)
=============================================================================
