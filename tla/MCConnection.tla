---------------------------- MODULE MCConnection ----------------------------
(* Connection.tla on a small instance. *)
EXTENDS Connection, TLC

\* Invocations are interchangeable.
Alike == Permutations(Process)
=============================================================================
