------------------------------ MODULE MCTasks ------------------------------
(* Tasks.tla on small instances. *)
EXTENDS Tasks, TLC

\* Invocations are interchangeable: none of them is named by the specification.
Invocations == Permutations(Worker)
=============================================================================
