----------------------------- MODULE MCBudget -----------------------------
(* Budget.tla on a small instance. *)
EXTENDS Budget, TLC

CONSTANTS c1, c2, c3, i1, i2

\* c1 and c2 are two invocations of the same turn.
Shared == [c \in {c1, c2, c3} |-> IF c = c3 THEN i2 ELSE i1]

\* They are interchangeable.
Alike == Permutations({c1, c2})
=============================================================================
