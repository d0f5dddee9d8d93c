---------------------------- MODULE MCCardFence ----------------------------
(* CardFence.tla on a small instance. *)
EXTENDS CardFence, TLC

\* Invocations, skills, texts and receipts are interchangeable.
Alike == Permutations(Process) \cup Permutations(Skill) \cup Permutations(Text)
             \cup Permutations(Proof)
=============================================================================
