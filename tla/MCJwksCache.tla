---------------------------- MODULE MCJwksCache ----------------------------
(* JwksCache.tla on a small instance. *)
EXTENDS JwksCache, TLC

\* Requests and identifiers of keys are interchangeable.
Alike == Permutations(Request) \cup Permutations(Kid)
=============================================================================
