----------------------------- MODULE MCBacklog -----------------------------
(* Backlog.tla on a small instance; without symmetry, for liveness. *)
EXTENDS Backlog
=============================================================================
