--------------------------- MODULE MCTaskListing ---------------------------
(* TaskListing.tla on a small instance: one of two callers, or the owner,   *)
(* lists their tasks.                                                       *)
EXTENDS TaskListing
=============================================================================
