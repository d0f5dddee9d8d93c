---------------------------- MODULE MCSubmission ----------------------------
(* Submission.tla on a small instance. *)
EXTENDS Submission, TLC

\* Requests are interchangeable, and so are the bodies and the message ids.
Alike == Permutations(Call) \cup Permutations(Body) \cup Permutations(MessageKey)
=============================================================================
