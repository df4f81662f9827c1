------------------------- MODULE MCCompletionOutbox -------------------------
(* Small instances of CompletionOutbox for TLC. *)
EXTENDS CompletionOutbox, TLC

\* No action tells one worker from another.
WorkerSymmetry == Permutations(Workers)
=============================================================================
