----------------------------- MODULE MCBatchJob -----------------------------
(* Small instances of BatchJob for TLC. *)
EXTENDS BatchJob, TLC

\* No action names an item.  Workers are not interchangeable: their claim mode
\* may differ.
ItemSymmetry == Permutations(Items)
=============================================================================
