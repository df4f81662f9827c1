---------------------------- MODULE MCBatchItems ----------------------------
(* Small instances of BatchItems for TLC. *)
EXTENDS BatchItems, TLC

\* No action names an item.  Workers are not interchangeable: their claim mode
\* may differ.
ItemSymmetry == Permutations(Items)
=============================================================================
