--------------------------- MODULE MCBatchIntake ---------------------------
(***************************************************************************)
(* A small instance of BatchIntake: a tenant with a job of two items and   *)
(* one with a job of a single item; a worker of each mode, dual advisory   *)
(* locks.                                                                  *)
(***************************************************************************)
EXTENDS BatchIntake, TLC

CONSTANTS r1, r2, s1, s2, k1

MCTenantOf == [j \in {1, 2} |-> j]
MCJobOf == [i \in {1, 2, 3} |-> IF i = 3 THEN 2 ELSE 1]
MCUnits == [i \in {1, 2, 3} |-> IF i = 1 THEN 1 ELSE 2]

Symmetry == Permutations(Requests) \cup Permutations(Sessions)
=============================================================================
