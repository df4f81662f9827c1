------------------------- MODULE BatchItemLifecycle -------------------------
(***************************************************************************)
(* What the batch subsystem promises about the items of one batch job,     *)
(* whoever executes them and however often a worker loses its lease:       *)
(*                                                                         *)
(*   - an item is pending or in progress until it reaches one of the       *)
(*     statuses completed, failed, cancelled, and never leaves that;       *)
(*   - an item is billed (has a row in the completion outbox) in the very  *)
(*     step in which it completes, and in no other.                        *)
(*                                                                         *)
(* Nothing here mentions workers, leases or epochs.  BatchItems (claims,   *)
(* leases and the persistence protocol) is shown to implement it.          *)
(***************************************************************************)

CONSTANT Items        \* the rows of deltallm_batch_item of one job

VARIABLES
  status,             \* the items' statuses
  billed              \* the items that have a completion-outbox row

lifecycleVars == <<status, billed>>

\* src/batch/models.py, BatchItemStatus
Open == {"pending", "in_progress"}

Init ==
  /\ status = [i \in Items |-> "pending"]
  /\ billed = {}

Become(S, from, to) ==
  /\ \A i \in S : status[i] \in from
  /\ status' = [i \in Items |-> IF i \in S THEN to ELSE status[i]]

Begin(S)    == Become(S, Open, "in_progress") /\ UNCHANGED billed
Requeue(S)  == Become(S, {"in_progress"}, "pending") /\ UNCHANGED billed
Complete(S) == Become(S, {"in_progress"}, "completed") /\ billed' = billed \cup S
Fail(S)     == Become(S, Open, "failed") /\ UNCHANGED billed
Cancel(S)   == Become(S, {"pending"}, "cancelled") /\ UNCHANGED billed

Next ==
  \E S \in SUBSET Items :
    Begin(S) \/ Requeue(S) \/ Complete(S) \/ Fail(S) \/ Cancel(S)

Spec == Init /\ [][Next]_lifecycleVars
=============================================================================
