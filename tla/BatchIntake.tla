---------------------------- MODULE BatchIntake ----------------------------
(***************************************************************************)
(* How work enters the batch pipeline: requests create batches             *)
(* (BatchCreateSession), workers choose what to claim (BatchScheduler).    *)
(* The two share no row that either property is about, so a behaviour      *)
(* takes the steps of one of them (`focus`).                               *)
(***************************************************************************)
EXTENDS BatchCreateSession

CONSTANTS
  FairWorkers, CapacityWorkers, Tenants, Jobs, TenantOf, JobOf, Units, SizeAware, Dual,
  MaxItems, MaxWork, TenantMax, Quantum, Multiplier, MaxInFlight, NoTenant,
  SchedulerItems,  \* the items of all tenants, in line order
  MaxClaimFaults   \* bound of the model: leases that expire, rollbacks of claims

ASSUME SchedulerAssumption ==
  /\ IsFiniteSet(SchedulerItems) /\ SchedulerItems \subseteq Nat
  /\ MaxItems \in Nat /\ MaxInFlight \in Nat

VARIABLES
  focus,
  itemStatus, queue, deficit, recency, pc, next, taken, tx, revived, claimFaults

schedulerVars == <<itemStatus, queue, deficit, recency, pc, next, taken, tx, revived, claimFaults>>

Scheduler == INSTANCE BatchScheduler WITH
  Items <- SchedulerItems, MaxFaults <- MaxClaimFaults, status <- itemStatus, faults <- claimFaults

-----------------------------------------------------------------------------
IntakeInit == focus \in {"create", "claim"} /\ Init /\ Scheduler!Init

IntakeNext ==
  /\ UNCHANGED focus
  /\ \/ focus = "create" /\ Next /\ UNCHANGED schedulerVars
     \/ focus = "claim" /\ Scheduler!Next /\ UNCHANGED vars

IntakeSpec == IntakeInit /\ [][IntakeNext]_<<focus, vars, schedulerVars>>

-----------------------------------------------------------------------------
\* The items in flight of a model group stay within its capacity
\* (BatchScheduler, job_repository.py: the capacity gate of a claim).
CapacityKept == Scheduler!CapacityKept

\* A fair-share claim keeps its tenant within its limit (BatchScheduler,
\* job_repository.py: _tenant_remaining_work_units).
FairClaimWithinTenantLimit == Scheduler!FairClaimWithinTenantLimit
=============================================================================
