---------------------------- MODULE BatchScheduler ----------------------------
(***************************************************************************)
(* Which item a slice worker claims next: the model-capacity gate and the  *)
(* tenant fair share (deficit round robin) of the batch scheduler, for one *)
(* model group and service tier.  The flows of different groups share no   *)
(* row and no lock, so one group shows what happens in each.               *)
(*                                                                         *)
(* A worker reads the capacity of the group, then (fair share) the         *)
(* candidate flows, both outside any transaction; the claim transaction    *)
(* takes its advisory lock, selects a flow in rounds, claims items and     *)
(* commits.  Rows claimed but not committed are locked: others skip them   *)
(* and do not count them as in flight.                                     *)
(***************************************************************************)
EXTENDS Integers, Sequences, FiniteSets, FiniteSetsExt

CONSTANTS
  FairWorkers,      \* workers in mode fair_share_v1 (or smart_v1)
  CapacityWorkers,  \* workers in mode model_capacity_v1
  Tenants, Jobs,
  TenantOf,         \* the tenant of a job
  Items,            \* item ids, in line order within their job
  JobOf, Units,     \* an item's job and its estimated_work_units
  SizeAware,        \* smart_v1: jobs of a flow are ordered by size and age
  Dual,             \* embeddings_batch_advisory_lock_mode = "dual"
  MaxItems,         \* max items of one claim
  MaxWork,          \* max work units of one claim
  TenantMax,        \* tenant_max_in_flight_work_units
  Quantum,          \* base_quantum_work_units
  Multiplier,       \* max_deficit_multiplier
  MaxInFlight,      \* max_in_flight_items the group's deployments allow
  MaxFaults,        \* bound of the model: leases that expire, rollbacks
  NoTenant

Workers == FairWorkers \cup CapacityWorkers

VARIABLES
  status,   \* an item: "pending", "live" or "expired" (in_progress with a
            \* current or a past lease), "done"
  queue,    \* the open jobs by queue_entered_at
  deficit,  \* deficit_work_units of each tenant's flow
  recency,  \* the flows by last_selected_at, the never selected ones absent
  pc,       \* where each worker is in its claim
  next,     \* next_item_work_units per flow in a worker's candidate snapshot,
            \* 0 for a flow without queued work
  taken,    \* items locked by a worker's uncommitted claim
  tx,       \* the fair-share transaction: flow rows as it has written them
  revived,  \* history: items whose lease expired and was then renewed
  faults

vars == <<status, queue, deficit, recency, pc, next,
          taken, tx, revived, faults>>
work == <<status, queue, revived>>
flows == <<deficit, recency>>

\* Faulty variant: the multiplier is forgotten.
MaxDeficitOneRound == Quantum
MaxDeficit == Quantum * Multiplier
WorkOf == [S \in SUBSET Items |-> MapThenSumSet(LAMBDA i : Units[i], S)]
ItemsOf(j) == {i \in Items : JobOf[i] = j}
Live(t) == {i \in Items : status[i] = "live" /\ TenantOf[JobOf[i]] = t}
InFlight == Cardinality({i \in Items : status[i] = "live"})
LiveWork(t) == WorkOf[Live(t)]

\* The flow row of a tenant is written with its deficit within its bound.
Clamped(t) == Min({deficit[t], MaxDeficit})

Open == {queue[k] : k \in DOMAIN queue}
Runnable(j) == {i \in ItemsOf(j) : status[i] \in {"pending", "expired"}}
RowLocked == UNION {taken[w] : w \in Workers}
Position(s, x) == IF \E k \in DOMAIN s : s[k] = x
                  THEN CHOOSE k \in DOMAIN s : s[k] = x ELSE 0

NoTx == [deficit |-> [t \in Tenants |-> 0], inFlight |-> [t \in Tenants |-> 0],
         round |-> 0, empty |-> {}, flow |-> NoTenant, oversized |-> FALSE]
NoNext == [t \in Tenants |-> 0]

TypeOK ==
  /\ status \in [Items -> {"pending", "live", "expired", "done"}]
  /\ queue \in Seq(Jobs)
  /\ deficit \in [Tenants -> -MaxDeficit .. MaxDeficit]
  /\ recency \in Seq(Tenants)
  /\ pc \in [Workers -> {"idle", "selected", "listed", "flow", "claimedFlow",
                         "fallback", "capacity", "claimed"}]
  /\ next \in [Workers -> [Tenants -> Nat]]
  /\ taken \in [Workers -> SUBSET Items]
  /\ tx.deficit \in [Tenants -> -MaxDeficit .. MaxDeficit]
  /\ revived \subseteq Items /\ tx.round \in 0 .. Multiplier /\ tx.empty \subseteq Tenants
  /\ faults \in 0 .. MaxFaults

Init ==
  /\ status = [i \in Items |-> "done"]
  /\ queue = <<>>
  /\ deficit = [t \in Tenants |-> 0] /\ recency = <<>>
  /\ pc = [w \in Workers |-> "idle"]
  /\ next = [w \in Workers |-> NoNext] /\ taken = [w \in Workers |-> {}]
  /\ tx = NoTx /\ revived = {} /\ faults = 0

-----------------------------------------------------------------------------
(* The jobs and their items, as the rest of the system changes them.        *)

\* A job is queued (the batch id is new in the code; a drained one is reused
\* here), and its tenant's flow row is created or clamped.
Submit(j) ==
  /\ j \notin Open
  /\ status' = [i \in Items |-> IF i \in ItemsOf(j) THEN "pending" ELSE status[i]]
  /\ queue' = Append(queue, j)
  /\ deficit' = [deficit EXCEPT ![TenantOf[j]] = Clamped(TenantOf[j])]
  /\ UNCHANGED <<recency, pc, next, taken, tx, revived, faults>>

\* The holder completes an item, also when its lease has expired unnoticed;
\* the job of the last item leaves the queue.
Finish(i) ==
  /\ status[i] \in {"live", "expired"} /\ i \notin RowLocked
  /\ status' = [status EXCEPT ![i] = "done"]
  /\ queue' = IF \A k \in ItemsOf(JobOf[i]) \ {i} : status[k] = "done"
              THEN SelectSeq(queue, LAMBDA j : j # JobOf[i]) ELSE queue
  /\ revived' = revived \ {i}
  /\ UNCHANGED <<flows, pc, next, taken, tx, faults>>

LeaseExpires(i) ==
  /\ status[i] = "live" /\ faults < MaxFaults
  /\ status' = [status EXCEPT ![i] = "expired"]
  /\ faults' = faults + 1
  /\ UNCHANGED <<revived, queue, flows, pc, next, taken, tx>>

\* A late heartbeat renews an expired lease that nobody has claimed.
RenewLease(i) ==
  /\ status[i] = "expired" /\ i \notin RowLocked
  /\ status' = [status EXCEPT ![i] = "live"]
  /\ revived' = revived \cup {i}
  /\ UNCHANGED <<queue, flows, pc, next, taken, tx, faults>>

-----------------------------------------------------------------------------
(* Reads before the transaction.                                            *)

Backlogged == \E j \in Open : Runnable(j) # {}
SlotsAvailable == InFlight < MaxInFlight

\* The group is eligible when it has runnable items and free slots.
SelectModelGroup(w) ==
  /\ pc[w] = "idle" /\ Backlogged /\ SlotsAvailable
  /\ pc' = [pc EXCEPT ![w] = IF w \in FairWorkers THEN "selected" ELSE "fallback"]
  /\ UNCHANGED <<work, flows, next, taken, tx, faults>>

HeadUnits(j) == Units[Min(Runnable(j))]
JobsOf(t) == {j \in Open : TenantOf[j] = t /\ Runnable(j) # {}}
First(S) == CHOOSE j \in S : \A k \in S : Position(queue, j) <= Position(queue, k)

\* The job of a set the claim order puts first: the oldest in fifo order; any
\* of them in size_aging order, which depends on sizes, ages and the clock.
Ordered(S) == IF SizeAware THEN S ELSE {First(S)}

\* The candidate snapshot: the head item of each flow's first job.
ListFlows(w) ==
  /\ pc[w] = "selected"
  /\ \E n \in [Tenants -> {0} \cup {Units[i] : i \in Items}] :
       /\ \A t \in Tenants :
            IF JobsOf(t) = {} THEN n[t] = 0
            ELSE \E j \in Ordered(JobsOf(t)) : n[t] = HeadUnits(j)
       /\ next' = [next EXCEPT ![w] = n]
  /\ pc' = [pc EXCEPT ![w] = "listed"]
  /\ UNCHANGED <<work, flows, taken, tx, faults>>

-----------------------------------------------------------------------------
(* The advisory locks.  The canonical keys of the two differ in their       *)
(* namespace; in dual mode both also take the legacy key of the group.      *)

HoldsFlowLock(w) == pc[w] \in {"flow", "claimedFlow"}
HoldsCapacityLock(w) == pc[w] \in {"capacity", "claimed"}
\* Faulty variant: the legacy key is not taken.
CapacityLockFreeCanonical == \A w \in Workers : ~HoldsCapacityLock(w)
CapacityLockFree ==
  /\ \A w \in Workers : ~HoldsCapacityLock(w)
  /\ Dual => \A w \in Workers : ~HoldsFlowLock(w)
FlowLockFree ==
  /\ \A w \in Workers : ~HoldsFlowLock(w)
  /\ Dual => \A w \in Workers : ~HoldsCapacityLock(w)

Idle(w) == pc' = [pc EXCEPT ![w] = "idle"]
           /\ next' = [next EXCEPT ![w] = NoNext]

\* pg_try_advisory_xact_lock fails: the worker backs off.
FlowLockBusy(w) ==
  /\ pc[w] = "listed" /\ ~FlowLockFree /\ Idle(w)
  /\ UNCHANGED <<work, flows, taken, tx, faults>>

InFlightSnapshot == [t \in Tenants |-> LiveWork(t)]
Refreshed == [t \in Tenants |-> Clamped(t)]

\* The transaction locks the flows, reads the work in flight and writes the
\* merged snapshot into the flow rows.
LockFlows(w) ==
  /\ pc[w] = "listed" /\ FlowLockFree
  /\ tx' = [NoTx EXCEPT !.deficit = Refreshed, !.inFlight = InFlightSnapshot]
  /\ pc' = [pc EXCEPT ![w] = "flow"]
  /\ UNCHANGED <<work, flows, next, taken, faults>>

-----------------------------------------------------------------------------
(* The claim statement.                                                     *)

\* The items a claim takes from job j: the first n runnable ones in line
\* order that no other transaction has locked, while their work fits.
Slice(j, n, maxWork, oversized) ==
  LET free == Runnable(j) \ RowLocked
      UpTo(i) == {k \in free : k <= i}
  IN {i \in free : /\ Cardinality(UpTo(i)) <= n
                   /\ \/ WorkOf[UpTo(i)] <= maxWork
                      \/ oversized /\ Cardinality(UpTo(i)) = 1}

\* The jobs it may select: their head item, locked or not, decides.
Claimable(S, maxWork, oversized) ==
  {j \in S : oversized \/ HeadUnits(j) <= maxWork}

RemainingSlots == Max({0, MaxInFlight - InFlight})

\* All the claims it can make, {} when it returns no row.
Claims(S, n, maxWork, oversized) ==
  LET jobs == Claimable(S, maxWork, oversized)
  IN IF RemainingSlots = 0 \/ jobs = {} THEN {{}}
     ELSE {Slice(j, Min({n, RemainingSlots}), maxWork, oversized) :
             j \in Ordered(jobs)}

-----------------------------------------------------------------------------
(* Selecting a flow.                                                        *)

ActiveFlows(w) == {t \in Tenants : next[w][t] > 0}
\* Faulty variant: the work in flight is not subtracted.
TenantRemainingFresh(t) == TenantMax
TenantRemaining(t) == Max({0, TenantMax - tx.inFlight[t]})
Fits(w, t) == next[w][t] <= TenantRemaining(t)
Oversized(w, t) == next[w][t] > MaxWork

\* A flow pays for its head item with its deficit; the only active one and,
\* for an oversized item, one with a full deficit need not have it all.
Affordable(w, t) ==
  \/ Cardinality(ActiveFlows(w)) = 1
  \/ tx.deficit[t] >= IF Oversized(w, t) THEN Min({next[w][t], MaxDeficit})
                      ELSE next[w][t]

Considered(w) == {t \in ActiveFlows(w) \ tx.empty : Fits(w, t)}
Candidates(w) == {t \in Considered(w) : Affordable(w, t)}
Eligible(w) == {t \in Considered(w) : Oversized(w, t) => Affordable(w, t)}

\* Least recently selected first.  Flows never selected are ordered by the
\* age of their queue, which is left open here.
LeastRecent(S) ==
  {t \in S : \A u \in S : Position(recency, t) <= Position(recency, u)}

ClaimUnits(t, alone) ==
  LET most == Min({MaxWork, TenantRemaining(t)})
  IN IF alone THEN most ELSE Min({most, Max({1, tx.deficit[t]})})

\* A round that selects a flow: it claims from it, or finds it empty and
\* leaves it out of the rounds that follow.
TryFlow(w) ==
  /\ pc[w] = "flow" /\ tx.round < Multiplier
  /\ \E t \in LeastRecent(Candidates(w)) :
       LET over == Oversized(w, t)
           units == ClaimUnits(t, Cardinality(Eligible(w)) = 1)
       IN \E S \in Claims(JobsOf(t), IF over THEN 1 ELSE MaxItems, units, over) :
            IF S = {}
            THEN /\ tx' = [tx EXCEPT !.empty = @ \cup {t}, !.round = @ + 1]
                 /\ UNCHANGED <<pc, taken>>
            ELSE /\ tx' = [tx EXCEPT !.flow = t, !.oversized = over]
                 /\ taken' = [taken EXCEPT ![w] = S]
                 /\ pc' = [pc EXCEPT ![w] = "claimedFlow"]
  /\ UNCHANGED <<work, flows, next, faults>>

\* Every active flow is skipped because its tenant has too much in flight.
TenantsFull(w) == tx.empty = {} /\ \A t \in ActiveFlows(w) : ~Fits(w, t)

Refilled(w) == [t \in Tenants |-> IF t \in ActiveFlows(w)
                                  THEN Min({tx.deficit[t] + Quantum, MaxDeficit})
                                  ELSE tx.deficit[t]]

\* A round without a candidate adds a quantum to every active flow.
Refill(w) ==
  /\ pc[w] = "flow" /\ tx.round < Multiplier
  /\ Candidates(w) = {} /\ ActiveFlows(w) # {} /\ ~TenantsFull(w)
  /\ tx' = [tx EXCEPT !.deficit = Refilled(w), !.round = @ + 1]
  /\ UNCHANGED <<work, flows, pc, next, taken, faults>>

EndFlowTx == deficit' = tx.deficit /\ tx' = NoTx /\ recency' = recency

\* After the last round one item of the least recently selected flow is
\* claimed whatever its deficit and size.
Bypass(w) ==
  /\ pc[w] = "flow" /\ tx.round = Multiplier
  /\ \E t \in LeastRecent(Considered(w)) :
       \E S \in Claims(JobsOf(t), 1,
                       ClaimUnits(t, Cardinality(Considered(w)) = 1), TRUE) :
         IF S = {}
         THEN EndFlowTx /\ Idle(w) /\ UNCHANGED taken
         ELSE /\ tx' = [tx EXCEPT !.flow = t, !.oversized = TRUE]
              /\ taken' = [taken EXCEPT ![w] = S]
              /\ pc' = [pc EXCEPT ![w] = "claimedFlow"]
              /\ UNCHANGED <<flows, next>>
  /\ UNCHANGED <<work, faults>>

\* No flow to claim from.  Without any active flow the worker falls back to
\* a model-capacity claim; otherwise it is done.
NoFlow(w) ==
  /\ pc[w] = "flow"
  /\ \/ ActiveFlows(w) = {} \/ TenantsFull(w)
     \/ tx.round = Multiplier /\ Considered(w) = {}
  /\ EndFlowTx
  /\ IF ActiveFlows(w) = {}
     THEN pc' = [pc EXCEPT ![w] = "fallback"] /\ UNCHANGED next
     ELSE Idle(w)
  /\ UNCHANGED <<work, taken, faults>>

Commit(w) ==
  /\ status' = [i \in Items |-> IF i \in taken[w] THEN "live" ELSE status[i]]
  /\ revived' = revived \ taken[w]
  /\ taken' = [taken EXCEPT ![w] = {}]
  /\ Idle(w) /\ UNCHANGED <<queue, faults>>

Floored(d) == Max({d, -MaxDeficit})

\* The claim is committed with the flow's debit and its turn.
CommitFlow(w) ==
  /\ pc[w] = "claimedFlow" /\ Commit(w)
  /\ LET t == tx.flow
     IN /\ deficit' = [tx.deficit EXCEPT ![t] = Floored(@ - WorkOf[taken[w]])]
        /\ recency' = Append(SelectSeq(recency, LAMBDA u : u # t), t)
  /\ tx' = NoTx

-----------------------------------------------------------------------------
(* The model-capacity claim.                                                *)

LockCapacity(w) ==
  /\ pc[w] = "fallback" /\ CapacityLockFree
  /\ pc' = [pc EXCEPT ![w] = "capacity"]
  /\ UNCHANGED <<work, flows, next, taken, tx, faults>>

ClaimCapacity(w) ==
  /\ pc[w] = "capacity"
  /\ LET jobs == {j \in Open : Runnable(j) # {}}
         fifo == Claimable(jobs, MaxWork, FALSE)
         S == IF RemainingSlots = 0 \/ fifo = {} THEN {}
              ELSE Slice(First(fifo), Min({MaxItems, RemainingSlots}),
                         MaxWork, FALSE)
     IN IF S = {} THEN Idle(w) /\ UNCHANGED taken
        ELSE /\ taken' = [taken EXCEPT ![w] = S]
             /\ pc' = [pc EXCEPT ![w] = "claimed"] /\ UNCHANGED next
  /\ UNCHANGED <<work, flows, tx, faults>>

CommitCapacity(w) ==
  /\ pc[w] = "claimed" /\ Commit(w) /\ UNCHANGED <<flows, tx>>

\* A transaction fails: its rows are as before, its locks are free.
Rollback(w) ==
  /\ HoldsFlowLock(w) \/ HoldsCapacityLock(w)
  /\ faults < MaxFaults /\ faults' = faults + 1
  /\ taken' = [taken EXCEPT ![w] = {}] /\ Idle(w)
  /\ tx' = IF HoldsFlowLock(w) THEN NoTx ELSE tx
  /\ UNCHANGED <<work, flows>>

-----------------------------------------------------------------------------
WorkerStep(w) ==
  \/ SelectModelGroup(w) \/ ListFlows(w) \/ FlowLockBusy(w) \/ LockFlows(w)
  \/ TryFlow(w) \/ Refill(w) \/ Bypass(w) \/ NoFlow(w) \/ CommitFlow(w)
  \/ LockCapacity(w) \/ ClaimCapacity(w) \/ CommitCapacity(w)

Next ==
  \/ \E w \in Workers : WorkerStep(w) \/ Rollback(w)
  \/ \E j \in Jobs : Submit(j)
  \/ \E i \in Items : Finish(i) \/ LeaseExpires(i) \/ RenewLease(i)

\* A worker polls forever; the holder of an item completes it, or the sweeper
\* and the retries of the item do.
Fairness ==
  /\ \A w \in Workers : WF_vars(WorkerStep(w))
  /\ \A i \in Items : WF_vars(Finish(i))

Spec == Init /\ [][Next]_vars /\ Fairness

-----------------------------------------------------------------------------
\* The items in flight never exceed the capacity of the model group, whoever
\* claims concurrently and however old the capacity a worker has read: the
\* count of the claim statement stays true until the commit.  The exception
\* are leases that expired, were not counted, and are renewed late.
CapacityKept ==
  Cardinality({i \in Items : status[i] = "live"} \ revived) <= MaxInFlight

\* A fair-share claim leaves its tenant within tenant_max_in_flight_work_units,
\* although the head items it decided by were read before the lock.  This is
\* promised of claims within the work limit only: an oversized head item that
\* was read is not the item the statement claims, and a lease renewed after
\* the work in flight was read is not counted.
FairClaimWithinTenantLimit ==
  [][\A t \in Tenants :
       tx.flow = t /\ deficit' # deficit
       /\ ~tx.oversized /\ LiveWork(t) <= tx.inFlight[t]
         => LiveWork(t)' <= TenantMax]_vars

Waiting(t) == \E j \in Open : TenantOf[j] = t /\ Runnable(j) # {}

\* As long as the model group has capacity, no tenant with runnable work waits
\* for ever, however much work the others submit.
NoTenantStarves ==
  \A t \in Tenants : Waiting(t) ~> (~Waiting(t) \/ Live(t) # {})
=============================================================================
