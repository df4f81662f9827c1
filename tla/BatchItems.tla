----------------------------- MODULE BatchItems -----------------------------
(***************************************************************************)
(* The execution of the items of one batch job by several worker           *)
(* processes: claiming a slice, item leases and heartbeats, the provider   *)
(* call, and the fenced statements that persist its outcome.               *)
(*                                                                         *)
(* The columns of deltallm_batch_item are the functions status, lockedBy,  *)
(* lease, epoch and response; outbox is the table of completion-outbox     *)
(* rows, whose item_id is unique.  A database statement or transaction is  *)
(* one step; everything between two awaits of a worker is interleaved      *)
(* with every other process.  Clocks are abstracted: a lease is "live"     *)
(* until LeaseElapses makes it "expired".                                  *)
(*                                                                         *)
(* A worker is one process.  Its worker_id carries a boot id, so a process *)
(* that restarts is a new worker and a crashed worker never comes back.    *)
(***************************************************************************)
EXTENDS Naturals, FiniteSets

CONSTANTS
  Items,          \* rows of deltallm_batch_item of the job
  Workers,        \* worker ids (role-hostname-pid-boot)
  NoWorker,       \* SQL NULL in locked_by
  SliceWorkers,   \* the workers in claim mode work_slice; the others are in
                  \* job_fifo (each process applies the setting by itself)
  CancelAllowed,  \* whether RequestCancel may happen
  MaxAttempts,    \* embeddings_batch_max_attempts
  ClaimLimit,     \* most items per claim
  MaxEpoch,       \* bound of the model: claims of one item
  MaxFaults       \* bound of the model: errors, stalls and crashes

ASSUME ConstantsAssumption ==
  /\ NoWorker \notin Workers
  /\ SliceWorkers \subseteq Workers
  /\ CancelAllowed \in BOOLEAN
  /\ MaxAttempts \in Nat \ {0}
  /\ ClaimLimit \in Nat \ {0}
  /\ MaxEpoch \in Nat
  /\ MaxFaults \in Nat

VARIABLES
  \* columns of the item rows
  status, lockedBy,
  lease,        \* lease_expires_at; a pending row's not_before_at is always
                \* written with the same time, so it needs no column of its own
  epoch,        \* claim_epoch; attempts is incremented by the same statements
                \* and by no other, so it is the same number
  response,     \* the claim whose response_body is stored
  outbox,       \* the claim whose payload the item's outbox row carries
  \* columns of the job row
  cancelRequested,
  retryFits,    \* NOW() + delay < expires_at
  \* the memory of the worker processes
  phase, slice,
  known,        \* claim_epoch (and attempts) of the loaded item records
  backlog,      \* loaded, not started, no heartbeat yet
  units,        \* started work units: an item, or the items of a micro-batch
  faults

rowVars    == <<status, lockedBy, lease, epoch, response>>
jobVars    == <<cancelRequested, retryFits>>
workerVars == <<phase, slice, known, backlog, units>>
vars       == <<rowVars, outbox, jobVars, workerVars, faults>>

Open       == {"pending", "in_progress"}
Terminal   == {"completed", "failed", "cancelled"}
ItemStatus == Open \cup Terminal
Lease      == {"none", "live", "expired"}

Claims  == [worker : Workers, epoch : Nat]
NoClaim == [worker |-> NoWorker, epoch |-> 0]

Phases == {"idle", "claimed", "cancel", "cancel_pending", "load", "claim",
           "working", "release", "dead"}
Steps  == {"calling", "answered", "persist1", "persist2", "requeue",
           "retry", "fail"}
Units  == [items : SUBSET Items, step : Steps]

TypeOK ==
  /\ status \in [Items -> ItemStatus]
  /\ lockedBy \in [Items -> Workers \cup {NoWorker}]
  /\ lease \in [Items -> Lease]
  /\ epoch \in [Items -> Nat]
  /\ response \in [Items -> Claims \cup {NoClaim}]
  /\ outbox \in [Items -> Claims \cup {NoClaim}]
  /\ cancelRequested \in BOOLEAN
  /\ retryFits \in BOOLEAN
  /\ phase \in [Workers -> Phases]
  /\ slice \in [Workers -> SUBSET Items]
  /\ known \in [Workers -> [Items -> Nat]]
  /\ backlog \in [Workers -> SUBSET Items]
  /\ units \in [Workers -> SUBSET Units]
  /\ faults \in Nat

Init ==
  /\ status = [i \in Items |-> "pending"]
  /\ lockedBy = [i \in Items |-> NoWorker]
  /\ lease = [i \in Items |-> "none"]
  /\ epoch = [i \in Items |-> 0]
  /\ response = [i \in Items |-> NoClaim]
  /\ outbox = [i \in Items |-> NoClaim]
  /\ cancelRequested = FALSE
  /\ retryFits = TRUE
  /\ phase = [w \in Workers |-> "idle"]
  /\ slice = [w \in Workers |-> {}]
  /\ known = [w \in Workers |-> [i \in Items |-> 0]]
  /\ backlog = [w \in Workers |-> {}]
  /\ units = [w \in Workers |-> {}]
  /\ faults = 0

-----------------------------------------------------------------------------
(* The WHERE clauses.                                                      *)

\* Faulty variants, used only to show that the properties can fail: they ignore
\* the lease of a row in progress, or never reclaim one.
RunnableIgnoringLease(i) ==
  \/ status[i] = "pending" /\ lease[i] # "live"
  \/ status[i] = "in_progress"
RunnablePendingOnly(i) == status[i] = "pending" /\ lease[i] # "live"

Runnable(i) ==
  \/ status[i] = "pending" /\ lease[i] # "live"
  \/ status[i] = "in_progress" /\ lease[i] = "expired"

\* Faulty variant: no locked_by and no claim_epoch in the fence.
OwnedByStatus(w, i) == status[i] = "in_progress"

\* The fence of every statement that persists an outcome: status, locked_by
\* and the claim_epoch of the record the worker loaded.
Owned(w, i) ==
  /\ status[i] = "in_progress"
  /\ lockedBy[i] = w
  /\ epoch[i] = known[w][i]

\* The fence of release_claim_items, which does not look at the epoch.
Locked(w, i) == status[i] = "in_progress" /\ lockedBy[i] = w

Set(f, S, v) == [i \in Items |-> IF i \in S THEN v ELSE f[i]]

\* Rows in S leave in_progress (or pending) for another status.
Settle(S, to, newLease) ==
  /\ status' = Set(status, S, to)
  /\ lockedBy' = Set(lockedBy, S, NoWorker)
  /\ lease' = Set(lease, S, newLease)
  /\ UNCHANGED epoch

Fault == faults < MaxFaults /\ faults' = faults + 1

\* The items worker w still works on or still means to work on.
UnitItems(w) == UNION {u.items : u \in units[w]}
Active(w) ==
  IF phase[w] \in {"claimed", "cancel", "load"} THEN slice[w]
  ELSE backlog[w] \cup UnitItems(w)

Replace(w, u, V) == units' = [units EXCEPT ![w] = (@ \ {u}) \cup V]
Move(w, u, s)    == Replace(w, u, {[u EXCEPT !.step = s]})
Drop(w, u)       == Replace(w, u, {})
GoTo(w, p)       == phase' = [phase EXCEPT ![w] = p]

\* Worker memory after process_once has returned or raised.
Forget(w, p) ==
  /\ GoTo(w, p)
  /\ backlog' = [backlog EXCEPT ![w] = {}]
  /\ units' = [units EXCEPT ![w] = {}]

-----------------------------------------------------------------------------
(* Claiming a slice.                                                       *)

\* SKIP LOCKED, the line-number prefix and the work-unit caps decide which
\* runnable rows are taken; any choice of at most ClaimLimit is allowed here.
TakeItems(w, S) ==
  /\ S # {}
  /\ Cardinality(S) <= ClaimLimit
  /\ \A i \in S : Runnable(i) /\ epoch[i] < MaxEpoch
  /\ status' = Set(status, S, "in_progress")
  /\ lockedBy' = Set(lockedBy, S, w)
  /\ lease' = Set(lease, S, "live")
  /\ epoch' = [i \in Items |-> IF i \in S THEN epoch[i] + 1 ELSE epoch[i]]
  /\ slice' = [slice EXCEPT ![w] = S]
  /\ UNCHANGED <<response, outbox, jobVars, units, faults>>

ClaimWork(w, S) ==
  /\ w \in SliceWorkers
  /\ phase[w] = "idle"
  /\ TakeItems(w, S)
  /\ GoTo(w, "claimed")
  /\ UNCHANGED <<known, backlog>>

\* get_job after the claim: the cancel request is seen here or not at all.
GetJob(w) ==
  /\ phase[w] = "claimed"
  /\ GoTo(w, IF cancelRequested THEN "cancel" ELSE "load")
  /\ UNCHANGED <<rowVars, outbox, jobVars, slice, known, backlog, units, faults>>

\* load_claim_items reads the rows by id only: a row that another worker has
\* reclaimed meanwhile is loaded with that worker's epoch.
LoadClaimItems(w) ==
  /\ phase[w] = "load"
  /\ known' = [known EXCEPT ![w] = [i \in Items |-> IF i \in slice[w] THEN epoch[i] ELSE 0]]
  /\ backlog' = [backlog EXCEPT ![w] = slice[w]]
  /\ GoTo(w, "working")
  /\ UNCHANGED <<rowVars, outbox, jobVars, slice, units, faults>>

\* The cancel branch: release the slice, then cancel what is pending.
CancelRelease(w) ==
  /\ phase[w] = "cancel"
  /\ Settle({i \in slice[w] : Locked(w, i)}, "pending", "none")
  /\ GoTo(w, "cancel_pending")
  /\ UNCHANGED <<response, outbox, jobVars, slice, known, backlog, units, faults>>

MarkPendingCancelled ==
  /\ Settle({i \in Items : status[i] = "pending"}, "cancelled", "none")
  /\ UNCHANGED <<response, outbox>>

CancelPending(w) ==
  /\ phase[w] = "cancel_pending"
  /\ MarkPendingCancelled
  /\ GoTo(w, IF w \in SliceWorkers THEN "idle" ELSE "claim")
  /\ UNCHANGED <<jobVars, slice, known, backlog, units, faults>>

\* claim_next_job returns the job record; cancel_requested_at is read from it.
ClaimJob(w) ==
  /\ w \notin SliceWorkers
  /\ phase[w] = "idle"
  /\ \E i \in Items : status[i] \in Open
  /\ GoTo(w, IF cancelRequested THEN "cancel_pending" ELSE "claim")
  /\ UNCHANGED <<rowVars, outbox, jobVars, slice, known, backlog, units, faults>>

\* claim_items returns the claimed rows themselves, so the epochs are this claim's.
ClaimItems(w, S) ==
  /\ phase[w] = "claim"
  /\ TakeItems(w, S)
  /\ known' = [known EXCEPT ![w] = [i \in Items |-> IF i \in S THEN epoch[i] + 1 ELSE 0]]
  /\ backlog' = [backlog EXCEPT ![w] = S]
  /\ GoTo(w, "working")

ClaimNothing(w) ==
  /\ phase[w] = "claim"
  /\ \A i \in Items : Runnable(i) => epoch[i] = MaxEpoch
  /\ GoTo(w, "idle")
  /\ UNCHANGED <<rowVars, outbox, jobVars, slice, known, backlog, units, faults>>

-----------------------------------------------------------------------------
(* Executing work units.                                                   *)

StartUnit(w, G) ==
  /\ phase[w] = "working"
  /\ G # {} /\ G \subseteq backlog[w]
  /\ backlog' = [backlog EXCEPT ![w] = @ \ G]
  /\ units' = [units EXCEPT ![w] = @ \cup {[items |-> G, step |-> "calling"]}]
  /\ UNCHANGED <<rowVars, outbox, jobVars, phase, slice, known, faults>>

\* renew_item_lease does not ask whether the lease still runs.
HeartbeatRenew(w, i) ==
  /\ \E u \in units[w] : i \in u.items /\ u.step \in {"calling", "answered"}
  /\ Owned(w, i)
  /\ lease[i] # "live"
  /\ lease' = [lease EXCEPT ![i] = "live"]
  /\ UNCHANGED <<status, lockedBy, epoch, response, outbox, jobVars, workerVars, faults>>

\* A heartbeat that finds the row gone cancels the provider call.
HeartbeatLost(w, u) ==
  /\ u \in units[w] /\ u.step = "calling"
  /\ \E i \in u.items : ~ Owned(w, i)
  /\ Drop(w, u)
  /\ UNCHANGED <<rowVars, outbox, jobVars, phase, slice, known, backlog, faults>>

CanRetry(w, i) == known[w][i] < MaxAttempts

\* _mark_item_failed starts with a retryable update when the attempt budget
\* allows one.
FailureUnit(w, i, retryable) ==
  [items |-> {i}, step |-> IF retryable /\ CanRetry(w, i) THEN "retry" ELSE "fail"]

\* The provider answers; the items in F of a chat micro-batch carry an error
\* of their own.
ProviderAnswers(w, u, F, retryable) ==
  /\ u \in units[w] /\ u.step = "calling"
  /\ F \subseteq u.items /\ F # u.items
  /\ Replace(w, u, {[items |-> u.items \ F, step |-> "answered"]}
                     \cup {FailureUnit(w, i, retryable) : i \in F})
  /\ UNCHANGED <<rowVars, outbox, jobVars, phase, slice, known, backlog, faults>>

\* Preparation, policy or the provider fails for the whole unit.  A group is
\* released for a later retry, run again item by item, or failed item by item.
ProviderFails(w, u, retryable) ==
  /\ u \in units[w] /\ u.step = "calling"
  /\ LET group == Cardinality(u.items) > 1
         each  == {FailureUnit(w, i, retryable) : i \in u.items}
         alone == {[items |-> {i}, step |-> "calling"] : i \in u.items}
     IN \/ Replace(w, u, each)
        \/ group /\ Replace(w, u, alone)
        \/ /\ group /\ retryable /\ \A i \in u.items : CanRetry(w, i)
           /\ Move(w, u, "retry")
  /\ UNCHANGED <<rowVars, outbox, jobVars, phase, slice, known, backlog, faults>>

\* The statement behind mark_item_failed(retryable) and release_items_for_retry
\* with a delay.  A single item whose retry is refused is failed for good; a
\* group of which nothing was released is handled item by item.
MarkRetry(w, u) ==
  /\ u \in units[w] /\ u.step = "retry"
  /\ LET released == IF retryFits THEN {i \in u.items : Owned(w, i)} ELSE {}
     IN /\ Settle(released, "pending", "live")
        /\ IF released # {} THEN Drop(w, u)
           ELSE IF Cardinality(u.items) = 1 THEN Move(w, u, "fail")
           ELSE \/ Replace(w, u, {[items |-> {i}, step |-> "calling"] : i \in u.items})
                \/ Replace(w, u, {FailureUnit(w, i, TRUE) : i \in u.items})
  /\ UNCHANGED <<response, outbox, jobVars, phase, slice, known, backlog, faults>>

MarkFailed(w, u) ==
  /\ u \in units[w] /\ u.step = "fail"
  /\ Settle({i \in u.items : Owned(w, i)}, "failed", "none")
  /\ Drop(w, u)
  /\ UNCHANGED <<response, outbox, jobVars, phase, slice, known, backlog, faults>>

\* _renew_item_lease_once for every item before persisting.
ConfirmLease(w, u) ==
  /\ u \in units[w] /\ u.step = "answered"
  /\ \A i \in u.items : Owned(w, i)
  /\ lease' = Set(lease, u.items, "live")
  /\ Move(w, u, "persist1")
  /\ UNCHANGED <<status, lockedBy, epoch, response, outbox, jobVars, phase, slice,
                 known, backlog, faults>>

\* A renewal is refused, or raises: the answer is thrown away, and the items
\* renewed before it keep their new lease.
ConfirmLost(w, u, renewed) ==
  /\ u \in units[w] /\ u.step = "answered"
  /\ renewed \subseteq {i \in u.items : Owned(w, i)} /\ renewed # u.items
  /\ IF \A i \in u.items : Owned(w, i) THEN Fault ELSE UNCHANGED faults
  /\ lease' = Set(lease, renewed, "live")
  /\ Drop(w, u)
  /\ UNCHANGED <<status, lockedBy, epoch, response, outbox, jobVars, phase, slice,
                 known, backlog>>

-----------------------------------------------------------------------------
(* complete_items_with_outbox_bulk: one transaction, all items or none.    *)

\* Faulty variant: the items complete without their outbox rows.
CompleteRowsUnbilled(w, S) ==
  /\ Settle(S, "completed", "none")
  /\ response' = [i \in Items |->
                    IF i \in S THEN [worker |-> w, epoch |-> known[w][i]] ELSE response[i]]
  /\ UNCHANGED outbox

CompleteRows(w, S) ==
  LET claim(i) == [worker |-> w, epoch |-> known[w][i]]
  IN /\ Settle(S, "completed", "none")
     /\ response' = [i \in Items |-> IF i \in S THEN claim(i) ELSE response[i]]
     /\ outbox' = [i \in Items |->
                     IF i \in S /\ outbox[i] = NoClaim THEN claim(i) ELSE outbox[i]]

\* The update must return every row and so must the insert into the outbox,
\* whose item_id is unique; otherwise the transaction is rolled back.
Committable(w, u) == \A i \in u.items : Owned(w, i) /\ outbox[i] = NoClaim

\* "completed", or "already_completed" / "not_owned" without an effect.
Persist(w, u) ==
  /\ u \in units[w] /\ u.step \in {"persist1", "persist2"}
  /\ IF Committable(w, u) THEN CompleteRows(w, u.items) ELSE UNCHANGED <<rowVars, outbox>>
  /\ Drop(w, u)
  /\ UNCHANGED <<jobVars, phase, slice, known, backlog, faults>>

\* The call raises: the transaction was rolled back, or it was committed and
\* only the answer was lost.
PersistRaises(w, u, committed) ==
  /\ u \in units[w] /\ u.step \in {"persist1", "persist2"}
  /\ Fault
  /\ IF committed /\ Committable(w, u) THEN CompleteRows(w, u.items)
     ELSE UNCHANGED <<rowVars, outbox>>
  /\ Move(w, u, IF u.step = "persist1" THEN "persist2" ELSE "requeue")
  /\ UNCHANGED <<jobVars, phase, slice, known, backlog>>

\* release_items_for_retry without a delay, after two failed attempts.
RequeueUnit(w, u) ==
  /\ u \in units[w] /\ u.step = "requeue"
  /\ Settle(IF retryFits THEN {i \in u.items : Owned(w, i)} ELSE {}, "pending", "none")
  /\ Drop(w, u)
  /\ UNCHANGED <<response, outbox, jobVars, phase, slice, known, backlog, faults>>

-----------------------------------------------------------------------------
(* The end of process_once, and processes that fail.                       *)

\* In job_fifo mode nothing is released: a dropped item waits for its lease.
FinishSlice(w) ==
  /\ phase[w] = "working" /\ backlog[w] = {} /\ units[w] = {}
  /\ GoTo(w, IF w \in SliceWorkers THEN "release" ELSE "idle")
  /\ UNCHANGED <<rowVars, outbox, jobVars, slice, known, backlog, units, faults>>

\* The finally block of _process_once_work_slice.
ReleaseClaim(w) ==
  /\ phase[w] = "release"
  /\ Settle({i \in slice[w] : Locked(w, i)}, "pending", "none")
  /\ GoTo(w, "idle")
  /\ UNCHANGED <<response, outbox, jobVars, slice, known, backlog, units, faults>>

\* An unhandled error unwinds process_once; in work_slice mode through the
\* finally block, whose own statement may fail too.
Abort(w) ==
  /\ phase[w] \notin {"idle", "dead"}
  /\ Fault
  /\ Forget(w, IF w \in SliceWorkers /\ phase[w] # "release" THEN "release" ELSE "idle")
  /\ UNCHANGED <<rowVars, outbox, jobVars, slice, known>>

\* The process dies; some other worker stays alive.
Crash(w) ==
  /\ phase[w] # "dead"
  /\ \E v \in Workers \ {w} : phase[v] # "dead"
  /\ Fault
  /\ Forget(w, "dead")
  /\ UNCHANGED <<rowVars, outbox, jobVars, slice, known>>

-----------------------------------------------------------------------------
(* Time, the stale-lease sweeper and the operators.                        *)

\* A retry delay ends, or the lease of a row nobody works on runs out.
LeaseElapses(i) ==
  /\ lease[i] = "live"
  /\ status[i] = "in_progress" => i \notin UNION {Active(w) : w \in {v \in Workers : lockedBy[i] = v}}
  /\ lease' = [lease EXCEPT ![i] = "expired"]
  /\ UNCHANGED <<status, lockedBy, epoch, response, outbox, jobVars, workerVars, faults>>

\* The lease of a row its owner still works on runs out: heartbeats failed,
\* or the item waits in the backlog, where nothing renews it.
LeaseStalls(i) ==
  /\ lease[i] = "live" /\ status[i] = "in_progress"
  /\ \E w \in Workers : lockedBy[i] = w /\ i \in Active(w)
  /\ Fault
  /\ lease' = [lease EXCEPT ![i] = "expired"]
  /\ UNCHANGED <<status, lockedBy, epoch, response, outbox, jobVars, workerVars>>

Stale(i) == status[i] = "in_progress" /\ lease[i] = "expired"

\* One page of the sweeper, or requeue_expired_in_progress_items (all of them).
RequeueStale(S) ==
  /\ S # {} /\ \A i \in S : Stale(i)
  /\ Settle(S, "pending", "none")
  /\ UNCHANGED <<response, outbox, jobVars, workerVars, faults>>

\* Faulty variant: the statement lost its status condition.
OperatorFailAll ==
  /\ \E i \in Items : status[i] \in Open
  /\ Settle(Items, "failed", "none")
  /\ UNCHANGED <<response, outbox, jobVars, workerVars, faults>>

\* fail_nonterminal_items, the operator's mark-failed repair.
OperatorFail ==
  /\ \E i \in Items : status[i] \in Open
  /\ Settle({i \in Items : status[i] \in Open}, "failed", "none")
  /\ UNCHANGED <<response, outbox, jobVars, workerVars, faults>>

RequestCancel ==
  /\ CancelAllowed /\ ~ cancelRequested
  /\ cancelRequested' = TRUE
  /\ UNCHANGED <<rowVars, outbox, retryFits, workerVars, faults>>

\* The job's expires_at comes too close for any retry delay.
DeadlineNears ==
  /\ retryFits
  /\ retryFits' = FALSE
  /\ UNCHANGED <<rowVars, outbox, cancelRequested, workerVars, faults>>

-----------------------------------------------------------------------------
\* What a healthy worker does next.
UnitStep(w, u) ==
  \/ HeartbeatLost(w, u)
  \/ \E F \in SUBSET u.items, r \in BOOLEAN : ProviderAnswers(w, u, F, r)
  \/ \E r \in BOOLEAN : ProviderFails(w, u, r)
  \/ MarkRetry(w, u) \/ MarkFailed(w, u)
  \/ ConfirmLease(w, u)
  \/ \E R \in SUBSET u.items : ConfirmLost(w, u, R)
  \/ Persist(w, u) \/ RequeueUnit(w, u)

SliceStep(w) ==
  \/ \E S \in SUBSET Items : ClaimWork(w, S) \/ ClaimItems(w, S)
  \/ ClaimJob(w) \/ ClaimNothing(w)
  \/ GetJob(w) \/ LoadClaimItems(w) \/ CancelRelease(w) \/ CancelPending(w)
  \/ \E G \in SUBSET backlog[w] : StartUnit(w, G)
  \/ FinishSlice(w) \/ ReleaseClaim(w)

WorkerStep(w) == SliceStep(w) \/ \E u \in units[w] : UnitStep(w, u)

WorkerFault(w) ==
  \/ Abort(w) \/ Crash(w)
  \/ \E u \in units[w], c \in BOOLEAN : PersistRaises(w, u, c)

Environment ==
  \/ \E i \in Items : LeaseElapses(i) \/ LeaseStalls(i)
  \/ \E S \in SUBSET Items : RequeueStale(S)
  \/ OperatorFail \/ RequestCancel \/ DeadlineNears

Next ==
  \/ \E w \in Workers : WorkerStep(w) \/ WorkerFault(w)
  \/ \E w \in Workers, i \in Items : HeartbeatRenew(w, i)
  \/ Environment

Spec == Init /\ [][Next]_vars

\* A live worker keeps working (its loop polls for ever, a provider call ends
\* by its timeout) and time passes.  Nothing is assumed of the sweeper, of the
\* operators or of heartbeats.
FairSpec ==
  /\ Spec
  /\ \A w \in Workers : WF_vars(WorkerStep(w))
  /\ \A i \in Items : WF_vars(LeaseElapses(i))

-----------------------------------------------------------------------------
(* Safety.                                                                 *)

\* A row names a lock holder exactly while it is in progress, such a row always
\* has a lease (so that it can expire and be reclaimed), and a terminal row has
\* none: every release, retry, failure, sweep and cancel statement of
\* item_repository and maintenance_repository clears what it must.
LeaseBookkeeping ==
  \A i \in Items :
    /\ lockedBy[i] # NoWorker <=> status[i] = "in_progress"
    /\ status[i] = "in_progress" => lease[i] # "none"
    /\ status[i] \in Terminal => lease[i] = "none"

\* An item has a completion-outbox row, and so is billed, exactly if it is
\* completed, and what is billed is the very attempt whose response is stored:
\* complete_items_with_outbox_bulk under lost leases, lost answers and retries.
BilledExactlyCompleted ==
  \A i \in Items :
    /\ outbox[i] # NoClaim <=> status[i] = "completed"
    /\ response[i] = outbox[i]

\* The stored response is that of the item's latest claim: a worker whose claim
\* was superseded can never write its answer (the claim_epoch fence).
LastClaimWins ==
  \A i \in Items : response[i] # NoClaim => response[i].epoch = epoch[i]

\* An item that waits for a delayed retry has attempts left
\* (_can_retry_item against embeddings_batch_max_attempts).
RetriesWithinBudget ==
  \A i \in Items :
    status[i] = "pending" /\ lease[i] # "none" => epoch[i] < MaxAttempts

\* No step changes the status of an item that is completed, failed or cancelled.
TerminalIsFinal ==
  [][\A i \in Items : status[i] \in Terminal => status'[i] = status[i]]_vars

\* While a worker's lease on an item runs nobody else claims the item; the
\* worker keeps it or the row is unlocked (released, settled, failed by an
\* operator) without a new claim.
ExclusiveWhileLeased ==
  [][\A i \in Items :
       status[i] = "in_progress" /\ lease[i] = "live" =>
         /\ lockedBy'[i] \in {lockedBy[i], NoWorker}
         /\ epoch'[i] = epoch[i]]_vars

\* The claim, lease and persistence protocol implements the item life cycle.
Lifecycle == INSTANCE BatchItemLifecycle
               WITH status <- status,
                    billed <- {i \in Items : outbox[i] # NoClaim}

RefinesLifecycle == Lifecycle!Spec

-----------------------------------------------------------------------------
(* The inductive invariant behind the safety properties.                   *)

\* Only a worker that executes a slice has work units.
UnitsOnlyWhileWorking ==
  \A w \in Workers : phase[w] # "working" => backlog[w] = {} /\ units[w] = {}

\* A unit about to be released for a retry consists of items that may retry.
RetryUnitsMayRetry ==
  \A w \in Workers : \A u \in units[w] :
    u.step = "retry" => \A i \in u.items : CanRetry(w, i)

IndInv ==
  /\ TypeOK
  /\ LeaseBookkeeping
  /\ BilledExactlyCompleted
  /\ LastClaimWins
  /\ RetriesWithinBudget
  /\ UnitsOnlyWhileWorking
  /\ RetryUnitsMayRetry

-----------------------------------------------------------------------------
(* Liveness.                                                               *)

\* Every item is completed, failed or cancelled in the end, although workers
\* crash, leases run out under them and transactions fail: an item dropped by
\* one worker is always picked up again, and the attempt budget ends the retries.
EventuallyTerminal == \A i \in Items : <>(status[i] \in Terminal)
=============================================================================
