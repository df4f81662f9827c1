-------------------------- MODULE CompletionOutbox --------------------------
(***************************************************************************)
(* The delivery of completion-outbox rows to the spend log by several      *)
(* outbox workers: the rows BatchItems inserts when an item completes are  *)
(* claimed under a lease, billed once by an idempotent insert, and marked  *)
(* sent, retrying or failed by statements fenced with locked_by alone.     *)
(*                                                                         *)
(* The columns of deltallm_batch_completion_outbox are the functions       *)
(* status, lockedBy, lease, due and attempts.  A transaction is one step.  *)
(* A worker id carries a boot id, so a crashed worker never comes back.    *)
(***************************************************************************)
EXTENDS Naturals, FiniteSets

CONSTANTS
  Completions,     \* completion ids
  Keyed,           \* the completions whose payload has an api_key
  Workers,         \* outbox worker ids
  NoWorker,        \* SQL NULL in locked_by
  MaxAttempts,     \* max_attempts of the rows
  MaxBatch,        \* max_batch_size
  MaxConcurrency,  \* max_concurrency
  MaxFaults        \* bound of the model: errors, stalls and crashes

ASSUME ConstantsAssumption ==
  /\ Keyed \subseteq Completions
  /\ NoWorker \notin Workers
  /\ MaxAttempts \in Nat \ {0}
  /\ MaxBatch \in Nat \ {0}
  /\ MaxConcurrency \in Nat \ {0}
  /\ MaxFaults \in Nat

VARIABLES
  \* columns of the outbox rows
  status, lockedBy,
  lease,      \* lease_expires_at
  due,        \* next_attempt_at <= NOW()
  attempts,   \* attempt_count
  \* the spend tables
  events,     \* ids in deltallm_spendlog_events
  charged,    \* how often the ledger was incremented for a completion
  \* the worker processes
  published,  \* how often the metrics of a completion were incremented
  up,         \* the workers that run
  records,    \* the claimed records a worker still processes
  faults

rowVars   == <<status, lockedBy, lease, due, attempts>>
spendVars == <<events, charged>>
vars      == <<rowVars, spendVars, published, up, records, faults>>

Settled == {"sent", "failed"}
Status  == {"absent", "queued", "retrying", "processing"} \cup Settled
Lease   == {"none", "live", "expired"}

\* "waiting" for the semaphore; "delivering" the transaction; "raised" an
\* exception; "publish" after a delivery that marked the row sent.
Steps   == {"waiting", "delivering", "raised", "publish"}
Records == [id : Completions, attempt : Nat, step : Steps]

TypeOK ==
  /\ status \in [Completions -> Status]
  /\ lockedBy \in [Completions -> Workers \cup {NoWorker}]
  /\ lease \in [Completions -> Lease]
  /\ due \in [Completions -> BOOLEAN]
  /\ attempts \in [Completions -> Nat]
  /\ events \in SUBSET Completions
  /\ charged \in [Completions -> Nat]
  /\ published \in [Completions -> Nat]
  /\ up \in SUBSET Workers
  /\ records \in [Workers -> SUBSET Records]
  /\ faults \in Nat

Init ==
  /\ status = [c \in Completions |-> "absent"]
  /\ lockedBy = [c \in Completions |-> NoWorker]
  /\ lease = [c \in Completions |-> "none"]
  /\ due = [c \in Completions |-> FALSE]
  /\ attempts = [c \in Completions |-> 0]
  /\ events = {}
  /\ charged = [c \in Completions |-> 0]
  /\ published = [c \in Completions |-> 0]
  /\ up = Workers
  /\ records = [w \in Workers |-> {}]
  /\ faults = 0

Fault == faults < MaxFaults /\ faults' = faults + 1

-----------------------------------------------------------------------------
(* The repository's statements.                                            *)

\* A row the item transaction inserts: queued, due at once.
Enqueue(c) ==
  /\ status[c] = "absent"
  /\ status' = [status EXCEPT ![c] = "queued"]
  /\ due' = [due EXCEPT ![c] = TRUE]
  /\ UNCHANGED <<lockedBy, lease, attempts, spendVars, published, up, records, faults>>

\* Faulty variant: an abandoned row is never reclaimed.
ClaimableFresh(c) == status[c] \in {"queued", "retrying"} /\ due[c]

Claimable(c) ==
  \/ status[c] \in {"queued", "retrying"} /\ due[c]
  \/ status[c] = "processing" /\ lease[c] = "expired"

\* claim_due; SKIP LOCKED and the limit decide which rows are taken.
ClaimDue(w, S) ==
  /\ S # {} /\ Cardinality(S) <= MaxBatch
  /\ \A c \in S : Claimable(c)
  /\ status' = [c \in Completions |-> IF c \in S THEN "processing" ELSE status[c]]
  /\ attempts' = [c \in Completions |-> IF c \in S THEN attempts[c] + 1 ELSE attempts[c]]
  /\ lockedBy' = [c \in Completions |-> IF c \in S THEN w ELSE lockedBy[c]]
  /\ lease' = [c \in Completions |-> IF c \in S THEN "live" ELSE lease[c]]
  /\ UNCHANGED due

\* The WHERE clause of mark_sent, mark_retry, mark_failed and renew_lease.
Owned(w, c) == status[c] = "processing" /\ lockedBy[c] = w

\* mark_sent, mark_retry and mark_failed.
Mark(w, c, to, isDue) ==
  IF Owned(w, c)
  THEN /\ status' = [status EXCEPT ![c] = to]
       /\ lockedBy' = [lockedBy EXCEPT ![c] = NoWorker]
       /\ lease' = [lease EXCEPT ![c] = "none"]
       /\ due' = [due EXCEPT ![c] = isDue]
       /\ UNCHANGED attempts
  ELSE UNCHANGED rowVars

\* Faulty variant: the ledger is incremented for a duplicate event too.
LogSpendTwice(c) ==
  /\ events' = events \cup {c}
  /\ charged' = [charged EXCEPT ![c] = @ + 1]

\* Insert the event ON CONFLICT (id) DO NOTHING; increment the ledger only if
\* a row was inserted.
LogSpendOnce(c) ==
  IF c \in events
  THEN UNCHANGED spendVars
  ELSE /\ events' = events \cup {c}
       /\ charged' = [charged EXCEPT ![c] = @ + 1]

\* The transaction of _record_durable_success.  It commits the spend even if
\* mark_sent matches no row.
Transaction(w, c) ==
  /\ IF c \in Keyed THEN LogSpendOnce(c) ELSE UNCHANGED spendVars
  /\ Mark(w, c, "sent", due[c])

-----------------------------------------------------------------------------
(* The worker.                                                             *)

Replace(w, r, R) == records' = [records EXCEPT ![w] = (@ \ {r}) \cup R]
Move(w, r, s)    == Replace(w, r, {[r EXCEPT !.step = s]})
Drop(w, r)       == Replace(w, r, {})

\* The claimed rows as the records RETURNING hands out.
Returned(S) == {[id |-> c, attempt |-> attempts[c] + 1, step |-> "waiting"] : c \in S}

\* process_once claims only after the gather over its last claim has returned.
ProcessOnce(w, S) ==
  /\ w \in up /\ records[w] = {}
  /\ ClaimDue(w, S)
  /\ records' = [records EXCEPT ![w] = Returned(S)]
  /\ UNCHANGED <<spendVars, published, up, faults>>

\* The claim commits but its answer is lost: run() logs and polls again, and
\* nothing renews the leases.
ClaimAnswerLost(w, S) ==
  /\ w \in up /\ records[w] = {}
  /\ Fault
  /\ ClaimDue(w, S)
  /\ UNCHANGED <<spendVars, published, up, records>>

\* The semaphore lets a record in; its heartbeat starts only now.
StartRecord(w, r) ==
  /\ r.step = "waiting"
  /\ Cardinality({q \in records[w] : q.step # "waiting"}) < MaxConcurrency
  /\ Move(w, r, "delivering")
  /\ UNCHANGED <<rowVars, spendVars, published, up, faults>>

Deliver(w, r) ==
  /\ r.step = "delivering"
  /\ Transaction(w, r.id)
  /\ IF Owned(w, r.id) THEN Move(w, r, "publish") ELSE Drop(w, r)
  /\ UNCHANGED <<published, up, faults>>

\* The transaction raises: rolled back, or committed with its answer lost.
DeliverRaises(w, r, committed) ==
  /\ r.step = "delivering"
  /\ Fault
  /\ IF committed THEN Transaction(w, r.id) ELSE UNCHANGED <<rowVars, spendVars>>
  /\ Move(w, r, "raised")
  /\ UNCHANGED <<published, up>>

PublishMetrics(w, r) ==
  /\ r.step = "publish"
  /\ published' = [published EXCEPT ![r.id] = @ + 1]
  /\ Drop(w, r)
  /\ UNCHANGED <<rowVars, spendVars, up, faults>>

Exhausted(r) == r.attempt >= MaxAttempts

MarkFailed(w, r) ==
  /\ r.step = "raised" /\ Exhausted(r)
  /\ Mark(w, r.id, "failed", due[r.id])
  /\ Drop(w, r)
  /\ UNCHANGED <<spendVars, published, up, faults>>

MarkRetry(w, r) ==
  /\ r.step = "raised" /\ ~ Exhausted(r)
  /\ Mark(w, r.id, "retrying", FALSE)
  /\ Drop(w, r)
  /\ UNCHANGED <<spendVars, published, up, faults>>

\* mark_failed or mark_retry raises: record_unhandled; the row keeps its lease.
MarkRaises(w, r) ==
  /\ r.step = "raised"
  /\ Fault
  /\ Drop(w, r)
  /\ UNCHANGED <<rowVars, spendVars, published, up>>

\* The heartbeat runs from the start of a record to its mark.  A lost lease
\* only ends the heartbeat; the delivery goes on.
Heartbeat(w, r) ==
  /\ r.step \in {"delivering", "raised"}
  /\ Owned(w, r.id) /\ lease[r.id] = "expired"
  /\ lease' = [lease EXCEPT ![r.id] = "live"]
  /\ UNCHANGED <<status, lockedBy, due, attempts, spendVars, published, up, records, faults>>

\* A replica goes down, with its records; another one keeps running.
Crash(w) ==
  /\ w \in up /\ up # {w}
  /\ Fault
  /\ up' = up \ {w}
  /\ records' = [records EXCEPT ![w] = {}]
  /\ UNCHANGED <<rowVars, spendVars, published>>

-----------------------------------------------------------------------------
(* Time.                                                                   *)

Expire(c) ==
  /\ lease[c] = "live"
  /\ lease' = [lease EXCEPT ![c] = "expired"]
  /\ UNCHANGED <<status, lockedBy, due, attempts, spendVars, published, up, records>>

Held(c) == \E w \in Workers : lockedBy[c] = w /\ \E r \in records[w] : r.id = c

\* The lease of a row nobody processes any more runs out.
LeaseElapses(c) == ~ Held(c) /\ Expire(c) /\ UNCHANGED faults

\* The lease runs out under its worker: heartbeats fail, or the record waits
\* for the semaphore, where nothing renews it.
LeaseStalls(c) == Held(c) /\ Expire(c) /\ Fault

\* The retry delay is over.
RetryDue(c) ==
  /\ status[c] = "retrying" /\ ~ due[c]
  /\ due' = [due EXCEPT ![c] = TRUE]
  /\ UNCHANGED <<status, lockedBy, lease, attempts, spendVars, published, up, records, faults>>

-----------------------------------------------------------------------------
WorkerStep(w) ==
  \/ \E S \in SUBSET Completions : ProcessOnce(w, S)
  \/ \E r \in records[w] :
       \/ StartRecord(w, r) \/ Deliver(w, r) \/ PublishMetrics(w, r)
       \/ MarkFailed(w, r) \/ MarkRetry(w, r)

WorkerFault(w) ==
  \/ \E S \in SUBSET Completions : ClaimAnswerLost(w, S)
  \/ \E r \in records[w] :
       \/ \E committed \in BOOLEAN : DeliverRaises(w, r, committed)
       \/ MarkRaises(w, r)
  \/ Crash(w)

Time(c) == LeaseElapses(c) \/ LeaseStalls(c) \/ RetryDue(c)

Next ==
  \/ \E w \in Workers : WorkerStep(w) \/ WorkerFault(w)
  \/ \E w \in Workers : \E r \in records[w] : Heartbeat(w, r)
  \/ \E c \in Completions : Enqueue(c) \/ Time(c)

Spec == Init /\ [][Next]_vars

\* A running worker polls for ever and every database call ends; time passes.
\* Nothing is assumed of heartbeats or of the item workers that enqueue.
FairSpec ==
  /\ Spec
  /\ \A w \in Workers : WF_vars(WorkerStep(w))
  /\ \A c \in Completions : WF_vars(LeaseElapses(c)) /\ WF_vars(RetryDue(c))

-----------------------------------------------------------------------------
(* Safety.                                                                 *)

\* However often a row is claimed, delivered twice by two workers or redelivered
\* after a lost answer, the ledger is incremented at most once for it, and a row
\* marked sent whose payload has an api key has been charged (log_spend_once and
\* mark_sent in one transaction).
ChargedOnce ==
  \A c \in Completions :
    /\ charged[c] <= 1
    /\ status[c] = "sent" /\ c \in Keyed => charged[c] = 1

\* Metrics are published at most once per completion, and never for a row that
\* is not sent: of all deliveries only the one whose mark_sent matched publishes.
PublishedOnce ==
  \A c \in Completions :
    /\ published[c] <= 1
    /\ published[c] = 1 => status[c] = "sent"

\* The fence holds although it names no claim: a record whose row its worker
\* still has locked is of the row's latest claim, because process_once never
\* claims while it has records left.
FenceNamesTheClaim ==
  \A w \in Workers : \A r \in records[w] :
    Owned(w, r.id) => r.attempt = attempts[r.id]

\* A row is given up only after its attempt budget.
GivesUpAfterBudget ==
  \A c \in Completions : status[c] = "failed" => attempts[c] >= MaxAttempts

\* A sent or failed row never changes again, late answers and expired leases
\* notwithstanding.
SettledIsFinal ==
  [][\A c \in Completions :
       status[c] \in Settled =>
         status'[c] = status[c] /\ attempts'[c] = attempts[c]]_vars

-----------------------------------------------------------------------------
(* The inductive invariant behind the safety properties.                   *)

\* The ledger and the spend log agree, and a keyed row that was sent is in both.
LedgerMatchesEvents ==
  \A c \in Completions :
    /\ charged[c] = IF c \in events THEN 1 ELSE 0
    /\ status[c] = "sent" /\ c \in Keyed => c \in events

\* A record that will publish is the only one of its row to do so: the row is
\* sent and its metrics are still unpublished.
OnePublisher ==
  /\ \A w \in Workers : \A r \in records[w] :
       r.step = "publish" => status[r.id] = "sent" /\ published[r.id] = 0
  /\ \A v, w \in Workers : \A q \in records[v], r \in records[w] :
       q.step = "publish" /\ r.step = "publish" /\ q.id = r.id => v = w /\ q = r

\* published is 0 unless the row is sent, and never exceeds 1.
PublishedOnlySent ==
  \A c \in Completions :
    published[c] = 0 \/ (published[c] = 1 /\ status[c] = "sent")

IndInv ==
  /\ TypeOK
  /\ LedgerMatchesEvents
  /\ OnePublisher
  /\ PublishedOnlySent
  /\ FenceNamesTheClaim
  /\ GivesUpAfterBudget

-----------------------------------------------------------------------------
(* Liveness.                                                               *)

\* Every enqueued row is sent or failed in the end, whatever its workers lose.
EventuallySettled ==
  \A c \in Completions : status[c] = "queued" ~> status[c] \in Settled
=============================================================================
