-------------------------- MODULE BatchCreateSession --------------------------
(***************************************************************************)
(* Creating a batch: a request stages its items in an artifact, records a  *)
(* create session, and promotes the session into a job in one transaction. *)
(* Requests with the same idempotency key share a session; the operator    *)
(* retries and expires sessions; a cleanup worker removes old rows and     *)
(* artifacts no row refers to.                                             *)
(*                                                                         *)
(* A statement or a storage call is one step.  The promotion transaction   *)
(* takes several: the row lock, the advisory lock of the scope, the count  *)
(* of active jobs, and the commit.  All requests are of one scope.         *)
(***************************************************************************)
EXTENDS Naturals, FiniteSets

CONSTANTS
  Requests,      \* concurrent requests of clients and of the operator
  Sessions,      \* session ids; a session's artifact and target batch are
                 \* named by it (both get a fresh uuid)
  Keys,          \* idempotency keys
  NoKey,         \* a request without one
  NoSession,
  MaxPending,    \* max_pending_batches_per_scope
  MaxFaults      \* bound of the model: errors, lost answers, crashes

ASSUME ConstantsAssumption ==
  /\ NoKey \notin Keys /\ NoSession \notin Sessions
  /\ MaxPending \in Nat \ {0} /\ MaxFaults \in Nat

VARIABLES
  status,     \* deltallm_batch_create_session.status, "none" without a row
  aged,       \* sessions whose row is older than the retention of its status
  keyOf,      \* the idempotency key a session was staged with
  artifact,   \* the staged items in the object storage
  job,        \* the target batch
  phase,      \* where each request is
  target,     \* the session a request works on
  want,       \* the idempotency key of a request
  sweep,      \* where the cleanup worker is
  candidate,  \* the session it looks at
  same,       \* whether that row is as it was listed
  expiring,   \* sessions the operator has expired but whose artifact is left
  forgotten,  \* history: completed sessions removed after their retention
  mislaid,    \* history: sessions whose INSERT committed without an answer
  faults

requestVars == <<phase, target, want>>
cleanerVars == <<sweep, candidate>>
history     == <<forgotten, mislaid>>
vars == <<status, aged, keyOf, artifact, job, requestVars, cleanerVars, same, expiring,
          history, faults>>

Promotable == {"staged", "failed_retryable"}
Statuses   == Promotable \cup {"completed", "failed_permanent", "expired"}
InTx       == {"tx_scope", "tx_count", "tx_commit"}
Phases     == InTx \cup {"idle", "prepare", "insert", "compensate", "raced", "promote",
                         "spool", "tx_lock", "fail_retryable", "fail_permanent"}
Present    == {"fresh", "old"}

TypeOK ==
  /\ status \in [Sessions -> Statuses \cup {"none"}]
  /\ aged \in SUBSET Sessions
  /\ keyOf \in [Sessions -> Keys \cup {NoKey}]
  /\ artifact \in [Sessions -> Present \cup {"none", "deleted"}]
  /\ job \in [Sessions -> {"none", "active", "ended", "deleted"}]
  /\ phase \in [Requests -> Phases]
  /\ target \in [Requests -> Sessions \cup {NoSession}]
  /\ want \in [Requests -> Keys \cup {NoKey}]
  /\ sweep \in {"idle", "delete_row", "delete_artifact", "delete_orphan"}
  /\ candidate \in Sessions \cup {NoSession}
  /\ same \in BOOLEAN
  /\ expiring \in SUBSET Sessions
  /\ forgotten \in SUBSET Sessions /\ mislaid \in SUBSET Sessions
  /\ faults \in Nat

Init ==
  /\ status = [s \in Sessions |-> "none"]
  /\ aged = {}
  /\ keyOf = [s \in Sessions |-> NoKey]
  /\ artifact = [s \in Sessions |-> "none"]
  /\ job = [s \in Sessions |-> "none"]
  /\ phase = [r \in Requests |-> "idle"]
  /\ target = [r \in Requests |-> NoSession]
  /\ want = [r \in Requests |-> NoKey]
  /\ sweep = "idle" /\ candidate = NoSession /\ same = FALSE
  /\ expiring = {}
  /\ forgotten = {} /\ mislaid = {}
  /\ faults = 0

Fault == faults < MaxFaults /\ faults' = faults + 1
GoTo(r, p) == phase' = [phase EXCEPT ![r] = p]
Answer(r)  ==
  /\ phase' = [phase EXCEPT ![r] = "idle"]
  /\ target' = [target EXCEPT ![r] = NoSession]
  /\ want' = [want EXCEPT ![r] = NoKey]

Active == {s \in Sessions : job[s] = "active"}

\* Another request holds the row lock of SELECT ... FOR UPDATE.
Locked(s) == \E q \in Requests : phase[q] \in InTx /\ target[q] = s

\* get_session_by_idempotency_key; the pair is unique.
WithKey(k) == {s \in Sessions : k # NoKey /\ keyOf[s] = k /\ status[s] # "none"}

\* Every update of a row changes its status or one of its timestamps, which is
\* what delete_cleanup_candidate compares.
Update(s, to) ==
  /\ status' = [status EXCEPT ![s] = to]
  /\ aged' = aged \ {s}
  /\ same' = (same /\ candidate # s)
RowsUnchanged == UNCHANGED <<status, aged, same>>

-----------------------------------------------------------------------------
(* A request: create_batch.                                                *)

\* _resolve_existing_session, for a request that matches the session.
ResolveTo(r, k, s) ==
  IF status[s] \in {"failed_permanent", "expired"}
  THEN Answer(r)
  ELSE /\ GoTo(r, "promote")
       /\ target' = [target EXCEPT ![r] = s]
       /\ want' = [want EXCEPT ![r] = k]

\* The lookup of the key.
CreateBatch(r, k) ==
  /\ phase[r] = "idle"
  /\ IF WithKey(k) # {}
     THEN \E s \in WithKey(k) : ResolveTo(r, k, s)
     ELSE /\ GoTo(r, "prepare")
          /\ want' = [want EXCEPT ![r] = k]
          /\ UNCHANGED target
  /\ RowsUnchanged
  /\ UNCHANGED <<keyOf, artifact, job, cleanerVars, expiring, history, faults>>

\* retry_session of the operator.
AdminRetry(r, s) ==
  /\ phase[r] = "idle" /\ status[s] \in Promotable
  /\ GoTo(r, "promote")
  /\ target' = [target EXCEPT ![r] = s]
  /\ RowsUnchanged
  /\ UNCHANGED <<keyOf, artifact, job, want, cleanerVars, expiring, history, faults>>

\* _precheck_pending_batch_capacity refuses with 429.
RejectedEarly(r) ==
  /\ phase[r] = "prepare" /\ Cardinality(Active) >= MaxPending
  /\ Answer(r)
  /\ RowsUnchanged
  /\ UNCHANGED <<keyOf, artifact, job, cleanerVars, expiring, history, faults>>

\* write_records: the parsed items go to an artifact with a fresh name.
WriteRecords(r, s) ==
  /\ phase[r] = "prepare" /\ Cardinality(Active) < MaxPending
  /\ artifact[s] = "none"
  /\ artifact' = [artifact EXCEPT ![s] = "fresh"]
  /\ keyOf' = [keyOf EXCEPT ![s] = want[r]]
  /\ target' = [target EXCEPT ![r] = s]
  /\ GoTo(r, "insert")
  /\ RowsUnchanged
  /\ UNCHANGED <<job, want, cleanerVars, expiring, history, faults>>

\* A line is invalid or the storage fails; a raced session is still looked up.
WriteFails(r) ==
  /\ phase[r] = "prepare"
  /\ Fault
  /\ GoTo(r, "raced")
  /\ RowsUnchanged
  /\ UNCHANGED <<keyOf, artifact, job, target, want, cleanerVars, expiring, history>>

Inserted(s) ==
  /\ WithKey(keyOf[s]) = {}
  /\ Update(s, "staged")

\* create_session.
InsertSession(r) ==
  /\ phase[r] = "insert"
  /\ Inserted(target[r])
  /\ GoTo(r, "promote")
  /\ UNCHANGED <<keyOf, artifact, job, target, want, cleanerVars, expiring, history, faults>>

\* The unique index refuses the key.
InsertConflicts(r) ==
  /\ phase[r] = "insert"
  /\ WithKey(want[r]) # {}
  /\ GoTo(r, "compensate")
  /\ RowsUnchanged
  /\ UNCHANGED <<keyOf, artifact, job, target, want, cleanerVars, expiring, history, faults>>

\* The statement raises, before or after it took effect.
InsertRaises(r) ==
  /\ phase[r] = "insert"
  /\ Fault
  /\ \/ RowsUnchanged /\ UNCHANGED mislaid
     \/ Inserted(target[r]) /\ mislaid' = mislaid \cup {target[r]}
  /\ GoTo(r, "compensate")
  /\ UNCHANGED <<keyOf, artifact, job, target, want, cleanerVars, expiring, forgotten>>

\* _compensate_orphaned_artifact, which gives up after three attempts.
Compensate(r) ==
  /\ phase[r] = "compensate"
  /\ \/ /\ artifact' = [artifact EXCEPT ![target[r]] = "deleted"]
        /\ UNCHANGED faults
     \/ Fault /\ UNCHANGED artifact
  /\ GoTo(r, "raced")
  /\ target' = [target EXCEPT ![r] = NoSession]
  /\ RowsUnchanged
  /\ UNCHANGED <<keyOf, job, want, cleanerVars, expiring, history>>

\* The second lookup of the key, after staging failed.
ResolveRaced(r) ==
  /\ phase[r] = "raced"
  /\ IF WithKey(want[r]) # {}
     THEN \E s \in WithKey(want[r]) : ResolveTo(r, want[r], s)
     ELSE Answer(r)
  /\ RowsUnchanged
  /\ UNCHANGED <<keyOf, artifact, job, cleanerVars, expiring, history, faults>>

-----------------------------------------------------------------------------
(* promote_session.                                                        *)

\* The read of the session and the soft check of the capacity; a completed
\* session is answered with its batch, any other one with an error.
Promote(r) ==
  /\ phase[r] = "promote"
  /\ IF status[target[r]] \in Promotable /\ Cardinality(Active) < MaxPending
     THEN GoTo(r, "spool") /\ UNCHANGED <<target, want>>
     ELSE Answer(r)
  /\ RowsUnchanged
  /\ UNCHANGED <<keyOf, artifact, job, cleanerVars, expiring, history, faults>>

\* _spool_staged_items; without its artifact the promotion fails as retryable.
Spool(r) ==
  /\ phase[r] = "spool"
  /\ GoTo(r, IF artifact[target[r]] \in Present THEN "tx_lock" ELSE "fail_retryable")
  /\ RowsUnchanged
  /\ UNCHANGED <<keyOf, artifact, job, target, want, cleanerVars, expiring, history, faults>>

\* The artifact is unreadable for now, or invalid for good.
SpoolFails(r) ==
  /\ phase[r] = "spool"
  /\ Fault
  /\ \/ GoTo(r, "fail_retryable")
     \/ GoTo(r, "fail_permanent")
  /\ RowsUnchanged
  /\ UNCHANGED <<keyOf, artifact, job, target, want, cleanerVars, expiring, history>>

\* get_session_for_update, get_job and what follows from them.  The job of a
\* promotable session is not expected to exist; it would be adopted.
TxLock(r) ==
  /\ phase[r] = "tx_lock" /\ ~ Locked(target[r])
  /\ LET s == target[r]
         adopt == status[s] \in Promotable /\ job[s] \in {"active", "ended"}
         found == status[s] = "completed" /\ job[s] # "deleted"
     IN /\ IF adopt THEN Update(s, "completed") ELSE RowsUnchanged
        /\ IF adopt \/ found THEN Answer(r)
           ELSE /\ GoTo(r, IF status[s] \in Promotable THEN "tx_scope" ELSE "fail_permanent")
                /\ UNCHANGED <<target, want>>
  /\ UNCHANGED <<keyOf, artifact, job, cleanerVars, expiring, history, faults>>

\* Faulty variant: the lock is not exclusive.
ScopeFreeAlways == TRUE

\* pg_advisory_xact_lock: held until the transaction ends.
ScopeFree == ~ \E q \in Requests : phase[q] \in {"tx_count", "tx_commit"}

\* acquire_scope_advisory_lock.
TxScope(r) ==
  /\ phase[r] = "tx_scope" /\ ScopeFree
  /\ GoTo(r, "tx_count")
  /\ RowsUnchanged
  /\ UNCHANGED <<keyOf, artifact, job, target, want, cleanerVars, expiring, history, faults>>

\* _enforce_pending_capacity.
TxCount(r) ==
  /\ phase[r] = "tx_count"
  /\ GoTo(r, IF Cardinality(Active) < MaxPending THEN "tx_commit" ELSE "fail_retryable")
  /\ RowsUnchanged
  /\ UNCHANGED <<keyOf, artifact, job, target, want, cleanerVars, expiring, history, faults>>

\* create_job, _insert_items_from_spool and mark_session_completed commit.
Committed(s) ==
  /\ job' = [job EXCEPT ![s] = "active"]
  /\ Update(s, "completed")

TxCommit(r) ==
  /\ phase[r] = "tx_commit"
  /\ Committed(target[r])
  /\ Answer(r)
  /\ UNCHANGED <<keyOf, artifact, cleanerVars, expiring, history, faults>>

\* The transaction raises anywhere, or its commit is not answered.
TxRaises(r) ==
  /\ phase[r] \in InTx
  /\ Fault
  /\ \/ RowsUnchanged /\ UNCHANGED job
     \/ phase[r] = "tx_commit" /\ Committed(target[r])
  /\ GoTo(r, "fail_retryable")
  /\ UNCHANGED <<keyOf, artifact, target, want, cleanerVars, expiring, history>>

\* Faulty variant: the update applies to completed sessions too.
FailsFromAny == Promotable \cup {"completed"}

\* from_statuses of the recorders.
FailsFrom == Promotable

\* _record_failure: the update is fenced by the promotable statuses.
RecordFailure(r) ==
  /\ phase[r] \in {"fail_retryable", "fail_permanent"} /\ ~ Locked(target[r])
  /\ IF status[target[r]] \in FailsFrom
     THEN Update(target[r], IF phase[r] = "fail_retryable"
                            THEN "failed_retryable" ELSE "failed_permanent")
     ELSE RowsUnchanged
  /\ Answer(r)
  /\ UNCHANGED <<keyOf, artifact, job, cleanerVars, expiring, history, faults>>

\* The process dies or the request is cancelled: no handler runs, and an open
\* transaction is rolled back.
Crash(r) ==
  /\ phase[r] # "idle"
  /\ Fault
  /\ Answer(r)
  /\ RowsUnchanged
  /\ UNCHANGED <<keyOf, artifact, job, cleanerVars, expiring, history>>

-----------------------------------------------------------------------------
(* The operator's expire_session.                                          *)

ExpireSession(s) ==
  /\ status[s] \in Promotable \cup {"failed_permanent"} /\ ~ Locked(s)
  /\ Update(s, "expired")
  /\ expiring' = expiring \cup {s}
  /\ UNCHANGED <<keyOf, artifact, job, requestVars, cleanerVars, history, faults>>

ExpireArtifact(s) ==
  /\ s \in expiring
  /\ \/ /\ artifact' = [artifact EXCEPT ![s] = "deleted"]
        /\ UNCHANGED faults
     \/ Fault /\ UNCHANGED artifact
  /\ expiring' = expiring \ {s}
  /\ RowsUnchanged
  /\ UNCHANGED <<keyOf, job, requestVars, cleanerVars, history>>

-----------------------------------------------------------------------------
(* The cleanup worker's process_once, candidate by candidate.              *)

\* list_cleanup_candidates; a staged row never is one.
ListCandidate(s) ==
  /\ sweep = "idle"
  /\ \/ status[s] = "expired"
     \/ status[s] \in {"completed", "failed_retryable", "failed_permanent"} /\ s \in aged
  /\ sweep' = "delete_row" /\ candidate' = s /\ same' = TRUE
  /\ UNCHANGED <<status, aged, keyOf, artifact, job, requestVars, expiring, history, faults>>

Idle == sweep' = "idle" /\ candidate' = NoSession

\* Faulty variant: the row is found by its id alone.
AsListedById == TRUE

\* The status and the timestamps are those the worker has listed.
AsListed == same

\* delete_cleanup_candidate: nothing is deleted if the row has changed.
DeleteCandidate ==
  /\ sweep = "delete_row" /\ ~ Locked(candidate)
  /\ IF AsListed
     THEN /\ status' = [status EXCEPT ![candidate] = "none"]
          /\ aged' = aged \ {candidate}
          /\ forgotten' = IF status[candidate] = "completed" /\ candidate \in aged
                          THEN forgotten \cup {candidate} ELSE forgotten
          /\ sweep' = "delete_artifact" /\ UNCHANGED candidate
     ELSE Idle /\ UNCHANGED <<status, aged, forgotten>>
  /\ same' = FALSE
  /\ UNCHANGED <<keyOf, artifact, job, requestVars, expiring, mislaid, faults>>

DeleteArtifact ==
  /\ sweep \in {"delete_artifact", "delete_orphan"}
  /\ \/ /\ artifact' = [artifact EXCEPT ![candidate] = "deleted"]
        /\ UNCHANGED faults
     \/ Fault /\ UNCHANGED artifact
  /\ Idle
  /\ RowsUnchanged
  /\ UNCHANGED <<keyOf, job, requestVars, expiring, history>>

\* Faulty variant: the reference is not looked up.
ReferencedNever(s) == FALSE

\* is_stage_artifact_referenced.
Referenced(s) == status[s] # "none"

\* list_orphan_candidates and is_stage_artifact_referenced.
FindOrphan(s) ==
  /\ sweep = "idle"
  /\ artifact[s] = "old" /\ ~ Referenced(s)
  /\ sweep' = "delete_orphan" /\ candidate' = s
  /\ RowsUnchanged
  /\ UNCHANGED <<keyOf, artifact, job, requestVars, expiring, history, faults>>

-----------------------------------------------------------------------------
(* Batches and time.                                                       *)

\* The workers finish the batch (BatchJob).
JobEnds(s) ==
  /\ job[s] = "active"
  /\ job' = [job EXCEPT ![s] = "ended"]
  /\ RowsUnchanged
  /\ UNCHANGED <<keyOf, artifact, requestVars, cleanerVars, expiring, history, faults>>

\* The retention cleanup deletes an expired terminal job.
DeleteJobMetadata(s) ==
  /\ job[s] = "ended"
  /\ job' = [job EXCEPT ![s] = "deleted"]
  /\ RowsUnchanged
  /\ UNCHANGED <<keyOf, artifact, requestVars, cleanerVars, expiring, history, faults>>

RowAges(s) ==
  /\ status[s] \in {"completed", "failed_retryable", "failed_permanent"} /\ s \notin aged
  /\ aged' = aged \cup {s}
  /\ UNCHANGED <<status, keyOf, artifact, job, requestVars, cleanerVars, same, expiring,
                 history, faults>>

\* The orphan grace period is much longer than the time between writing an
\* artifact and inserting its row.
ArtifactAges(s) ==
  /\ artifact[s] = "fresh"
  /\ ~ \E r \in Requests : phase[r] \in {"insert", "compensate"} /\ target[r] = s
  /\ artifact' = [artifact EXCEPT ![s] = "old"]
  /\ RowsUnchanged
  /\ UNCHANGED <<keyOf, job, requestVars, cleanerVars, expiring, history, faults>>

-----------------------------------------------------------------------------
Submit(r) ==
  \/ \E k \in Keys \cup {NoKey} : CreateBatch(r, k)
  \/ \E s \in Sessions : AdminRetry(r, s)

Handle(r) ==
  \/ RejectedEarly(r) \/ \E s \in Sessions : WriteRecords(r, s)
  \/ InsertSession(r) \/ InsertConflicts(r) \/ Compensate(r) \/ ResolveRaced(r)
  \/ Promote(r) \/ Spool(r) \/ TxLock(r) \/ TxScope(r) \/ TxCount(r) \/ TxCommit(r)
  \/ RecordFailure(r)

RequestFault(r) ==
  WriteFails(r) \/ InsertRaises(r) \/ SpoolFails(r) \/ TxRaises(r) \/ Crash(r)

CleanerStep ==
  \/ \E s \in Sessions : ListCandidate(s) \/ FindOrphan(s)
  \/ DeleteCandidate \/ DeleteArtifact

Environment(s) ==
  \/ ExpireSession(s) \/ ExpireArtifact(s)
  \/ JobEnds(s) \/ DeleteJobMetadata(s) \/ RowAges(s)

Next ==
  \/ \E r \in Requests : Submit(r) \/ Handle(r) \/ RequestFault(r)
  \/ CleanerStep
  \/ \E s \in Sessions : Environment(s) \/ ArtifactAges(s)

Spec == Init /\ [][Next]_vars

-----------------------------------------------------------------------------
(* Properties.                                                             *)

\* A session whose job was created is completed until its row is removed: the
\* failure recorded after a lost commit answer never hides the batch, and a
\* completed session did create its job.
BatchIffCompleted ==
  \A s \in Sessions :
    /\ job[s] # "none" => status[s] \in {"completed", "none"}
    /\ status[s] = "completed" => job[s] # "none"

\* Retries with one idempotency key create one batch, whichever answers are
\* lost and whatever the cleanup and the operator do in between, until the
\* completed session has been kept for its retention.
OneBatchPerKey ==
  \A s, t \in Sessions :
    s # t /\ keyOf[s] = keyOf[t] /\ keyOf[s] # NoKey
      /\ job[s] # "none" /\ job[t] # "none"
    => s \in forgotten \/ t \in forgotten

\* Promotions that run at the same time do not exceed the limit of active
\* batches of their scope.
PendingWithinLimit == Cardinality(Active) <= MaxPending

\* As long as a session can be promoted its staged items exist, although the
\* cleanup looks for orphans at the same time; the exception is a session whose
\* INSERT was not answered: its request deletes the artifact.
StagedWorkIsKept ==
  \A s \in Sessions \ mislaid : status[s] \in Promotable => artifact[s] \in Present
=============================================================================
