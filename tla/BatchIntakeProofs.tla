------------------------- MODULE BatchIntakeProofs -------------------------
(***************************************************************************)
(* Proofs about BatchCreateSession for every number of requests, sessions, *)
(* keys and faults, and every limit of active batches; and about           *)
(* BatchScheduler for every set of workers, tenants, jobs and items.       *)
(*                                                                         *)
(* Sessions: a session id is used by one staging request only              *)
(* (Inserting); a row that a transaction has locked stays promotable and   *)
(* without a batch (RowLocks); the cleanup and the operator only touch     *)
(* artifacts whose row is gone or expired for good (Expiring, Cleaning);   *)
(* and of the transactions that have counted the active batches only one   *)
(* at a time is under way (ScopeLock).                                     *)
(*                                                                         *)
(* Claims: what is in flight and what is taken but not committed, together *)
(* (Counted), stays within the capacity, because one claim at a time       *)
(* counts, takes and commits (ClaimsExclude).                              *)
(***************************************************************************)
EXTENDS BatchIntake, FiniteSetTheorems, WellFoundedInduction, TLAPS

-----------------------------------------------------------------------------
(* The inductive invariant.                                                *)

\* From the lookup or the staging on, a request works on a session.
Targets ==
  \A r \in Requests :
    phase[r] \notin {"idle", "prepare", "raced"} => target[r] \in Sessions

\* A session id whose artifact was never written is unused.
Unused ==
  \A s \in Sessions : artifact[s] = "none" =>
    /\ status[s] = "none" /\ job[s] = "none"
    /\ s \notin expiring /\ candidate # s
    /\ \A r \in Requests : target[r] # s

\* Until its row is inserted a session belongs to the request that staged it.
Inserting ==
  \A r \in Requests : phase[r] = "insert" =>
    /\ status[target[r]] = "none" /\ job[target[r]] = "none"
    /\ artifact[target[r]] = "fresh"
    /\ target[r] \notin expiring /\ candidate # target[r]
    /\ \A q \in Requests \ {r} : target[q] # target[r]

\* A request compensates for a row that was not inserted, as far as it knows.
Compensating ==
  \A r \in Requests : phase[r] = "compensate" =>
    status[target[r]] = "none" \/ target[r] \in mislaid

\* A locked row is promotable, and locked once.
RowLocks ==
  \A r \in Requests : phase[r] \in InTx =>
    /\ status[target[r]] \in Promotable
    /\ \A q \in Requests \ {r} : phase[q] \in InTx => target[q] # target[r]

\* The advisory lock of the scope is exclusive.
ScopeLock ==
  \A r, q \in Requests :
    phase[r] \in {"tx_count", "tx_commit"} /\ phase[q] \in {"tx_count", "tx_commit"} => r = q

\* A session the operator has expired is never promoted.
Expiring == \A s \in expiring : status[s] \in {"expired", "none"}

\* What the cleanup worker knows of its candidate.
Cleaning ==
  /\ sweep = "delete_row" =>
       /\ candidate \in Sessions
       /\ same => \/ status[candidate] = "expired"
                  \/ /\ status[candidate] \in {"completed", "failed_retryable", "failed_permanent"}
                     /\ candidate \in aged
  /\ sweep \in {"delete_artifact", "delete_orphan"} =>
       candidate \in Sessions /\ status[candidate] = "none"

\* The unique index on the idempotency key.
UniqueKeys ==
  \A s, t \in Sessions :
    s # t /\ keyOf[s] = keyOf[t] /\ keyOf[s] # NoKey => status[s] = "none" \/ status[t] = "none"

\* Only after its retention does a session with a batch lose its row.
KeptUntilForgotten ==
  \A s \in Sessions : job[s] # "none" /\ status[s] = "none" => s \in forgotten

\* Between the count and the commit there is room for one more batch.
Capacity ==
  /\ IsFiniteSet(Active)
  /\ PendingWithinLimit
  /\ \A r \in Requests : phase[r] = "tx_commit" => Cardinality(Active) < MaxPending

RequestInv == Targets /\ Inserting /\ Compensating /\ RowLocks /\ ScopeLock
RowInv ==
  /\ Unused /\ Expiring /\ Cleaning
  /\ BatchIffCompleted /\ UniqueKeys /\ KeptUntilForgotten /\ StagedWorkIsKept

SessionInv == TypeOK /\ RequestInv /\ RowInv /\ Capacity

-----------------------------------------------------------------------------
(* The count of active batches.                                            *)

\* A step after which no other batch is active, and no request has just counted.
LEMMA LimitKept ==
  ASSUME Capacity, Active' \subseteq Active,
         \A r \in Requests : phase'[r] = "tx_commit" => phase[r] = "tx_commit"
  PROVE  Capacity'
<1>1. IsFiniteSet(Active') /\ Cardinality(Active') <= Cardinality(Active)
  BY FS_Subset DEF Capacity
<1>2. Cardinality(Active) \in Nat /\ Cardinality(Active') \in Nat
  BY <1>1, FS_CardinalityType DEF Capacity
<1> QED BY <1>1, <1>2, ConstantsAssumption DEF Capacity, PendingWithinLimit, Active

\* A batch of another session becomes active.
LEMMA LimitTaken ==
  ASSUME TypeOK, Capacity, ScopeLock, NEW r \in Requests, phase[r] = "tx_commit",
         target[r] \in Sessions, job' = [job EXCEPT ![target[r]] = "active"],
         NEW p \in Phases \ {"tx_count", "tx_commit"}, GoTo(r, p)
  PROVE  Capacity'
<1>1. Active' = Active \cup {target[r]}
  BY DEF Active, TypeOK
<1>2. IsFiniteSet(Active') /\ Cardinality(Active') <= Cardinality(Active) + 1
  <2>1. IsFiniteSet(Active)
    BY DEF Capacity
  <2>2. /\ IsFiniteSet(Active')
        /\ \/ Cardinality(Active') = Cardinality(Active)
           \/ Cardinality(Active') = Cardinality(Active) + 1
    BY <1>1, <2>1, FS_AddElement
  <2> QED BY <2>1, <2>2, FS_CardinalityType
<1>3. Cardinality(Active) < MaxPending
  BY DEF Capacity
<1>4. \A q \in Requests : phase'[q] # "tx_commit"
  BY DEF ScopeLock, GoTo, TypeOK
<1>5. Cardinality(Active) \in Nat /\ Cardinality(Active') \in Nat
  BY <1>2, FS_CardinalityType DEF Capacity
<1> QED BY <1>2, <1>3, <1>4, <1>5, ConstantsAssumption DEF Capacity, PendingWithinLimit,
           Active

\* The commit of a promotion keeps the invariant of the rows.
LEMMA CommittedRows ==
  ASSUME SessionInv, NEW r \in Requests, phase[r] = "tx_commit", Committed(target[r]),
         \A q \in Requests : target'[q] \in {target[q], NoSession},
         UNCHANGED <<keyOf, artifact, sweep, candidate, expiring, forgotten, mislaid>>
  PROVE  RowInv'
<1> DEFINE s == target[r]
<1>1. /\ s \in Sessions /\ status[s] \in Promotable /\ job[s] = "none"
      /\ artifact[s] # "none" /\ s # NoSession
  BY ConstantsAssumption DEF SessionInv, TypeOK, RequestInv, Targets, RowLocks, InTx,
     RowInv, Unused, BatchIffCompleted, Promotable
<1>2. /\ status' = [status EXCEPT ![s] = "completed"]
      /\ job' = [job EXCEPT ![s] = "active"]
      /\ aged' = aged \ {s}
      /\ same' = (same /\ candidate # s)
  BY DEF Committed, Update
<1> HIDE DEF s
<1> USE DEF SessionInv, TypeOK, RowInv, Promotable
<1>3. Unused'
  BY <1>1, <1>2, ConstantsAssumption DEF Unused
<1>4. Expiring' /\ Cleaning'
  BY <1>1, <1>2 DEF Expiring, Cleaning
<1>5. BatchIffCompleted' /\ KeptUntilForgotten'
  BY <1>1, <1>2 DEF BatchIffCompleted, KeptUntilForgotten
<1>6. UniqueKeys' /\ StagedWorkIsKept'
  BY <1>1, <1>2 DEF UniqueKeys, StagedWorkIsKept
<1> QED BY <1>3, <1>4, <1>5, <1>6

\* create_batch's first lookup of the key, and the operator's retry_session.
LEMMA SubmitSteps ==
  ASSUME SessionInv, NEW r \in Requests, Submit(r)
  PROVE  SessionInv'
<1>0. NoSession \notin Sessions
  BY ConstantsAssumption
<1> USE <1>0 DEF SessionInv, TypeOK, Promotable, Statuses, Phases, InTx, Present
<1>1. ASSUME NEW k \in Keys \cup {NoKey}, CreateBatch(r, k)
      PROVE  SessionInv'
  <2>1. TypeOK'
    BY <1>1 DEF CreateBatch, ResolveTo, WithKey, Answer, GoTo, RowsUnchanged, cleanerVars,
       history
  <2>2. RequestInv'
    BY <1>1 DEF CreateBatch, ResolveTo, WithKey, Answer, GoTo, RowsUnchanged, cleanerVars,
       history, RequestInv, Targets, Inserting, Compensating, RowLocks, ScopeLock, InTx,
       RowInv, Unused
  <2>3. RowInv'
    BY <1>1 DEF CreateBatch, ResolveTo, WithKey, Answer, GoTo, RowsUnchanged, cleanerVars,
       history, RowInv, Unused, Expiring, Cleaning, BatchIffCompleted, UniqueKeys,
       KeptUntilForgotten, StagedWorkIsKept
  <2>4. Capacity'
    BY <1>1, LimitKept DEF CreateBatch, ResolveTo, Answer, GoTo, Active
  <2> QED BY <2>1, <2>2, <2>3, <2>4
<1>2. ASSUME NEW s \in Sessions, AdminRetry(r, s)
      PROVE  SessionInv'
  <2>1. TypeOK'
    BY <1>2 DEF AdminRetry, GoTo, RowsUnchanged, cleanerVars, history
  <2>2. RequestInv'
    BY <1>2 DEF AdminRetry, GoTo, RowsUnchanged, cleanerVars, history, RequestInv,
       Targets, Inserting, Compensating, RowLocks, ScopeLock, InTx, RowInv, Unused
  <2>3. RowInv'
    BY <1>2 DEF AdminRetry, GoTo, RowsUnchanged, cleanerVars, history, RowInv, Unused,
       Expiring, Cleaning, BatchIffCompleted, UniqueKeys, KeptUntilForgotten,
       StagedWorkIsKept
  <2>4. Capacity'
    BY <1>2, LimitKept DEF AdminRetry, GoTo, Active
  <2> QED BY <2>1, <2>2, <2>3, <2>4
<1> HIDE DEF SessionInv
<1> QED BY <1>1, <1>2 DEF Submit

\* The steps of a request, from staging to the end of the promotion.
LEMMA HandleSteps ==
  ASSUME SessionInv, NEW r \in Requests, Handle(r)
  PROVE  SessionInv'
<1>0. NoSession \notin Sessions
  BY ConstantsAssumption
<1> USE <1>0 DEF SessionInv, TypeOK, Promotable, Statuses, Phases, InTx, Present
<1>1. CASE RejectedEarly(r)
  <2>1. TypeOK'
    BY <1>1 DEF RejectedEarly, Answer, RowsUnchanged, cleanerVars, history
  <2>2. RequestInv'
    BY <1>1 DEF RejectedEarly, Answer, RowsUnchanged, cleanerVars, history, RequestInv,
       Targets, Inserting, Compensating, RowLocks, ScopeLock, InTx, RowInv, Unused
  <2>3. RowInv'
    BY <1>1 DEF RejectedEarly, Answer, RowsUnchanged, cleanerVars, history, RowInv,
       Unused, Expiring, Cleaning, BatchIffCompleted, UniqueKeys, KeptUntilForgotten,
       StagedWorkIsKept
  <2>4. Capacity'
    BY <1>1, LimitKept DEF RejectedEarly, Answer, Active
  <2> QED BY <2>1, <2>2, <2>3, <2>4
<1>2. ASSUME NEW s \in Sessions, WriteRecords(r, s)
      PROVE  SessionInv'
  <2>1. TypeOK'
    BY <1>2 DEF WriteRecords, GoTo, RowsUnchanged, cleanerVars, history
  <2>2. RequestInv'
    BY <1>2 DEF WriteRecords, GoTo, RowsUnchanged, cleanerVars, history, RequestInv,
       Targets, Inserting, Compensating, RowLocks, ScopeLock, InTx, RowInv, Unused
  <2>3. RowInv'
    BY <1>2 DEF WriteRecords, GoTo, RowsUnchanged, cleanerVars, history, RowInv, Unused,
       Expiring, Cleaning, BatchIffCompleted, UniqueKeys, KeptUntilForgotten,
       StagedWorkIsKept
  <2>4. Capacity'
    BY <1>2, LimitKept DEF WriteRecords, GoTo, Active
  <2> QED BY <2>1, <2>2, <2>3, <2>4
<1>3. CASE InsertSession(r)
  <2>1. TypeOK'
    BY <1>3 DEF InsertSession, Inserted, WithKey, Update, GoTo, cleanerVars, history
  <2>2. RequestInv'
    BY <1>3 DEF InsertSession, Inserted, WithKey, Update, GoTo, cleanerVars, history,
       RequestInv, Targets, Inserting, Compensating, RowLocks, ScopeLock, InTx, RowInv,
       Unused
  <2>3. RowInv'
    BY <1>3 DEF InsertSession, Inserted, WithKey, Update, GoTo, cleanerVars, history,
       RowInv, Unused, Expiring, Cleaning, BatchIffCompleted, UniqueKeys,
       KeptUntilForgotten, StagedWorkIsKept, RequestInv, Targets, Inserting
  <2>4. Capacity'
    BY <1>3, LimitKept DEF InsertSession, GoTo, Active
  <2> QED BY <2>1, <2>2, <2>3, <2>4
<1>4. CASE InsertConflicts(r)
  <2>1. TypeOK'
    BY <1>4 DEF InsertConflicts, GoTo, RowsUnchanged, cleanerVars, history
  <2>2. RequestInv'
    BY <1>4 DEF InsertConflicts, GoTo, RowsUnchanged, cleanerVars, history, RequestInv,
       Targets, Inserting, Compensating, RowLocks, ScopeLock, InTx, RowInv, Unused
  <2>3. RowInv'
    BY <1>4 DEF InsertConflicts, GoTo, RowsUnchanged, cleanerVars, history, RowInv,
       Unused, Expiring, Cleaning, BatchIffCompleted, UniqueKeys, KeptUntilForgotten,
       StagedWorkIsKept
  <2>4. Capacity'
    BY <1>4, LimitKept DEF InsertConflicts, GoTo, Active
  <2> QED BY <2>1, <2>2, <2>3, <2>4
<1>5. CASE Compensate(r)
  <2>1. TypeOK'
    BY <1>5 DEF Compensate, Fault, GoTo, RowsUnchanged, cleanerVars, history
  <2>2. RequestInv'
    BY <1>5 DEF Compensate, Fault, GoTo, RowsUnchanged, cleanerVars, history, RequestInv,
       Targets, Inserting, Compensating, RowLocks, ScopeLock, InTx, RowInv, Unused
  <2>3. RowInv'
    BY <1>5 DEF Compensate, Fault, GoTo, RowsUnchanged, cleanerVars, history, RowInv,
       Unused, Expiring, Cleaning, BatchIffCompleted, UniqueKeys, KeptUntilForgotten,
       StagedWorkIsKept, RequestInv, Targets, Compensating
  <2>4. Capacity'
    BY <1>5, LimitKept DEF Compensate, GoTo, Active
  <2> QED BY <2>1, <2>2, <2>3, <2>4
<1>6. CASE ResolveRaced(r)
  <2>1. TypeOK'
    BY <1>6 DEF ResolveRaced, ResolveTo, WithKey, Answer, GoTo, RowsUnchanged,
       cleanerVars, history
  <2>2. RequestInv'
    BY <1>6 DEF ResolveRaced, ResolveTo, WithKey, Answer, GoTo, RowsUnchanged,
       cleanerVars, history, RequestInv, Targets, Inserting, Compensating, RowLocks,
       ScopeLock, InTx, RowInv, Unused
  <2>3. RowInv'
    BY <1>6 DEF ResolveRaced, ResolveTo, WithKey, Answer, GoTo, RowsUnchanged,
       cleanerVars, history, RowInv, Unused, Expiring, Cleaning, BatchIffCompleted,
       UniqueKeys, KeptUntilForgotten, StagedWorkIsKept
  <2>4. Capacity'
    BY <1>6, LimitKept DEF ResolveRaced, ResolveTo, Answer, GoTo, Active
  <2> QED BY <2>1, <2>2, <2>3, <2>4
<1>7. CASE Promote(r)
  <2>1. TypeOK'
    BY <1>7 DEF Promote, Answer, GoTo, RowsUnchanged, cleanerVars, history
  <2>2. RequestInv'
    BY <1>7 DEF Promote, Answer, GoTo, RowsUnchanged, cleanerVars, history, RequestInv,
       Targets, Inserting, Compensating, RowLocks, ScopeLock, InTx, RowInv, Unused
  <2>3. RowInv'
    BY <1>7 DEF Promote, Answer, GoTo, RowsUnchanged, cleanerVars, history, RowInv,
       Unused, Expiring, Cleaning, BatchIffCompleted, UniqueKeys, KeptUntilForgotten,
       StagedWorkIsKept
  <2>4. Capacity'
    BY <1>7, LimitKept DEF Promote, Answer, GoTo, Active
  <2> QED BY <2>1, <2>2, <2>3, <2>4
<1>8. CASE Spool(r)
  <2>1. TypeOK'
    BY <1>8 DEF Spool, GoTo, RowsUnchanged, cleanerVars, history
  <2>2. RequestInv'
    BY <1>8 DEF Spool, GoTo, RowsUnchanged, cleanerVars, history, RequestInv, Targets,
       Inserting, Compensating, RowLocks, ScopeLock, InTx, RowInv, Unused
  <2>3. RowInv'
    BY <1>8 DEF Spool, GoTo, RowsUnchanged, cleanerVars, history, RowInv, Unused,
       Expiring, Cleaning, BatchIffCompleted, UniqueKeys, KeptUntilForgotten,
       StagedWorkIsKept
  <2>4. Capacity'
    BY <1>8, LimitKept DEF Spool, GoTo, Active
  <2> QED BY <2>1, <2>2, <2>3, <2>4
<1>9. CASE TxLock(r)
  <2>1. TypeOK'
    BY <1>9 DEF TxLock, Locked, Update, Answer, GoTo, RowsUnchanged, cleanerVars, history
  <2>2. RequestInv'
    BY <1>9 DEF TxLock, Locked, Update, Answer, GoTo, RowsUnchanged, cleanerVars, history,
       RequestInv, Targets, Inserting, Compensating, RowLocks, ScopeLock, InTx, RowInv,
       Unused
  <2>3. RowInv'
    BY <1>9 DEF TxLock, Locked, Update, Answer, GoTo, RowsUnchanged, cleanerVars, history,
       RowInv, Unused, Expiring, Cleaning, BatchIffCompleted, UniqueKeys,
       KeptUntilForgotten, StagedWorkIsKept, RequestInv, Targets, RowLocks
  <2>4. Capacity'
    BY <1>9, LimitKept DEF TxLock, Answer, GoTo, Active
  <2> QED BY <2>1, <2>2, <2>3, <2>4
<1>10. CASE TxScope(r)
  <2>1. TypeOK'
    BY <1>10 DEF TxScope, ScopeFree, GoTo, RowsUnchanged, cleanerVars, history
  <2>2. RequestInv'
    BY <1>10 DEF TxScope, ScopeFree, GoTo, RowsUnchanged, cleanerVars, history,
       RequestInv, Targets, Inserting, Compensating, RowLocks, ScopeLock, InTx, RowInv,
       Unused
  <2>3. RowInv'
    BY <1>10 DEF TxScope, ScopeFree, GoTo, RowsUnchanged, cleanerVars, history, RowInv,
       Unused, Expiring, Cleaning, BatchIffCompleted, UniqueKeys, KeptUntilForgotten,
       StagedWorkIsKept
  <2>4. Capacity'
    BY <1>10, LimitKept DEF TxScope, GoTo, Active
  <2> QED BY <2>1, <2>2, <2>3, <2>4
<1>11. CASE TxCount(r)
  <2>1. TypeOK'
    BY <1>11 DEF TxCount, GoTo, RowsUnchanged, cleanerVars, history
  <2>2. RequestInv'
    BY <1>11 DEF TxCount, GoTo, RowsUnchanged, cleanerVars, history, RequestInv, Targets,
       Inserting, Compensating, RowLocks, ScopeLock, InTx
  <2>3. RowInv'
    BY <1>11 DEF TxCount, GoTo, RowsUnchanged, cleanerVars, history, RowInv, Unused,
       Expiring, Cleaning, BatchIffCompleted, UniqueKeys, KeptUntilForgotten,
       StagedWorkIsKept
  <2>4. Capacity'
    BY <1>11 DEF TxCount, GoTo, Capacity, PendingWithinLimit, Active
  <2> QED BY <2>1, <2>2, <2>3, <2>4
<1>12. CASE TxCommit(r)
  <2>1. TypeOK'
    BY <1>12 DEF TxCommit, Committed, Update, Answer, cleanerVars, history, RequestInv,
       Targets
  <2>2. RequestInv'
    BY <1>12 DEF TxCommit, Committed, Update, Answer, cleanerVars, history, RowInv,
       Unused, RequestInv, Targets, Inserting, Compensating, RowLocks, ScopeLock, InTx
  <2>3. RowInv'
    <3>1. \A q \in Requests : target'[q] \in {target[q], NoSession}
      BY <1>12 DEF TxCommit, Answer
    <3> QED BY <1>12, <3>1, CommittedRows DEF TxCommit, cleanerVars, history
  <2>4. Capacity'
    <3>1. phase[r] = "tx_commit" /\ target[r] \in Sessions /\ GoTo(r, "idle")
      BY <1>12 DEF TxCommit, Answer, GoTo, RequestInv, Targets
    <3> QED BY <1>12, <3>1, LimitTaken DEF TxCommit, Committed, RequestInv
  <2> QED BY <2>1, <2>2, <2>3, <2>4
<1>13. CASE RecordFailure(r)
  <2> DEFINE s == target[r]
  <2>1. CASE status[s] \notin FailsFrom
    <3>1. TypeOK' /\ RequestInv'
      BY <1>13, <2>1 DEF RecordFailure, FailsFrom, Answer, RowsUnchanged, cleanerVars,
         history, RequestInv, Targets, Inserting, Compensating, RowLocks, ScopeLock, InTx
    <3>2. RowInv'
      BY <1>13, <2>1 DEF RecordFailure, FailsFrom, Answer, RowsUnchanged, cleanerVars,
         history, RowInv, Unused, Expiring, Cleaning, BatchIffCompleted, UniqueKeys,
         KeptUntilForgotten, StagedWorkIsKept
    <3>3. Capacity'
      BY <1>13, LimitKept DEF RecordFailure, Answer, Active
    <3> QED BY <3>1, <3>2, <3>3
  <2>2. CASE status[s] \in FailsFrom
    <3>1. PICK to \in {"failed_retryable", "failed_permanent"} : Update(s, to)
      BY <1>13, <2>2 DEF RecordFailure
    <3>2. /\ s \in Sessions /\ status[s] \in Promotable /\ ~ Locked(s)
          /\ Answer(r)
          /\ UNCHANGED <<keyOf, artifact, job, cleanerVars, expiring, history, faults>>
      BY <1>13, <2>2 DEF RecordFailure, FailsFrom, RequestInv, Targets
    <3> HIDE DEF s
    <3>3. TypeOK'
      BY <3>1, <3>2 DEF Update, Answer, cleanerVars, history
    <3>4. RequestInv'
      BY <3>1, <3>2 DEF Update, Answer, Locked, cleanerVars, history, RequestInv, Targets,
         Inserting, Compensating, RowLocks, ScopeLock, InTx
    <3>5. RowInv'
      <4>1. \A q \in Requests : target'[q] \in {target[q], NoSession}
        BY <3>2 DEF Answer
      <4>2. artifact[s] # "none" /\ job[s] = "none"
        BY <3>2 DEF RowInv, Unused, BatchIffCompleted
      <4>3. Unused'
        BY <3>1, <3>2, <4>1, <4>2 DEF Update, cleanerVars, RowInv, Unused
      <4>4. Expiring' /\ Cleaning'
        BY <3>1, <3>2 DEF Update, cleanerVars, RowInv, Expiring, Cleaning
      <4>5. BatchIffCompleted' /\ KeptUntilForgotten'
        BY <3>1, <3>2, <4>2 DEF Update, history, RowInv, BatchIffCompleted,
           KeptUntilForgotten
      <4>6. UniqueKeys' /\ StagedWorkIsKept'
        BY <3>1, <3>2 DEF Update, history, RowInv, UniqueKeys, StagedWorkIsKept
      <4> QED BY <4>3, <4>4, <4>5, <4>6 DEF RowInv
    <3>6. Capacity'
      BY <3>2, LimitKept DEF Answer, Active
    <3> QED BY <3>3, <3>4, <3>5, <3>6
  <2> QED BY <2>1, <2>2
<1> HIDE DEF SessionInv
<1> QED BY <1>1, <1>2, <1>3, <1>4, <1>5, <1>6, <1>7, <1>8, <1>9, <1>10, <1>11, <1>12,
           <1>13 DEF Handle

\* Errors, lost answers and crashes of a request.
LEMMA FaultSteps ==
  ASSUME SessionInv, NEW r \in Requests, RequestFault(r)
  PROVE  SessionInv'
<1>0. NoSession \notin Sessions
  BY ConstantsAssumption
<1> USE <1>0 DEF SessionInv, TypeOK, Promotable, Statuses, Phases, InTx, Present
<1>1. CASE WriteFails(r)
  <2>1. TypeOK'
    BY <1>1 DEF WriteFails, Fault, GoTo, RowsUnchanged, cleanerVars, history
  <2>2. RequestInv'
    BY <1>1 DEF WriteFails, Fault, GoTo, RowsUnchanged, cleanerVars, history, RequestInv,
       Targets, Inserting, Compensating, RowLocks, ScopeLock, InTx, RowInv, Unused
  <2>3. RowInv'
    BY <1>1 DEF WriteFails, Fault, GoTo, RowsUnchanged, cleanerVars, history, RowInv,
       Unused, Expiring, Cleaning, BatchIffCompleted, UniqueKeys, KeptUntilForgotten,
       StagedWorkIsKept
  <2>4. Capacity'
    BY <1>1, LimitKept DEF WriteFails, GoTo, Active
  <2> QED BY <2>1, <2>2, <2>3, <2>4
<1>2. CASE InsertRaises(r)
  <2> DEFINE s == target[r]
  <2>1. /\ phase[r] = "insert" /\ s \in Sessions /\ faults' \in Nat
        /\ GoTo(r, "compensate")
        /\ UNCHANGED <<keyOf, artifact, job, target, want, cleanerVars, expiring, forgotten>>
    BY <1>2 DEF InsertRaises, Fault, RequestInv, Targets
  <2>2. CASE RowsUnchanged /\ UNCHANGED mislaid
    <3>1. TypeOK' /\ RequestInv'
      BY <2>1, <2>2 DEF GoTo, RowsUnchanged, cleanerVars, RequestInv, Targets, Inserting,
         Compensating, RowLocks, ScopeLock, InTx
    <3>2. RowInv'
      BY <2>1, <2>2 DEF GoTo, RowsUnchanged, cleanerVars, RowInv, Unused, Expiring,
         Cleaning, BatchIffCompleted, UniqueKeys, KeptUntilForgotten, StagedWorkIsKept
    <3>3. Capacity'
      BY <2>1, LimitKept DEF GoTo, Active
    <3> QED BY <3>1, <3>2, <3>3
  <2>3. CASE Inserted(s) /\ mislaid' = mislaid \cup {s}
    <3> HIDE DEF s
    <3>1. TypeOK'
      BY <2>1, <2>3 DEF Inserted, Update, GoTo, cleanerVars
    <3>2. RequestInv'
      BY <2>1, <2>3 DEF s, Inserted, Update, GoTo, cleanerVars, RequestInv, Targets,
         Inserting, Compensating, RowLocks, ScopeLock, InTx
    <3>3. RowInv'
      BY <2>1, <2>3 DEF s, Inserted, WithKey, Update, GoTo, cleanerVars, RowInv, Unused,
         Expiring, Cleaning, BatchIffCompleted, UniqueKeys, KeptUntilForgotten,
         StagedWorkIsKept, RequestInv, Inserting
    <3>4. Capacity'
      BY <2>1, LimitKept DEF GoTo, Active
    <3> QED BY <3>1, <3>2, <3>3, <3>4
  <2> QED BY <1>2, <2>2, <2>3 DEF InsertRaises
<1>3. CASE SpoolFails(r)
  <2>1. TypeOK'
    BY <1>3 DEF SpoolFails, Fault, GoTo, RowsUnchanged, cleanerVars, history
  <2>2. RequestInv'
    BY <1>3 DEF SpoolFails, Fault, GoTo, RowsUnchanged, cleanerVars, history, RequestInv,
       Targets, Inserting, Compensating, RowLocks, ScopeLock, InTx, RowInv, Unused
  <2>3. RowInv'
    BY <1>3 DEF SpoolFails, Fault, GoTo, RowsUnchanged, cleanerVars, history, RowInv,
       Unused, Expiring, Cleaning, BatchIffCompleted, UniqueKeys, KeptUntilForgotten,
       StagedWorkIsKept
  <2>4. Capacity'
    BY <1>3, LimitKept DEF SpoolFails, GoTo, Active
  <2> QED BY <2>1, <2>2, <2>3, <2>4
<1>4. CASE TxRaises(r)
  <2>1. /\ phase[r] \in InTx /\ target[r] \in Sessions /\ faults' \in Nat
        /\ GoTo(r, "fail_retryable")
        /\ UNCHANGED <<keyOf, artifact, target, want, cleanerVars, expiring, history>>
    BY <1>4 DEF TxRaises, Fault, RequestInv, Targets
  <2>2. CASE RowsUnchanged /\ UNCHANGED job
    <3>1. TypeOK' /\ RequestInv'
      BY <2>1, <2>2 DEF GoTo, RowsUnchanged, cleanerVars, history, RequestInv, Targets,
         Inserting, Compensating, RowLocks, ScopeLock, InTx
    <3>2. RowInv'
      BY <2>1, <2>2 DEF GoTo, RowsUnchanged, cleanerVars, history, RowInv, Unused,
         Expiring, Cleaning, BatchIffCompleted, UniqueKeys, KeptUntilForgotten,
         StagedWorkIsKept
    <3>3. Capacity'
      BY <2>1, <2>2, LimitKept DEF GoTo, Active
    <3> QED BY <3>1, <3>2, <3>3
  <2>3. CASE phase[r] = "tx_commit" /\ Committed(target[r])
    <3>1. TypeOK'
      BY <2>1, <2>3 DEF Committed, Update, GoTo, cleanerVars, history
    <3>2. RequestInv'
      BY <2>1, <2>3 DEF Committed, Update, GoTo, cleanerVars, history, RequestInv,
         Targets, Inserting, Compensating, RowLocks, ScopeLock, InTx
    <3>3. RowInv'
      BY <2>1, <2>3, CommittedRows DEF cleanerVars, history
    <3>4. Capacity'
      BY <2>1, <2>3, LimitTaken DEF Committed, RequestInv
    <3> QED BY <3>1, <3>2, <3>3, <3>4
  <2> QED BY <1>4, <2>2, <2>3 DEF TxRaises
<1>5. CASE Crash(r)
  <2>1. TypeOK'
    BY <1>5 DEF Crash, Fault, Answer, RowsUnchanged, cleanerVars, history
  <2>2. RequestInv'
    BY <1>5 DEF Crash, Fault, Answer, RowsUnchanged, cleanerVars, history, RequestInv,
       Targets, Inserting, Compensating, RowLocks, ScopeLock, InTx, RowInv, Unused
  <2>3. RowInv'
    BY <1>5 DEF Crash, Fault, Answer, RowsUnchanged, cleanerVars, history, RowInv, Unused,
       Expiring, Cleaning, BatchIffCompleted, UniqueKeys, KeptUntilForgotten,
       StagedWorkIsKept
  <2>4. Capacity'
    BY <1>5, LimitKept DEF Crash, Answer, Active
  <2> QED BY <2>1, <2>2, <2>3, <2>4
<1> HIDE DEF SessionInv
<1> QED BY <1>1, <1>2, <1>3, <1>4, <1>5 DEF RequestFault

\* The cleanup worker.
LEMMA CleanerSteps ==
  ASSUME SessionInv, CleanerStep
  PROVE  SessionInv'
<1>0. NoSession \notin Sessions
  BY ConstantsAssumption
<1> USE <1>0 DEF SessionInv, TypeOK, Promotable, Statuses, Phases, InTx, Present
<1>1. ASSUME NEW s \in Sessions, ListCandidate(s)
      PROVE  SessionInv'
  <2>1. TypeOK'
    BY <1>1 DEF ListCandidate, requestVars, RowsUnchanged, cleanerVars, history
  <2>2. RequestInv'
    BY <1>1 DEF ListCandidate, requestVars, RowsUnchanged, cleanerVars, history,
       RequestInv, Targets, Inserting, Compensating, RowLocks, ScopeLock, InTx, RowInv,
       Unused
  <2>3. RowInv'
    BY <1>1 DEF ListCandidate, requestVars, RowsUnchanged, cleanerVars, history, RowInv,
       Unused, Expiring, Cleaning, BatchIffCompleted, UniqueKeys, KeptUntilForgotten,
       StagedWorkIsKept
  <2>4. Capacity'
    BY <1>1, LimitKept DEF ListCandidate, requestVars, Active
  <2> QED BY <2>1, <2>2, <2>3, <2>4
<1>2. ASSUME NEW s \in Sessions, FindOrphan(s)
      PROVE  SessionInv'
  <2>1. TypeOK'
    BY <1>2 DEF FindOrphan, Referenced, requestVars, RowsUnchanged, cleanerVars, history
  <2>2. RequestInv'
    BY <1>2 DEF FindOrphan, Referenced, requestVars, RowsUnchanged, cleanerVars, history,
       RequestInv, Targets, Inserting, Compensating, RowLocks, ScopeLock, InTx, RowInv,
       Unused
  <2>3. RowInv'
    BY <1>2 DEF FindOrphan, Referenced, requestVars, RowsUnchanged, cleanerVars, history,
       RowInv, Unused, Expiring, Cleaning, BatchIffCompleted, UniqueKeys,
       KeptUntilForgotten, StagedWorkIsKept
  <2>4. Capacity'
    BY <1>2, LimitKept DEF FindOrphan, requestVars, Active
  <2> QED BY <2>1, <2>2, <2>3, <2>4
<1>3. CASE DeleteCandidate
  <2>1. /\ sweep = "delete_row" /\ candidate \in Sessions /\ ~ Locked(candidate)
        /\ same' = FALSE
        /\ UNCHANGED <<keyOf, artifact, job, requestVars, expiring, mislaid, faults>>
    BY <1>3 DEF DeleteCandidate, RowInv, Cleaning
  <2>2. CASE ~ same
    <3>1. Idle /\ UNCHANGED <<status, aged, forgotten>>
      BY <1>3, <2>2 DEF DeleteCandidate, AsListed
    <3>2. TypeOK' /\ RequestInv'
      BY <2>1, <3>1 DEF Idle, requestVars, RequestInv, Targets, Inserting, Compensating,
         RowLocks, ScopeLock, InTx
    <3>3. RowInv'
      BY <2>1, <3>1 DEF Idle, requestVars, RowInv, Unused, Expiring, Cleaning,
         BatchIffCompleted, UniqueKeys, KeptUntilForgotten, StagedWorkIsKept
    <3>4. Capacity'
      BY <2>1, LimitKept DEF requestVars, Active
    <3> QED BY <3>2, <3>3, <3>4
  <2>3. CASE same
    <3>1. /\ status' = [status EXCEPT ![candidate] = "none"]
          /\ aged' = aged \ {candidate}
          /\ forgotten' = IF status[candidate] = "completed" /\ candidate \in aged
                          THEN forgotten \cup {candidate} ELSE forgotten
          /\ sweep' = "delete_artifact" /\ UNCHANGED candidate
      BY <1>3, <2>3 DEF DeleteCandidate, AsListed
    <3>2. TypeOK'
      BY <2>1, <3>1 DEF requestVars
    <3>3. RequestInv'
      BY <2>1, <3>1 DEF requestVars, Locked, RequestInv, Targets, Inserting, Compensating,
         RowLocks, ScopeLock, InTx
    <3>4. RowInv'
      BY <2>1, <2>3, <3>1 DEF requestVars, RowInv, Unused, Expiring, Cleaning,
         BatchIffCompleted, UniqueKeys, KeptUntilForgotten, StagedWorkIsKept
    <3>5. Capacity'
      BY <2>1, LimitKept DEF requestVars, Active
    <3> QED BY <3>2, <3>3, <3>4, <3>5
  <2> QED BY <2>2, <2>3
<1>4. CASE DeleteArtifact
  <2>1. TypeOK'
    BY <1>4 DEF DeleteArtifact, Fault, Idle, requestVars, RowsUnchanged, cleanerVars,
       history
  <2>2. RequestInv'
    BY <1>4 DEF DeleteArtifact, Fault, Idle, requestVars, RowsUnchanged, cleanerVars,
       history, RequestInv, Targets, Inserting, Compensating, RowLocks, ScopeLock, InTx,
       RowInv, Unused
  <2>3. RowInv'
    BY <1>4 DEF DeleteArtifact, Fault, Idle, requestVars, RowsUnchanged, cleanerVars,
       history, RowInv, Unused, Expiring, Cleaning, BatchIffCompleted, UniqueKeys,
       KeptUntilForgotten, StagedWorkIsKept
  <2>4. Capacity'
    BY <1>4, LimitKept DEF DeleteArtifact, requestVars, Active
  <2> QED BY <2>1, <2>2, <2>3, <2>4
<1> HIDE DEF SessionInv
<1> QED BY <1>1, <1>2, <1>3, <1>4 DEF CleanerStep

\* The operator's expire_session, the end of batches, and time.
LEMMA EnvironmentSteps ==
  ASSUME SessionInv, NEW s \in Sessions, Environment(s) \/ ArtifactAges(s)
  PROVE  SessionInv'
<1>0. NoSession \notin Sessions
  BY ConstantsAssumption
<1> USE <1>0 DEF SessionInv, TypeOK, Promotable, Statuses, Phases, InTx, Present
<1>1. CASE ExpireSession(s)
  <2>1. TypeOK'
    BY <1>1 DEF ExpireSession, Locked, Update, requestVars, RowsUnchanged, cleanerVars,
       history
  <2>2. RequestInv'
    BY <1>1 DEF ExpireSession, Locked, Update, requestVars, RowsUnchanged, cleanerVars,
       history, RequestInv, Targets, Inserting, Compensating, RowLocks, ScopeLock, InTx,
       RowInv, Unused
  <2>3. RowInv'
    BY <1>1 DEF ExpireSession, Locked, Update, requestVars, RowsUnchanged, cleanerVars,
       history, RowInv, Unused, Expiring, Cleaning, BatchIffCompleted, UniqueKeys,
       KeptUntilForgotten, StagedWorkIsKept
  <2>4. Capacity'
    BY <1>1, LimitKept DEF ExpireSession, requestVars, Active
  <2> QED BY <2>1, <2>2, <2>3, <2>4
<1>2. CASE ExpireArtifact(s)
  <2>1. TypeOK'
    BY <1>2 DEF ExpireArtifact, Fault, requestVars, RowsUnchanged, cleanerVars, history
  <2>2. RequestInv'
    BY <1>2 DEF ExpireArtifact, Fault, requestVars, RowsUnchanged, cleanerVars, history,
       RequestInv, Targets, Inserting, Compensating, RowLocks, ScopeLock, InTx, RowInv,
       Unused
  <2>3. RowInv'
    BY <1>2 DEF ExpireArtifact, Fault, requestVars, RowsUnchanged, cleanerVars, history,
       RowInv, Unused, Expiring, Cleaning, BatchIffCompleted, UniqueKeys,
       KeptUntilForgotten, StagedWorkIsKept, RequestInv, Inserting
  <2>4. Capacity'
    BY <1>2, LimitKept DEF ExpireArtifact, requestVars, Active
  <2> QED BY <2>1, <2>2, <2>3, <2>4
<1>3. CASE JobEnds(s)
  <2>1. TypeOK'
    BY <1>3 DEF JobEnds, requestVars, RowsUnchanged, cleanerVars, history
  <2>2. RequestInv'
    BY <1>3 DEF JobEnds, requestVars, RowsUnchanged, cleanerVars, history, RequestInv,
       Targets, Inserting, Compensating, RowLocks, ScopeLock, InTx, RowInv, Unused
  <2>3. RowInv'
    BY <1>3 DEF JobEnds, requestVars, RowsUnchanged, cleanerVars, history, RowInv, Unused,
       Expiring, Cleaning, BatchIffCompleted, UniqueKeys, KeptUntilForgotten,
       StagedWorkIsKept
  <2>4. Capacity'
    BY <1>3, LimitKept DEF JobEnds, requestVars, Active
  <2> QED BY <2>1, <2>2, <2>3, <2>4
<1>4. CASE DeleteJobMetadata(s)
  <2>1. TypeOK'
    BY <1>4 DEF DeleteJobMetadata, requestVars, RowsUnchanged, cleanerVars, history
  <2>2. RequestInv'
    BY <1>4 DEF DeleteJobMetadata, requestVars, RowsUnchanged, cleanerVars, history,
       RequestInv, Targets, Inserting, Compensating, RowLocks, ScopeLock, InTx, RowInv,
       Unused
  <2>3. RowInv'
    BY <1>4 DEF DeleteJobMetadata, requestVars, RowsUnchanged, cleanerVars, history,
       RowInv, Unused, Expiring, Cleaning, BatchIffCompleted, UniqueKeys,
       KeptUntilForgotten, StagedWorkIsKept
  <2>4. Capacity'
    BY <1>4, LimitKept DEF DeleteJobMetadata, requestVars, Active
  <2> QED BY <2>1, <2>2, <2>3, <2>4
<1>5. CASE RowAges(s)
  <2>1. TypeOK'
    BY <1>5 DEF RowAges, requestVars, RowsUnchanged, cleanerVars, history
  <2>2. RequestInv'
    BY <1>5 DEF RowAges, requestVars, RowsUnchanged, cleanerVars, history, RequestInv,
       Targets, Inserting, Compensating, RowLocks, ScopeLock, InTx, RowInv, Unused
  <2>3. RowInv'
    BY <1>5 DEF RowAges, requestVars, RowsUnchanged, cleanerVars, history, RowInv, Unused,
       Expiring, Cleaning, BatchIffCompleted, UniqueKeys, KeptUntilForgotten,
       StagedWorkIsKept
  <2>4. Capacity'
    BY <1>5, LimitKept DEF RowAges, requestVars, Active
  <2> QED BY <2>1, <2>2, <2>3, <2>4
<1>6. CASE ArtifactAges(s)
  <2>1. TypeOK'
    BY <1>6 DEF ArtifactAges, requestVars, RowsUnchanged, cleanerVars, history
  <2>2. RequestInv'
    BY <1>6 DEF ArtifactAges, requestVars, RowsUnchanged, cleanerVars, history,
       RequestInv, Targets, Inserting, Compensating, RowLocks, ScopeLock, InTx, RowInv,
       Unused
  <2>3. RowInv'
    BY <1>6 DEF ArtifactAges, requestVars, RowsUnchanged, cleanerVars, history, RowInv,
       Unused, Expiring, Cleaning, BatchIffCompleted, UniqueKeys, KeptUntilForgotten,
       StagedWorkIsKept
  <2>4. Capacity'
    BY <1>6, LimitKept DEF ArtifactAges, requestVars, Active
  <2> QED BY <2>1, <2>2, <2>3, <2>4
<1> HIDE DEF SessionInv
<1> QED BY <1>1, <1>2, <1>3, <1>4, <1>5, <1>6 DEF Environment

-----------------------------------------------------------------------------
(* The theorems.                                                           *)

LEMMA InitInv == Init => SessionInv
<1> SUFFICES ASSUME Init PROVE SessionInv
  OBVIOUS
<1>1. TypeOK
  BY DEF Init, TypeOK, Statuses, Phases
<1>2. RequestInv
  BY DEF Init, RequestInv, Targets, Inserting, Compensating, RowLocks, ScopeLock, InTx
<1>3. RowInv
  BY ConstantsAssumption DEF Init, RowInv, Unused, Expiring, Cleaning, BatchIffCompleted,
     UniqueKeys, KeptUntilForgotten, StagedWorkIsKept, Promotable
<1>4. Capacity
  <2>1. Active = {}
    BY DEF Init, Active
  <2> QED BY <2>1, FS_EmptySet, ConstantsAssumption DEF Init, Capacity, PendingWithinLimit
<1> QED BY <1>1, <1>2, <1>3, <1>4 DEF SessionInv

LEMMA StutterInv ==
  ASSUME SessionInv, UNCHANGED vars
  PROVE  SessionInv'
<1> USE DEF vars, requestVars, cleanerVars, history
<1>1. TypeOK' /\ RequestInv'
  BY DEF SessionInv, TypeOK, RequestInv, Targets, Inserting, Compensating, RowLocks,
     ScopeLock
<1>2. RowInv' /\ Capacity'
  BY DEF SessionInv, RowInv, Unused, Expiring, Cleaning, BatchIffCompleted, UniqueKeys,
     KeptUntilForgotten, StagedWorkIsKept, Capacity, PendingWithinLimit, Active
<1> QED BY <1>1, <1>2 DEF SessionInv

\* Every step of the requests, the cleanup worker, the operator and the
\* environment keeps the invariant of the create sessions.
THEOREM Invariance == Spec => []SessionInv
<1>1. SessionInv /\ [Next]_vars => SessionInv'
  BY SubmitSteps, HandleSteps, FaultSteps, CleanerSteps, EnvironmentSteps, StutterInv
     DEF Next
<1> QED BY <1>1, InitInv, PTL DEF Spec

\* Every reachable state of the create sessions is well typed.
THEOREM TypeSafe == Spec => []TypeOK
<1>1. SessionInv => TypeOK
  BY DEF SessionInv
<1> QED BY <1>1, Invariance, PTL

\* A session is completed exactly when its batch was created, until its row is
\* removed: the failure recorded after a lost commit answer is fenced.
THEOREM CompletionSafe == Spec => []BatchIffCompleted
<1>1. SessionInv => BatchIffCompleted
  BY DEF SessionInv, RowInv
<1> QED BY <1>1, Invariance, PTL

\* Requests with one idempotency key create one batch, unless the retention of
\* the completed session is over.
THEOREM IdempotencySafe == Spec => []OneBatchPerKey
<1>1. SessionInv => OneBatchPerKey
  BY DEF SessionInv, TypeOK, RowInv, BatchIffCompleted, UniqueKeys, KeptUntilForgotten,
     OneBatchPerKey
<1> QED BY <1>1, Invariance, PTL

\* Concurrent promotions never exceed max_pending_batches_per_scope.
THEOREM PendingSafe == Spec => []PendingWithinLimit
<1>1. SessionInv => PendingWithinLimit
  BY DEF SessionInv, Capacity
<1> QED BY <1>1, Invariance, PTL

\* Neither the cleanup worker nor the operator nor the compensation of another
\* request deletes the staged items of a session that can be promoted.
THEOREM StagedSafe == Spec => []StagedWorkIsKept
<1>1. SessionInv => StagedWorkIsKept
  BY DEF SessionInv, RowInv
<1> QED BY <1>1, Invariance, PTL

\* The composition takes the steps of batch creation or leaves its state alone,
\* so what is proved of batch creation holds of it.
THEOREM IntakeSessions == IntakeSpec => Spec
<1>1. IntakeInit => Init
  BY DEF IntakeInit
<1>2. [IntakeNext]_<<focus, vars, schedulerVars>> => [Next]_vars
  BY DEF IntakeNext
<1> QED BY <1>1, <1>2, PTL DEF IntakeSpec, Spec

-----------------------------------------------------------------------------
(* BatchScheduler: the capacity of a model group.                          *)

\* The items the capacity counts and those a claim has taken but not committed.
LiveItems == {i \in SchedulerItems : itemStatus[i] = "live"}
Counted == (LiveItems \ revived) \cup Scheduler!RowLocked

Claiming(w) == Scheduler!HoldsFlowLock(w) \/ Scheduler!HoldsCapacityLock(w)

SchedulerShape ==
  /\ itemStatus \in [SchedulerItems -> {"pending", "live", "expired", "done"}]
  /\ taken \in [Scheduler!Workers -> SUBSET SchedulerItems]
  /\ pc = [w \in Scheduler!Workers |-> pc[w]]

\* One claim at a time counts what is in flight and takes items, and only a
\* worker in fair-share mode takes the lock of the flows.
ClaimsExclude ==
  /\ \A u \in Scheduler!Workers, w \in Scheduler!Workers :
       Claiming(u) /\ Claiming(w) => u = w
  /\ \A w \in Scheduler!Workers :
       pc[w] \in {"selected", "listed", "flow", "claimedFlow"} => w \in FairWorkers
  /\ \A w \in Scheduler!Workers : taken[w] # {} => pc[w] \in {"claimedFlow", "claimed"}

CapacityInv ==
  /\ SchedulerShape
  /\ ClaimsExclude
  /\ Cardinality(Counted) <= MaxInFlight

LEMMA SchedulerCardinality == \A S : Scheduler!Cardinality(S) = Cardinality(S)
BY DEF Scheduler!Cardinality, Cardinality

LEMMA CountedFinite ==
  ASSUME SchedulerShape, NEW T, T \subseteq SchedulerItems
  PROVE  IsFiniteSet(T) /\ Cardinality(T) \in Nat
BY SchedulerAssumption, FS_Subset, FS_CardinalityType

LEMMA LeastNatural ==
  ASSUME NEW T, T \subseteq Nat, T # {}
  PROVE  \E x \in T : \A y \in T : x <= y
<1> DEFINE R == {p \in Nat \X Nat : p[1] < p[2]}
<1>1. IsWellFoundedOn(R, Nat)
  BY NatLessThanWellFounded DEF OpToRel
<1> HIDE DEF R
<1>2. PICK x \in T : \A y \in T : ~(<<y, x>> \in R)
  BY <1>1, WFMin
<1>3. \A y \in T : <<y, x>> \in R <=> y < x
  BY DEF R
<1>4. \A y \in T : ~(y < x)
  BY <1>2, <1>3
<1> QED BY <1>4

\* A slice of at most n items: each has at most n items up to it.
LEMMA SliceBounded ==
  ASSUME SchedulerShape, NEW j, NEW n \in Nat, NEW units, NEW over
  PROVE  /\ Scheduler!Slice(j, n, units, over) \subseteq SchedulerItems
         /\ Cardinality(Scheduler!Slice(j, n, units, over)) <= n
<1> DEFINE S == Scheduler!Slice(j, n, units, over)
           free == Scheduler!Runnable(j) \ Scheduler!RowLocked
           upTo(i) == {k \in free : k <= i}
<1>1. free \subseteq SchedulerItems
  BY DEF Scheduler!Runnable, Scheduler!ItemsOf
<1>2. S \subseteq free /\ \A i \in S : Cardinality(upTo(i)) <= n
  BY SchedulerCardinality DEF Scheduler!Slice
<1> HIDE DEF S, free
<1>3. \A T : T \subseteq free => IsFiniteSet(T) /\ Cardinality(T) \in Nat
  BY <1>1, CountedFinite
<1>4. \A i \in free : i \in Nat
  BY <1>1, SchedulerAssumption
<1>5. CASE S = {}
  BY <1>1, <1>5, FS_EmptySet DEF S
<1>6. CASE S # {}
  <2> DEFINE gap == {n - Cardinality(upTo(i)) : i \in S}
  <2>1. \A i \in S : Cardinality(upTo(i)) \in Nat /\ n - Cardinality(upTo(i)) \in Nat
    <3>1. \A i \in S : upTo(i) \subseteq free
      OBVIOUS
    <3> QED BY <1>2, <1>3, <3>1
  <2>2. gap \subseteq Nat /\ gap # {}
    BY <1>6, <2>1
  <2>3. PICK g \in gap : \A h \in gap : g <= h
    BY <2>2, LeastNatural
  <2>4. PICK m \in S : g = n - Cardinality(upTo(m))
    BY <2>3
  <2>5. \A i \in S : Cardinality(upTo(i)) <= Cardinality(upTo(m))
    <3> TAKE i \in S
    <3>1. n - Cardinality(upTo(m)) <= n - Cardinality(upTo(i))
      BY <2>3, <2>4
    <3> QED BY <2>1, <3>1
  <2>6. S \subseteq upTo(m)
    <3> SUFFICES ASSUME NEW i \in S, ~(i <= m) PROVE FALSE
      BY <1>2
    <3>1. i \in Nat /\ m \in Nat /\ i \in free
      BY <1>2, <1>4
    <3>2. \A k \in free : k <= m => k <= i
      BY <1>4, <3>1
    <3>21. i <= i
      BY <3>1
    <3>22. upTo(m) \subseteq upTo(i) /\ i \in upTo(i) /\ i \notin upTo(m)
      BY Zenon, <3>1, <3>2, <3>21
    <3>3. IsFiniteSet(upTo(i)) /\ Cardinality(upTo(i)) \in Nat
      BY <1>3
    <3>4. /\ Cardinality(upTo(m)) # Cardinality(upTo(i))
          /\ Cardinality(upTo(m)) <= Cardinality(upTo(i))
      BY <3>22, <3>3, FS_Subset
    <3>5. Cardinality(upTo(i)) <= Cardinality(upTo(m))
      BY <2>5
    <3>6. Cardinality(upTo(m)) \in Nat
      BY <2>1
    <3> HIDE DEF upTo
    <3> QED BY <3>3, <3>4, <3>5, <3>6
  <2>7. IsFiniteSet(upTo(m)) /\ Cardinality(upTo(m)) <= n /\ Cardinality(upTo(m)) \in Nat
    BY <1>2, <1>3
  <2>8. Cardinality(S) <= Cardinality(upTo(m)) /\ Cardinality(S) \in Nat
    BY <1>2, <1>3, <2>6, <2>7, FS_Subset
  <2> QED BY <1>1, <1>2, <2>7, <2>8 DEF S
<1> QED BY <1>5, <1>6

\* What a claim may take: with the items in flight it is within the capacity.
Claimed(S) ==
  /\ S \subseteq SchedulerItems
  /\ S # {} => Cardinality(LiveItems) + Cardinality(S) <= MaxInFlight

LEMMA SlotsLeft ==
  ASSUME SchedulerShape, Scheduler!RemainingSlots # 0
  PROVE  /\ Cardinality(LiveItems) \in Nat
         /\ Scheduler!RemainingSlots = MaxInFlight - Cardinality(LiveItems)
         /\ Scheduler!RemainingSlots \in Nat
<1> DEFINE left == MaxInFlight - Cardinality(LiveItems)
<1>1. Cardinality(LiveItems) \in Nat
  BY CountedFinite DEF LiveItems
<1>2. Scheduler!InFlight = Cardinality(LiveItems)
  BY SchedulerCardinality DEF Scheduler!InFlight, LiveItems
<1>3. Scheduler!RemainingSlots = CHOOSE x \in {0, left} : \A y \in {0, left} : x >= y
  BY <1>2 DEF Scheduler!RemainingSlots, Scheduler!Max
<1>4. left \in Int
  BY <1>1, SchedulerAssumption
<1> HIDE DEF left
<1>5. \E x \in {0, left} : \A y \in {0, left} : x >= y
  BY <1>4
<1>6. /\ Scheduler!RemainingSlots \in {0, left}
      /\ \A y \in {0, left} : Scheduler!RemainingSlots >= y
  BY <1>3, <1>5
<1>7. Scheduler!RemainingSlots = left /\ left >= 0
  BY <1>6
<1> QED BY <1>1, <1>4, <1>7 DEF left

LEMMA LeastOfTwo ==
  ASSUME NEW a \in Nat, NEW b \in Nat
  PROVE  Scheduler!Min({a, b}) \in Nat /\ Scheduler!Min({a, b}) <= b
<1>1. Scheduler!Min({a, b}) = CHOOSE x \in {a, b} : \A y \in {a, b} : x <= y
  BY DEF Scheduler!Min
<1>2. \E x \in {a, b} : \A y \in {a, b} : x <= y
  OBVIOUS
<1>3. /\ Scheduler!Min({a, b}) \in {a, b}
      /\ \A y \in {a, b} : Scheduler!Min({a, b}) <= y
  BY <1>1, <1>2
<1> QED BY <1>3

LEMMA SliceFits ==
  ASSUME SchedulerShape, Scheduler!RemainingSlots # 0, NEW j, NEW n \in Nat, NEW units, NEW over
  PROVE  Claimed(Scheduler!Slice(j, Scheduler!Min({n, Scheduler!RemainingSlots}), units, over))
<1> DEFINE m == Scheduler!Min({n, Scheduler!RemainingSlots})
           S == Scheduler!Slice(j, m, units, over)
<1>1. /\ Cardinality(LiveItems) \in Nat
      /\ Scheduler!RemainingSlots = MaxInFlight - Cardinality(LiveItems)
      /\ Scheduler!RemainingSlots \in Nat
  BY SlotsLeft
<1>2. m \in Nat /\ m <= Scheduler!RemainingSlots
  BY <1>1, LeastOfTwo
<1> HIDE DEF m
<1>3. S \subseteq SchedulerItems /\ Cardinality(S) <= m
  BY <1>2, SliceBounded
<1>4. Cardinality(S) \in Nat
  BY <1>3, CountedFinite
<1> HIDE DEF S
<1>5. Cardinality(LiveItems) + Cardinality(S) <= MaxInFlight
  BY <1>1, <1>2, <1>3, <1>4, SchedulerAssumption
<1> QED BY <1>3, <1>5 DEF Claimed, S, m

LEMMA ClaimsFit ==
  ASSUME SchedulerShape, NEW J, NEW n \in Nat, NEW units, NEW over,
         NEW S \in Scheduler!Claims(J, n, units, over)
  PROVE  Claimed(S)
<1>1. CASE S = {}
  BY <1>1 DEF Claimed
<1>2. CASE S # {}
  <2>1. Scheduler!RemainingSlots # 0
    BY <1>2 DEF Scheduler!Claims
  <2>2. PICK j : S = Scheduler!Slice(j, Scheduler!Min({n, Scheduler!RemainingSlots}), units, over)
    BY <1>2 DEF Scheduler!Claims
  <2> QED BY <2>1, <2>2, SliceFits
<1> QED BY <1>1, <1>2

\* Worker w goes to p: it claims only if it already did or nobody does.
LEMMA MoveExcludes ==
  ASSUME SchedulerShape, ClaimsExclude, NEW w \in Scheduler!Workers, NEW p,
         pc' = [pc EXCEPT ![w] = p],
         \A u \in Scheduler!Workers \ {w} : taken'[u] = taken[u],
         taken'[w] # {} => p \in {"claimedFlow", "claimed"},
         p \in {"selected", "listed", "flow", "claimedFlow"} => w \in FairWorkers,
         p \in {"flow", "claimedFlow", "capacity", "claimed"}
           => Claiming(w) \/ \A u \in Scheduler!Workers : ~Claiming(u)
  PROVE  ClaimsExclude'
<1>1. /\ pc'[w] = p /\ \A u \in Scheduler!Workers \ {w} : pc'[u] = pc[u]
  BY DEF SchedulerShape
<1>2. \A u \in Scheduler!Workers \ {w} : Claiming(u)' => Claiming(u) /\ ~Claiming(w)'
  BY <1>1 DEF ClaimsExclude, Claiming, Scheduler!HoldsFlowLock, Scheduler!HoldsCapacityLock
<1> QED BY <1>1, <1>2 DEF ClaimsExclude

LEMMA ShrinkKeeps ==
  ASSUME CapacityInv, SchedulerShape', ClaimsExclude', Counted' \subseteq Counted
  PROVE  CapacityInv'
<1>1. Counted \subseteq SchedulerItems
  BY DEF CapacityInv, SchedulerShape, Counted, LiveItems, Scheduler!RowLocked
<1>2. IsFiniteSet(Counted) /\ Cardinality(Counted) \in Nat
  BY <1>1, CountedFinite DEF CapacityInv
<1>3. Cardinality(Counted') <= Cardinality(Counted) /\ Cardinality(Counted') \in Nat
  BY <1>2, FS_Subset, FS_CardinalityType
<1> QED BY <1>2, <1>3, SchedulerAssumption DEF CapacityInv

\* A worker that takes no item and commits none.
LEMMA QuietWorkerKeeps ==
  ASSUME CapacityInv, NEW w \in Scheduler!Workers, NEW p,
         pc' = [pc EXCEPT ![w] = p], UNCHANGED <<itemStatus, revived, taken>>,
         taken[w] = {},
         p \in {"selected", "listed", "flow"} => w \in FairWorkers, p # "claimedFlow",
         p \in {"flow", "capacity", "claimed"}
           => Claiming(w) \/ \A u \in Scheduler!Workers : ~Claiming(u)
  PROVE  CapacityInv'
<1>1. SchedulerShape'
  BY DEF CapacityInv, SchedulerShape
<1>2. ClaimsExclude'
  BY MoveExcludes DEF CapacityInv
<1>3. Counted' = Counted
  BY DEF Counted, LiveItems, Scheduler!RowLocked
<1> QED BY <1>1, <1>2, <1>3, ShrinkKeeps

\* The sole claimer takes items beside those in flight.
LEMMA TakeKeeps ==
  ASSUME CapacityInv, NEW w \in Scheduler!Workers, NEW S, Claimed(S), S # {},
         NEW p \in {"claimedFlow", "claimed"}, Claiming(w), p = "claimedFlow" => w \in FairWorkers,
         taken' = [taken EXCEPT ![w] = S], pc' = [pc EXCEPT ![w] = p],
         taken[w] = {}, UNCHANGED <<itemStatus, revived>>
  PROVE  CapacityInv'
<1>1. SchedulerShape'
  BY DEF CapacityInv, SchedulerShape, Claimed
<1>2. \A u \in Scheduler!Workers : taken[u] = {}
  <2> SUFFICES ASSUME NEW u \in Scheduler!Workers, taken[u] # {} PROVE FALSE
    OBVIOUS
  <2>1. Claiming(u)
    BY DEF CapacityInv, ClaimsExclude, Claiming, Scheduler!HoldsFlowLock,
       Scheduler!HoldsCapacityLock
  <2> QED BY <2>1 DEF CapacityInv, ClaimsExclude
<1>3. Scheduler!RowLocked' = S
  BY <1>2 DEF Scheduler!RowLocked, CapacityInv, SchedulerShape
<1>4. Counted' \subseteq LiveItems \cup S
  BY <1>3 DEF Counted, LiveItems
<1>5. /\ IsFiniteSet(LiveItems) /\ IsFiniteSet(S)
      /\ Cardinality(LiveItems) \in Nat /\ Cardinality(S) \in Nat
  BY CountedFinite DEF CapacityInv, Claimed, LiveItems
<1>6. /\ IsFiniteSet(LiveItems \cup S) /\ Cardinality(LiveItems \cup S) \in Nat
      /\ Cardinality(LiveItems \cup S) <= Cardinality(LiveItems) + Cardinality(S)
  <2>1. LiveItems \cap S \subseteq S
    OBVIOUS
  <2>2. Cardinality(LiveItems \cap S) \in Nat
    BY <1>5, <2>1, FS_Subset, FS_CardinalityType
  <2>3. /\ IsFiniteSet(LiveItems \cup S)
        /\ Cardinality(LiveItems \cup S)
             = Cardinality(LiveItems) + Cardinality(S) - Cardinality(LiveItems \cap S)
    BY <1>5, FS_Union
  <2> QED BY <1>5, <2>2, <2>3, FS_CardinalityType
<1>7. Cardinality(Counted') \in Nat /\ Cardinality(Counted') <= Cardinality(LiveItems \cup S)
  BY <1>4, <1>6, FS_Subset, FS_CardinalityType
<1>8. Cardinality(Counted') <= MaxInFlight
  BY <1>5, <1>6, <1>7, SchedulerAssumption DEF Claimed
<1>9. ClaimsExclude'
  <2>1. \A u \in Scheduler!Workers \ {w} : taken'[u] = taken[u]
    BY DEF CapacityInv, SchedulerShape
  <2> QED BY <2>1, MoveExcludes DEF CapacityInv
<1> QED BY <1>1, <1>8, <1>9 DEF CapacityInv

\* Reads and locks: in dual mode the legacy key excludes the other namespace;
\* without fair-share workers there is one namespace only.
LEMMA LockStep ==
  ASSUME CapacityInv, Dual \/ FairWorkers = {}, NEW w \in Scheduler!Workers,
         \/ Scheduler!SelectModelGroup(w) \/ Scheduler!ListFlows(w) \/ Scheduler!FlowLockBusy(w)
         \/ Scheduler!LockFlows(w) \/ Scheduler!Refill(w) \/ Scheduler!NoFlow(w)
         \/ Scheduler!LockCapacity(w)
  PROVE  CapacityInv'
<1>0. /\ pc[w] \notin {"claimedFlow", "claimed"} => taken[w] = {}
      /\ pc[w] \in {"selected", "listed", "flow"} => w \in FairWorkers
  BY DEF CapacityInv, ClaimsExclude
<1>1. CASE Scheduler!SelectModelGroup(w)
  <2> DEFINE p == IF w \in FairWorkers THEN "selected" ELSE "fallback"
  <2>1. pc' = [pc EXCEPT ![w] = p] /\ pc[w] = "idle"
    BY <1>1 DEF Scheduler!SelectModelGroup
  <2>2. UNCHANGED <<itemStatus, revived, taken>>
    BY <1>1 DEF Scheduler!SelectModelGroup, Scheduler!work
  <2>3. p \in {"selected", "fallback"} /\ (p = "selected" => w \in FairWorkers)
    OBVIOUS
  <2> HIDE DEF p
  <2> QED BY <1>0, <2>1, <2>2, <2>3, QuietWorkerKeeps
<1>2. CASE Scheduler!ListFlows(w)
  BY <1>0, <1>2, QuietWorkerKeeps DEF Scheduler!ListFlows, Scheduler!work
<1>3. CASE Scheduler!FlowLockBusy(w)
  BY <1>0, <1>3, QuietWorkerKeeps DEF Scheduler!FlowLockBusy, Scheduler!Idle, Scheduler!work
<1>4. CASE Scheduler!LockFlows(w)
  <2>1. w \in FairWorkers /\ Dual
    BY <1>0, <1>4 DEF Scheduler!LockFlows
  <2>2. \A u \in Scheduler!Workers : ~Claiming(u)
    BY <1>4, <2>1 DEF Scheduler!LockFlows, Scheduler!FlowLockFree, Claiming
  <2> QED
    BY <1>0, <1>4, <2>1, <2>2, QuietWorkerKeeps DEF Scheduler!LockFlows, Scheduler!work
<1>5. CASE Scheduler!Refill(w)
  <2>1. pc' = [pc EXCEPT ![w] = "flow"] /\ pc[w] = "flow"
    BY <1>5 DEF Scheduler!Refill, CapacityInv, SchedulerShape
  <2>2. Claiming(w)
    BY <2>1 DEF Claiming, Scheduler!HoldsFlowLock
  <2>3. UNCHANGED <<itemStatus, revived, taken>>
    BY <1>5 DEF Scheduler!Refill, Scheduler!work
  <2> QED BY <1>0, <2>1, <2>2, <2>3, QuietWorkerKeeps
<1>6. CASE Scheduler!NoFlow(w)
  BY <1>0, <1>6, QuietWorkerKeeps DEF Scheduler!NoFlow, Scheduler!Idle, Scheduler!work
<1>7. CASE Scheduler!LockCapacity(w)
  <2>1. FairWorkers = {} => \A u \in Scheduler!Workers : ~Scheduler!HoldsFlowLock(u)
    BY DEF CapacityInv, ClaimsExclude, Scheduler!HoldsFlowLock
  <2>2. \A u \in Scheduler!Workers : ~Claiming(u)
    BY <1>7, <2>1 DEF Scheduler!LockCapacity, Scheduler!CapacityLockFree, Claiming
  <2> QED
    BY <1>0, <1>7, <2>2, QuietWorkerKeeps DEF Scheduler!LockCapacity, Scheduler!work
<1> QED BY <1>1, <1>2, <1>3, <1>4, <1>5, <1>6, <1>7

\* The claim statements.
LEMMA ClaimStep ==
  ASSUME CapacityInv, NEW w \in Scheduler!Workers,
         Scheduler!TryFlow(w) \/ Scheduler!Bypass(w) \/ Scheduler!ClaimCapacity(w)
  PROVE  CapacityInv'
<1>0. /\ pc[w] \notin {"claimedFlow", "claimed"} => taken[w] = {}
      /\ pc[w] = "flow" => w \in FairWorkers /\ Claiming(w)
      /\ pc[w] = "capacity" => Claiming(w)
  BY DEF CapacityInv, ClaimsExclude, Claiming, Scheduler!HoldsFlowLock,
     Scheduler!HoldsCapacityLock
<1>1. MaxItems \in Nat /\ 1 \in Nat
  BY SchedulerAssumption
<1>2. CASE Scheduler!TryFlow(w)
  <2>1. PICK t \in Scheduler!LeastRecent(Scheduler!Candidates(w)) :
          LET over == Scheduler!Oversized(w, t)
              units == Scheduler!ClaimUnits(t, Scheduler!Cardinality(Scheduler!Eligible(w)) = 1)
          IN \E S \in Scheduler!Claims(Scheduler!JobsOf(t),
                                       IF over THEN 1 ELSE MaxItems, units, over) :
               IF S = {} THEN UNCHANGED <<pc, taken>>
               ELSE /\ taken' = [taken EXCEPT ![w] = S]
                    /\ pc' = [pc EXCEPT ![w] = "claimedFlow"]
    BY <1>2 DEF Scheduler!TryFlow
  <2> DEFINE over == Scheduler!Oversized(w, t)
             units == Scheduler!ClaimUnits(t, Scheduler!Cardinality(Scheduler!Eligible(w)) = 1)
             n == IF over THEN 1 ELSE MaxItems
  <2>2. n \in Nat
    BY <1>1
  <2>3. PICK S \in Scheduler!Claims(Scheduler!JobsOf(t), n, units, over) :
          IF S = {} THEN UNCHANGED <<pc, taken>>
          ELSE /\ taken' = [taken EXCEPT ![w] = S]
               /\ pc' = [pc EXCEPT ![w] = "claimedFlow"]
    BY <2>1
  <2> HIDE DEF over, units, n
  <2>4. Claimed(S)
    BY <2>2, ClaimsFit DEF CapacityInv
  <2>5. pc[w] = "flow" /\ UNCHANGED <<itemStatus, revived>>
    BY <1>2 DEF Scheduler!TryFlow, Scheduler!work
  <2>6. CASE S = {}
    <3>1. pc' = [pc EXCEPT ![w] = "flow"]
      BY <2>3, <2>5, <2>6 DEF CapacityInv, SchedulerShape
    <3> QED BY <1>0, <2>3, <2>5, <2>6, <3>1, QuietWorkerKeeps
  <2>7. CASE S # {}
    BY <1>0, <2>3, <2>4, <2>5, <2>7, TakeKeeps
  <2> QED BY <2>6, <2>7
<1>3. CASE Scheduler!Bypass(w)
  <2>1. PICK t \in Scheduler!LeastRecent(Scheduler!Considered(w)) :
          \E S \in Scheduler!Claims(Scheduler!JobsOf(t), 1,
                Scheduler!ClaimUnits(t, Scheduler!Cardinality(Scheduler!Considered(w)) = 1), TRUE) :
            IF S = {} THEN Scheduler!Idle(w) /\ UNCHANGED taken
            ELSE /\ taken' = [taken EXCEPT ![w] = S]
                 /\ pc' = [pc EXCEPT ![w] = "claimedFlow"]
    BY <1>3 DEF Scheduler!Bypass
  <2> DEFINE units == Scheduler!ClaimUnits(t, Scheduler!Cardinality(Scheduler!Considered(w)) = 1)
  <2>2. PICK S \in Scheduler!Claims(Scheduler!JobsOf(t), 1, units, TRUE) :
          IF S = {} THEN Scheduler!Idle(w) /\ UNCHANGED taken
          ELSE /\ taken' = [taken EXCEPT ![w] = S]
               /\ pc' = [pc EXCEPT ![w] = "claimedFlow"]
    BY <2>1
  <2> HIDE DEF units
  <2>3. Claimed(S)
    BY <1>1, <2>2, ClaimsFit DEF CapacityInv
  <2>4. pc[w] = "flow" /\ UNCHANGED <<itemStatus, revived>>
    BY <1>3 DEF Scheduler!Bypass, Scheduler!work
  <2>5. CASE S = {}
    BY <1>0, <2>2, <2>4, <2>5, QuietWorkerKeeps DEF Scheduler!Idle
  <2>6. CASE S # {}
    BY <1>0, <2>2, <2>3, <2>4, <2>6, TakeKeeps
  <2> QED BY <2>5, <2>6
<1>4. CASE Scheduler!ClaimCapacity(w)
  <2> DEFINE jobs == {j \in Scheduler!Open : Scheduler!Runnable(j) # {}}
             fifo == Scheduler!Claimable(jobs, MaxWork, FALSE)
             S == IF Scheduler!RemainingSlots = 0 \/ fifo = {} THEN {}
                  ELSE Scheduler!Slice(Scheduler!First(fifo),
                         Scheduler!Min({MaxItems, Scheduler!RemainingSlots}), MaxWork, FALSE)
  <2>1. Claimed(S)
    <3>1. CASE S = {}
      BY <3>1 DEF Claimed
    <3>2. CASE S # {}
      BY <1>1, <3>2, SliceFits DEF CapacityInv
    <3> QED BY <3>1, <3>2
  <2>2. /\ pc[w] = "capacity" /\ UNCHANGED <<itemStatus, revived>>
        /\ IF S = {} THEN Scheduler!Idle(w) /\ UNCHANGED taken
           ELSE /\ taken' = [taken EXCEPT ![w] = S]
                /\ pc' = [pc EXCEPT ![w] = "claimed"]
    BY <1>4 DEF Scheduler!ClaimCapacity, Scheduler!work
  <2> HIDE DEF S
  <2>3. CASE S = {}
    BY <1>0, <2>2, <2>3, QuietWorkerKeeps DEF Scheduler!Idle
  <2>4. CASE S # {}
    BY <1>0, <2>1, <2>2, <2>4, TakeKeeps
  <2> QED BY <2>3, <2>4
<1> QED BY <1>2, <1>3, <1>4

LEMMA CommitStep ==
  ASSUME CapacityInv, NEW w \in Scheduler!Workers,
         Scheduler!CommitFlow(w) \/ Scheduler!CommitCapacity(w)
  PROVE  CapacityInv'
<1>1. Scheduler!Commit(w)
  BY DEF Scheduler!CommitFlow, Scheduler!CommitCapacity
<1>2. /\ itemStatus' = [i \in SchedulerItems |-> IF i \in taken[w] THEN "live" ELSE itemStatus[i]]
      /\ revived' = revived \ taken[w]
      /\ taken' = [taken EXCEPT ![w] = {}]
      /\ pc' = [pc EXCEPT ![w] = "idle"]
  BY <1>1 DEF Scheduler!Commit, Scheduler!Idle
<1>3. SchedulerShape'
  BY <1>2 DEF CapacityInv, SchedulerShape
<1>4. /\ taken'[w] = {} /\ \A u \in Scheduler!Workers \ {w} : taken'[u] = taken[u]
  BY <1>2 DEF CapacityInv, SchedulerShape
<1>5. ClaimsExclude'
  BY <1>2, <1>4, MoveExcludes DEF CapacityInv
<1>6. Counted' \subseteq Counted
  BY <1>2, <1>4 DEF Counted, LiveItems, Scheduler!RowLocked, CapacityInv, SchedulerShape
<1> QED BY <1>3, <1>5, <1>6, ShrinkKeeps

LEMMA RollbackStep ==
  ASSUME CapacityInv, NEW w \in Scheduler!Workers, Scheduler!Rollback(w)
  PROVE  CapacityInv'
<1>2. /\ UNCHANGED <<itemStatus, revived>>
      /\ taken' = [taken EXCEPT ![w] = {}]
      /\ pc' = [pc EXCEPT ![w] = "idle"]
  BY DEF Scheduler!Rollback, Scheduler!Idle, Scheduler!work
<1>3. SchedulerShape'
  BY <1>2 DEF CapacityInv, SchedulerShape
<1>4. /\ taken'[w] = {} /\ \A u \in Scheduler!Workers \ {w} : taken'[u] = taken[u]
  BY <1>2 DEF CapacityInv, SchedulerShape
<1>5. ClaimsExclude'
  BY <1>2, <1>4, MoveExcludes DEF CapacityInv
<1>6. Counted' \subseteq Counted
  BY <1>2, <1>4 DEF Counted, LiveItems, Scheduler!RowLocked, CapacityInv, SchedulerShape
<1> QED BY <1>3, <1>5, <1>6, ShrinkKeeps

\* The rest of the system takes items out of the count; a lease renewed late is
\* remembered in revived.
LEMMA ItemStep ==
  ASSUME CapacityInv,
         \/ \E j \in Jobs : Scheduler!Submit(j)
         \/ \E i \in SchedulerItems :
              Scheduler!Finish(i) \/ Scheduler!LeaseExpires(i) \/ Scheduler!RenewLease(i)
  PROVE  CapacityInv'
<1>1. UNCHANGED <<pc, taken>>
  BY DEF Scheduler!Submit, Scheduler!Finish, Scheduler!LeaseExpires, Scheduler!RenewLease
<1>2. ClaimsExclude'
  BY <1>1 DEF CapacityInv, ClaimsExclude, Claiming, Scheduler!HoldsFlowLock,
     Scheduler!HoldsCapacityLock
<1>3. SchedulerShape'
  BY <1>1 DEF CapacityInv, SchedulerShape, Scheduler!Submit, Scheduler!Finish,
     Scheduler!LeaseExpires, Scheduler!RenewLease
<1>4. LiveItems' \ revived' \subseteq LiveItems \ revived
  BY DEF CapacityInv, SchedulerShape, LiveItems, Scheduler!Submit, Scheduler!Finish,
     Scheduler!LeaseExpires, Scheduler!RenewLease
<1>5. Counted' \subseteq Counted
  BY <1>1, <1>4 DEF Counted, Scheduler!RowLocked
<1> QED BY <1>2, <1>3, <1>5, ShrinkKeeps

\* CapacityInv is an invariant of the claims: in dual mode, the default
\* (config.py: embeddings_batch_advisory_lock_mode), or without workers in
\* fair-share mode, one claim counts and commits at a time.
THEOREM CapacityInvariance ==
  ASSUME Dual \/ FairWorkers = {}
  PROVE  IntakeSpec => []CapacityInv
<1>1. IntakeInit => CapacityInv
  <2> SUFFICES ASSUME Scheduler!Init PROVE CapacityInv
    BY DEF IntakeInit
  <2>1. SchedulerShape /\ ClaimsExclude
    BY DEF Scheduler!Init, SchedulerShape, ClaimsExclude, Claiming,
       Scheduler!HoldsFlowLock, Scheduler!HoldsCapacityLock
  <2>2. Counted = {}
    BY DEF Scheduler!Init, Counted, LiveItems, Scheduler!RowLocked
  <2>3. Cardinality(Counted) <= MaxInFlight
    BY <2>2, FS_EmptySet, SchedulerAssumption
  <2> QED BY <2>1, <2>3 DEF CapacityInv
<1>2. CapacityInv /\ [IntakeNext]_<<focus, vars, schedulerVars>> => CapacityInv'
  <2> SUFFICES ASSUME CapacityInv, [IntakeNext]_<<focus, vars, schedulerVars>>
               PROVE  CapacityInv'
    OBVIOUS
  <2>1. CASE UNCHANGED schedulerVars
    BY <2>1 DEF schedulerVars, CapacityInv, SchedulerShape, ClaimsExclude, Claiming,
       Counted, LiveItems, Scheduler!RowLocked, Scheduler!HoldsFlowLock,
       Scheduler!HoldsCapacityLock
  <2>2. ASSUME NEW w \in Scheduler!Workers, Scheduler!WorkerStep(w) \/ Scheduler!Rollback(w)
        PROVE  CapacityInv'
    BY <2>2, LockStep, ClaimStep, CommitStep, RollbackStep DEF Scheduler!WorkerStep
  <2>3. CASE \/ \E j \in Jobs : Scheduler!Submit(j)
             \/ \E i \in SchedulerItems :
                  Scheduler!Finish(i) \/ Scheduler!LeaseExpires(i) \/ Scheduler!RenewLease(i)
    BY <2>3, ItemStep
  <2>4. CASE Scheduler!Next
    BY <2>2, <2>3, <2>4 DEF Scheduler!Next
  <2> QED BY <2>1, <2>4 DEF IntakeNext
<1> QED BY <1>1, <1>2, PTL DEF IntakeSpec

\* CapacityKept for every set of workers, tenants, jobs and items and every
\* capacity: a claim counts the items in flight under its advisory lock, and
\* nobody adds to them until it commits (job_repository.py).
THEOREM CapacitySafe ==
  ASSUME Dual \/ FairWorkers = {}
  PROVE  IntakeSpec => []CapacityKept
<1>1. CapacityInv => CapacityKept
  <2> SUFFICES ASSUME CapacityInv PROVE Cardinality(LiveItems \ revived) <= MaxInFlight
    BY SchedulerCardinality DEF CapacityKept, Scheduler!CapacityKept, LiveItems
  <2>1. Counted \subseteq SchedulerItems /\ LiveItems \ revived \subseteq Counted
    BY DEF CapacityInv, SchedulerShape, Counted, LiveItems, Scheduler!RowLocked
  <2>2. IsFiniteSet(Counted) /\ Cardinality(Counted) \in Nat
    BY <2>1, CountedFinite DEF CapacityInv
  <2>3. /\ Cardinality(LiveItems \ revived) <= Cardinality(Counted)
        /\ Cardinality(LiveItems \ revived) \in Nat
    BY <2>1, <2>2, FS_Subset, FS_CardinalityType
  <2> QED BY <2>2, <2>3, SchedulerAssumption DEF CapacityInv
<1> QED BY <1>1, CapacityInvariance, PTL
=============================================================================
