-------------------------- MODULE BatchItemsProofs --------------------------
(***************************************************************************)
(* Proofs about BatchItems for every number of items, workers, attempts    *)
(* and faults.                                                             *)
(*                                                                         *)
(* The argument: whatever a process does, it changes the item rows in one  *)
(* of five ways (RowStep); this needs the two facts about a worker's       *)
(* memory in WorkerOK.  Each of the five ways preserves the row invariant  *)
(* RowOK, keeps terminal rows, respects running leases and is a step of    *)
(* the item life cycle.                                                    *)
(***************************************************************************)
EXTENDS BatchItems, TLAPS

RowOK ==
  /\ status \in [Items -> ItemStatus]
  /\ lockedBy \in [Items -> Workers \cup {NoWorker}]
  /\ lease \in [Items -> Lease]
  /\ epoch \in [Items -> Nat]
  /\ response \in [Items -> Claims \cup {NoClaim}]
  /\ outbox \in [Items -> Claims \cup {NoClaim}]
  /\ LeaseBookkeeping
  /\ BilledExactlyCompleted
  /\ LastClaimWins
  /\ RetriesWithinBudget

WorkerOK ==
  /\ cancelRequested \in BOOLEAN
  /\ retryFits \in BOOLEAN
  /\ phase \in [Workers -> Phases]
  /\ slice \in [Workers -> SUBSET Items]
  /\ known \in [Workers -> [Items -> Nat]]
  /\ backlog \in [Workers -> SUBSET Items]
  /\ units \in [Workers -> SUBSET Units]
  /\ faults \in Nat
  /\ UnitsOnlyWhileWorking
  /\ RetryUnitsMayRetry

\* The five ways to change the rows.
SameStep == UNCHANGED <<rowVars, outbox>>

LeaseStep ==
  /\ lease' \in [Items -> Lease]
  /\ \A i \in Items : lease'[i] # lease[i] =>
       \/ status[i] = "in_progress" /\ lease'[i] # "none"
       \/ status[i] = "pending" /\ lease[i] = "live" /\ lease'[i] = "expired"
  /\ UNCHANGED <<status, lockedBy, epoch, response, outbox>>

TakeStep ==
  \E w \in Workers, S \in SUBSET Items :
    /\ \A i \in S : Runnable(i)
    /\ status' = Set(status, S, "in_progress")
    /\ lockedBy' = Set(lockedBy, S, w)
    /\ lease' = Set(lease, S, "live")
    /\ epoch' = [i \in Items |-> IF i \in S THEN epoch[i] + 1 ELSE epoch[i]]
    /\ UNCHANGED <<response, outbox>>

Outcome(S, to, newLease) ==
  \/ to = "failed" /\ newLease = "none" /\ \A i \in S : status[i] \in Open
  \/ to = "cancelled" /\ newLease = "none" /\ \A i \in S : status[i] = "pending"
  \/ /\ to = "pending" /\ \A i \in S : status[i] = "in_progress"
     /\ newLease = "none" \/ (newLease = "live" /\ \A i \in S : epoch[i] < MaxAttempts)

SettleStep ==
  \E S \in SUBSET Items : \E to \in ItemStatus, newLease \in Lease :
    /\ Outcome(S, to, newLease)
    /\ Settle(S, to, newLease)
    /\ UNCHANGED <<response, outbox>>

CompleteStep ==
  \E w \in Workers : \E S \in SUBSET Items :
    /\ \A i \in S : Owned(w, i) /\ outbox[i] = NoClaim
    /\ CompleteRows(w, S)

RowStep == SameStep \/ LeaseStep \/ TakeStep \/ SettleStep \/ CompleteStep

-----------------------------------------------------------------------------
\* A row step keeps the row invariant, whichever of the five it is.
LEMMA RowStepKeepsRowOK ==
  ASSUME RowOK, RowStep, \A w \in Workers : known[w] \in [Items -> Nat]
  PROVE  RowOK'
<1> USE ConstantsAssumption DEF RowOK, ItemStatus, Open, Terminal, Lease
<1>1. CASE SameStep
  BY <1>1 DEF SameStep, rowVars, LeaseBookkeeping, BilledExactlyCompleted, LastClaimWins,
     RetriesWithinBudget, Terminal
<1>2. CASE LeaseStep
  BY <1>2 DEF LeaseStep, LeaseBookkeeping, BilledExactlyCompleted, LastClaimWins,
     RetriesWithinBudget
<1>3. CASE TakeStep
  <2> PICK w \in Workers, S \in SUBSET Items :
        /\ \A i \in S : Runnable(i)
        /\ status' = Set(status, S, "in_progress")
        /\ lockedBy' = Set(lockedBy, S, w)
        /\ lease' = Set(lease, S, "live")
        /\ epoch' = [i \in Items |-> IF i \in S THEN epoch[i] + 1 ELSE epoch[i]]
        /\ UNCHANGED <<response, outbox>>
    BY <1>3 DEF TakeStep
  <2>1. \A i \in Items : /\ i \in S => status[i] \in Open /\ response[i] = NoClaim
                         /\ status'[i] = IF i \in S THEN "in_progress" ELSE status[i]
                         /\ lockedBy'[i] = IF i \in S THEN w ELSE lockedBy[i]
                         /\ lease'[i] = IF i \in S THEN "live" ELSE lease[i]
                         /\ epoch'[i] = IF i \in S THEN epoch[i] + 1 ELSE epoch[i]
    BY DEF Set, Runnable, BilledExactlyCompleted
  <2>2. /\ status' \in [Items -> ItemStatus]
        /\ lockedBy' \in [Items -> Workers \cup {NoWorker}]
        /\ lease' \in [Items -> Lease]
        /\ epoch' \in [Items -> Nat]
    BY DEF Set
  <2>3. LeaseBookkeeping'
    BY <2>1 DEF LeaseBookkeeping
  <2>4. BilledExactlyCompleted' /\ LastClaimWins' /\ RetriesWithinBudget'
    BY <2>1 DEF BilledExactlyCompleted, LastClaimWins, RetriesWithinBudget
  <2> QED BY <2>2, <2>3, <2>4
<1>4. CASE SettleStep
  <2> PICK S \in SUBSET Items, to \in ItemStatus, newLease \in Lease :
        /\ Outcome(S, to, newLease)
        /\ Settle(S, to, newLease)
        /\ UNCHANGED <<response, outbox>>
    BY <1>4 DEF SettleStep
  <2>1. \A i \in Items : /\ i \in S => status[i] \in Open
                         /\ status'[i] = IF i \in S THEN to ELSE status[i]
                         /\ lockedBy'[i] = IF i \in S THEN NoWorker ELSE lockedBy[i]
                         /\ lease'[i] = IF i \in S THEN newLease ELSE lease[i]
                         /\ epoch'[i] = epoch[i]
    BY DEF Settle, Set, Outcome
  <2>2. /\ status' \in [Items -> ItemStatus]
        /\ lockedBy' \in [Items -> Workers \cup {NoWorker}]
        /\ lease' \in [Items -> Lease]
        /\ epoch' \in [Items -> Nat]
    BY DEF Settle, Set
  <2>3. LeaseBookkeeping'
    BY <2>1 DEF LeaseBookkeeping, Outcome
  <2>4. BilledExactlyCompleted' /\ LastClaimWins'
    BY <2>1 DEF BilledExactlyCompleted, LastClaimWins, Outcome
  <2>5. RetriesWithinBudget'
    BY <2>1 DEF RetriesWithinBudget, Outcome
  <2> QED BY <2>2, <2>3, <2>4, <2>5
<1>5. CASE CompleteStep
  <2> PICK w \in Workers, S \in SUBSET Items :
        /\ \A i \in S : Owned(w, i) /\ outbox[i] = NoClaim
        /\ CompleteRows(w, S)
    BY <1>5 DEF CompleteStep
  <2> DEFINE claim(i) == [worker |-> w, epoch |-> known[w][i]]
  <2>1. \A i \in Items : /\ i \in S => /\ status[i] = "in_progress"
                                       /\ epoch[i] = known[w][i]
                         /\ status'[i] = IF i \in S THEN "completed" ELSE status[i]
                         /\ lockedBy'[i] = IF i \in S THEN NoWorker ELSE lockedBy[i]
                         /\ lease'[i] = IF i \in S THEN "none" ELSE lease[i]
                         /\ epoch'[i] = epoch[i]
    BY DEF CompleteRows, Settle, Set, Owned
  <2>2. \A i \in Items : /\ response'[i] = IF i \in S THEN claim(i) ELSE response[i]
                         /\ outbox'[i] = IF i \in S THEN claim(i) ELSE outbox[i]
    BY DEF CompleteRows
  <2>3. \A i \in Items : claim(i) \in Claims /\ claim(i) # NoClaim /\ claim(i).epoch = known[w][i]
    BY DEF Claims, NoClaim
  <2>4. /\ status' \in [Items -> ItemStatus]
        /\ lockedBy' \in [Items -> Workers \cup {NoWorker}]
        /\ lease' \in [Items -> Lease]
        /\ epoch' \in [Items -> Nat]
    BY DEF CompleteRows, Settle, Set
  <2>5. /\ response' \in [Items -> Claims \cup {NoClaim}]
        /\ outbox' \in [Items -> Claims \cup {NoClaim}]
    BY <2>3 DEF CompleteRows
  <2> HIDE DEF claim
  <2>6. LeaseBookkeeping'
    BY <2>1 DEF LeaseBookkeeping
  <2>7. BilledExactlyCompleted'
    BY <2>1, <2>2, <2>3 DEF BilledExactlyCompleted
  <2>8. LastClaimWins'
    BY <2>1, <2>2, <2>3 DEF LastClaimWins
  <2>9. RetriesWithinBudget'
    BY <2>1 DEF RetriesWithinBudget
  <2> QED BY <2>4, <2>5, <2>6, <2>7, <2>8, <2>9
<1> QED BY <1>1, <1>2, <1>3, <1>4, <1>5 DEF RowStep

-----------------------------------------------------------------------------
(* Every action of a worker, of the clock, of the sweeper and of the       *)
(* operators is a row step and keeps WorkerOK.                             *)

\* Claiming a slice.
LEMMA ClaimSteps ==
  ASSUME RowOK, WorkerOK, NEW w \in Workers, NEW S \in SUBSET Items,
         \/ ClaimWork(w, S) \/ ClaimItems(w, S) \/ ClaimJob(w) \/ ClaimNothing(w)
         \/ GetJob(w) \/ LoadClaimItems(w)
  PROVE  RowStep /\ WorkerOK'
<1> USE DEF WorkerOK, Phases
<1>1. CASE ClaimWork(w, S)
  <2>1. TakeStep
    BY <1>1 DEF ClaimWork, TakeItems, TakeStep
  <2>2. WorkerOK'
    BY <1>1 DEF ClaimWork, TakeItems, GoTo, jobVars, UnitsOnlyWhileWorking,
       RetryUnitsMayRetry, CanRetry
  <2> QED BY <2>1, <2>2 DEF RowStep
<1>2. CASE ClaimItems(w, S)
  <2>1. TakeStep
    BY <1>2 DEF ClaimItems, TakeItems, TakeStep
  <2>2. known' \in [Workers -> [Items -> Nat]]
    BY <1>2 DEF ClaimItems, RowOK
  <2>3. UnitsOnlyWhileWorking' /\ RetryUnitsMayRetry'
    BY <1>2 DEF ClaimItems, TakeItems, GoTo, UnitsOnlyWhileWorking, RetryUnitsMayRetry,
       CanRetry
  <2>4. WorkerOK'
    BY <1>2, <2>2, <2>3 DEF ClaimItems, TakeItems, GoTo, jobVars
  <2> QED BY <2>1, <2>4 DEF RowStep
<1>3. CASE LoadClaimItems(w)
  <2>1. SameStep
    BY <1>3 DEF LoadClaimItems, SameStep
  <2>2. known' \in [Workers -> [Items -> Nat]]
    BY <1>3 DEF LoadClaimItems, RowOK
  <2>3. UnitsOnlyWhileWorking' /\ RetryUnitsMayRetry'
    BY <1>3 DEF LoadClaimItems, GoTo, UnitsOnlyWhileWorking, RetryUnitsMayRetry, CanRetry
  <2>4. WorkerOK'
    BY <1>3, <2>2, <2>3 DEF LoadClaimItems, GoTo, jobVars
  <2> QED BY <2>1, <2>4 DEF RowStep
<1>4. CASE ClaimJob(w) \/ ClaimNothing(w) \/ GetJob(w)
  <2>1. SameStep
    BY <1>4 DEF ClaimJob, ClaimNothing, GetJob, SameStep
  <2>2. WorkerOK'
    BY <1>4 DEF ClaimJob, ClaimNothing, GetJob, GoTo, jobVars, UnitsOnlyWhileWorking,
       RetryUnitsMayRetry, CanRetry
  <2> QED BY <2>1, <2>2 DEF RowStep
<1> QED BY <1>1, <1>2, <1>3, <1>4

\* Releasing a slice, and the cancel branch.
LEMMA ReleaseSteps ==
  ASSUME RowOK, WorkerOK, NEW w \in Workers,
         CancelRelease(w) \/ CancelPending(w) \/ ReleaseClaim(w) \/ FinishSlice(w)
  PROVE  RowStep /\ WorkerOK'
<1> USE DEF WorkerOK, Phases
<1>1. CASE CancelRelease(w) \/ ReleaseClaim(w)
  <2> DEFINE S == {i \in slice[w] : Locked(w, i)}
  <2>1. S \in SUBSET Items /\ Outcome(S, "pending", "none")
    BY DEF Locked, Outcome
  <2>2. Settle(S, "pending", "none") /\ UNCHANGED <<response, outbox>>
    BY <1>1 DEF CancelRelease, ReleaseClaim
  <2>3. SettleStep
    BY <2>1, <2>2 DEF SettleStep, ItemStatus, Open, Lease
  <2>4. WorkerOK'
    BY <1>1 DEF CancelRelease, ReleaseClaim, GoTo, jobVars, UnitsOnlyWhileWorking,
       RetryUnitsMayRetry, CanRetry
  <2> QED BY <2>3, <2>4 DEF RowStep
<1>2. CASE CancelPending(w)
  <2> DEFINE S == {i \in Items : status[i] = "pending"}
  <2>1. S \in SUBSET Items /\ Outcome(S, "cancelled", "none")
    BY DEF Outcome
  <2>2. Settle(S, "cancelled", "none") /\ UNCHANGED <<response, outbox>>
    BY <1>2 DEF CancelPending, MarkPendingCancelled
  <2>3. SettleStep
    BY <2>1, <2>2 DEF SettleStep, ItemStatus, Terminal, Lease
  <2>4. WorkerOK'
    BY <1>2 DEF CancelPending, GoTo, jobVars, UnitsOnlyWhileWorking, RetryUnitsMayRetry,
       CanRetry
  <2> QED BY <2>3, <2>4 DEF RowStep
<1>3. CASE FinishSlice(w)
  <2>1. SameStep
    BY <1>3 DEF FinishSlice, SameStep
  <2>2. WorkerOK'
    BY <1>3 DEF FinishSlice, GoTo, jobVars, UnitsOnlyWhileWorking, RetryUnitsMayRetry,
       CanRetry
  <2> QED BY <2>1, <2>2 DEF RowStep
<1> QED BY <1>1, <1>2, <1>3

\* Replacing a started unit by units whose retries are within the budget keeps
\* the worker invariant.
LEMMA ReplaceUnits ==
  ASSUME WorkerOK, NEW w \in Workers, NEW u \in units[w], NEW V \in SUBSET Units,
         \A v \in V : v.step = "retry" => \A i \in v.items : CanRetry(w, i),
         Replace(w, u, V), UNCHANGED <<jobVars, phase, slice, known, backlog>>,
         faults' \in Nat
  PROVE  WorkerOK'
<1>1. phase[w] = "working"
  BY DEF WorkerOK, UnitsOnlyWhileWorking
<1>2. units' = [units EXCEPT ![w] = (units[w] \ {u}) \cup V]
  BY DEF Replace
<1>3. units' \in [Workers -> SUBSET Units]
  BY <1>2 DEF WorkerOK
<1>4. UnitsOnlyWhileWorking'
  BY <1>1, <1>2 DEF WorkerOK, UnitsOnlyWhileWorking
<1>5. RetryUnitsMayRetry'
  BY <1>2 DEF WorkerOK, RetryUnitsMayRetry, CanRetry
<1> QED BY <1>3, <1>4, <1>5 DEF WorkerOK, jobVars

\* The units the failure of an item leads to.
LEMMA FailureUnits ==
  ASSUME NEW w \in Workers, NEW F \in SUBSET Items, NEW r \in BOOLEAN
  PROVE  /\ {FailureUnit(w, i, r) : i \in F} \in SUBSET Units
         /\ \A v \in {FailureUnit(w, i, r) : i \in F} :
              v.step = "retry" => \A i \in v.items : CanRetry(w, i)
<1>1. \A i \in F : FailureUnit(w, i, r) \in Units
  BY DEF FailureUnit, Units, Steps
<1>2. \A i \in F : FailureUnit(w, i, r).step = "retry" =>
        \A j \in FailureUnit(w, i, r).items : CanRetry(w, j)
  BY DEF FailureUnit
<1> QED BY <1>1, <1>2

\* The steps of a unit that leave the rows alone.
LEMMA QuietUnitSteps ==
  ASSUME RowOK, WorkerOK, NEW w \in Workers, NEW u \in units[w],
         NEW F \in SUBSET u.items, NEW r \in BOOLEAN,
         HeartbeatLost(w, u) \/ ProviderAnswers(w, u, F, r) \/ ProviderFails(w, u, r)
  PROVE  RowStep /\ WorkerOK'
<1>1. u \in Units /\ u.items \in SUBSET Items /\ faults \in Nat
  BY DEF WorkerOK, Units
<1>2. RowStep
  BY DEF HeartbeatLost, ProviderAnswers, ProviderFails, RowStep, SameStep
<1>3. CASE HeartbeatLost(w, u)
  BY <1>1, <1>2, <1>3, ReplaceUnits DEF HeartbeatLost, Drop
<1>4. CASE ProviderAnswers(w, u, F, r)
  <2> DEFINE A == [items |-> u.items \ F, step |-> "answered"]
             V == {FailureUnit(w, i, r) : i \in F}
  <2>1. A \in Units /\ A.step # "retry"
    BY <1>1 DEF Units, Steps
  <2>2. /\ V \in SUBSET Units
        /\ \A v \in V : v.step = "retry" => \A i \in v.items : CanRetry(w, i)
    BY <1>1, FailureUnits
  <2> HIDE DEF V
  <2>3. Replace(w, u, {A} \cup V) /\ UNCHANGED <<jobVars, phase, slice, known, backlog, faults>>
    BY <1>4 DEF ProviderAnswers, V
  <2> HIDE DEF A
  <2>4. {A} \cup V \in SUBSET Units
    BY <2>1, <2>2
  <2>5. \A v \in {A} \cup V : v.step = "retry" => \A i \in v.items : CanRetry(w, i)
    BY <2>1, <2>2
  <2> QED BY <1>1, <1>2, <2>3, <2>4, <2>5, ReplaceUnits
<1>5. CASE ProviderFails(w, u, r)
  <2> DEFINE V == {FailureUnit(w, i, r) : i \in u.items}
             A == {[items |-> {i}, step |-> "calling"] : i \in u.items}
             G == {[u EXCEPT !.step = "retry"]}
  <2>1. \/ Replace(w, u, V)
        \/ Replace(w, u, A)
        \/ (\A i \in u.items : CanRetry(w, i)) /\ Replace(w, u, G)
    BY <1>5 DEF ProviderFails, Move
  <2>2. UNCHANGED <<jobVars, phase, slice, known, backlog, faults>>
    BY <1>5 DEF ProviderFails
  <2>3. /\ V \in SUBSET Units
        /\ \A v \in V : v.step = "retry" => \A i \in v.items : CanRetry(w, i)
    BY <1>1, FailureUnits
  <2>4. A \in SUBSET Units /\ \A v \in A : v.step # "retry"
    BY <1>1 DEF Units, Steps
  <2>5. G \in SUBSET Units /\ \A v \in G : v.items = u.items
    BY <1>1 DEF Units, Steps
  <2> HIDE DEF V, A, G
  <2>6. CASE Replace(w, u, V)
    BY <1>1, <1>2, <2>2, <2>3, <2>6, ReplaceUnits
  <2>7. CASE Replace(w, u, A)
    BY <1>1, <1>2, <2>2, <2>4, <2>7, ReplaceUnits
  <2>8. CASE (\A i \in u.items : CanRetry(w, i)) /\ Replace(w, u, G)
    BY <1>1, <1>2, <2>2, <2>5, <2>8, ReplaceUnits
  <2> QED BY <2>1, <2>6, <2>7, <2>8
<1> QED BY <1>3, <1>4, <1>5

\* The statements that give items back or fail them.
LEMMA SettlingUnitSteps ==
  ASSUME RowOK, WorkerOK, NEW w \in Workers, NEW u \in units[w],
         MarkRetry(w, u) \/ MarkFailed(w, u) \/ RequeueUnit(w, u)
  PROVE  RowStep /\ WorkerOK'
<1> DEFINE O == {i \in u.items : Owned(w, i)}
<1>1. u \in Units /\ u.items \in SUBSET Items /\ faults \in Nat /\ {} \in SUBSET Units
  BY DEF WorkerOK, Units
<1>2. \A i \in O : status[i] = "in_progress" /\ epoch[i] = known[w][i]
  BY DEF Owned
<1>3. CASE MarkRetry(w, u)
  <2> DEFINE R == IF retryFits THEN O ELSE {}
             A == {[items |-> {i}, step |-> "calling"] : i \in u.items}
             V == {FailureUnit(w, i, TRUE) : i \in u.items}
             G == {[u EXCEPT !.step = "fail"]}
  <2>1. R \in SUBSET Items /\ \A i \in R : i \in O
    BY <1>1
  <2>2. \A i \in R : status[i] = "in_progress" /\ epoch[i] < MaxAttempts
    BY <1>2, <1>3, <2>1 DEF MarkRetry, WorkerOK, RetryUnitsMayRetry, CanRetry
  <2>3. Settle(R, "pending", "live") /\ UNCHANGED <<response, outbox>>
    BY <1>3 DEF MarkRetry
  <2>4. \/ Replace(w, u, {}) \/ Replace(w, u, G) \/ Replace(w, u, A) \/ Replace(w, u, V)
    BY <1>3 DEF MarkRetry, Drop, Move
  <2>5. UNCHANGED <<jobVars, phase, slice, known, backlog, faults>>
    BY <1>3 DEF MarkRetry
  <2>6. A \in SUBSET Units /\ \A v \in A : v.step # "retry"
    BY <1>1 DEF Units, Steps
  <2>7. /\ V \in SUBSET Units
        /\ \A v \in V : v.step = "retry" => \A i \in v.items : CanRetry(w, i)
    BY <1>1, FailureUnits
  <2>8. G \in SUBSET Units /\ \A v \in G : v.step # "retry"
    BY <1>1 DEF Units, Steps
  <2> HIDE DEF A, V, G, R
  <2>9. RowStep
    BY <2>1, <2>2, <2>3 DEF RowStep, SettleStep, Outcome, ItemStatus, Open, Lease
  <2>10. WorkerOK'
    <3>1. CASE Replace(w, u, {})
      BY <1>1, <2>5, <3>1, ReplaceUnits
    <3>2. CASE Replace(w, u, G)
      BY <1>1, <2>5, <2>8, <3>2, ReplaceUnits
    <3>3. CASE Replace(w, u, A)
      BY <1>1, <2>5, <2>6, <3>3, ReplaceUnits
    <3>4. CASE Replace(w, u, V)
      BY <1>1, <2>5, <2>7, <3>4, ReplaceUnits
    <3> QED BY <2>4, <3>1, <3>2, <3>3, <3>4
  <2> QED BY <2>9, <2>10
<1>4. CASE MarkFailed(w, u)
  <2>1. Settle(O, "failed", "none") /\ UNCHANGED <<response, outbox>>
    BY <1>4 DEF MarkFailed
  <2>2. O \in SUBSET Items /\ Outcome(O, "failed", "none")
    BY <1>1, <1>2 DEF Outcome, Open
  <2>3. RowStep
    BY <2>1, <2>2 DEF RowStep, SettleStep, ItemStatus, Terminal, Lease
  <2>4. WorkerOK'
    BY <1>1, <1>4, ReplaceUnits DEF MarkFailed, Drop
  <2> QED BY <2>3, <2>4
<1>5. CASE RequeueUnit(w, u)
  <2> DEFINE R == IF retryFits THEN O ELSE {}
  <2>1. Settle(R, "pending", "none") /\ UNCHANGED <<response, outbox>>
    BY <1>5 DEF RequeueUnit
  <2>2. R \in SUBSET Items /\ Outcome(R, "pending", "none")
    BY <1>1, <1>2 DEF Outcome
  <2> HIDE DEF R
  <2>3. RowStep
    BY <2>1, <2>2 DEF RowStep, SettleStep, ItemStatus, Open, Lease
  <2>4. WorkerOK'
    BY <1>1, <1>5, ReplaceUnits DEF RequeueUnit, Drop
  <2> QED BY <2>3, <2>4
<1> QED BY <1>3, <1>4, <1>5

\* Confirming the leases and committing the completion transaction.
LEMMA PersistingUnitSteps ==
  ASSUME RowOK, WorkerOK, NEW w \in Workers, NEW u \in units[w],
         NEW R \in SUBSET u.items, NEW c \in BOOLEAN,
         \/ ConfirmLease(w, u) \/ ConfirmLost(w, u, R)
         \/ Persist(w, u) \/ PersistRaises(w, u, c)
  PROVE  RowStep /\ WorkerOK'
<1>1. u \in Units /\ u.items \in SUBSET Items /\ faults \in Nat /\ {} \in SUBSET Units
  BY DEF WorkerOK, Units
<1>2. ASSUME NEW s \in {"persist1", "persist2", "requeue"}
      PROVE  /\ {[u EXCEPT !.step = s]} \in SUBSET Units
             /\ \A v \in {[u EXCEPT !.step = s]} : v.step # "retry"
  BY <1>1 DEF Units, Steps
<1>3. CASE ConfirmLease(w, u)
  <2>1. LeaseStep
    BY <1>1, <1>3 DEF ConfirmLease, LeaseStep, Set, Owned, RowOK, Lease
  <2>2. WorkerOK'
    BY <1>1, <1>2, <1>3, ReplaceUnits DEF ConfirmLease, Move
  <2> QED BY <2>1, <2>2 DEF RowStep
<1>4. CASE ConfirmLost(w, u, R)
  <2>1. LeaseStep
    BY <1>1, <1>4 DEF ConfirmLost, LeaseStep, Set, Owned, RowOK, Lease
  <2>2. faults' \in Nat
    BY <1>1, <1>4 DEF ConfirmLost, Fault
  <2>3. WorkerOK'
    BY <1>1, <1>4, <2>2, ReplaceUnits DEF ConfirmLost, Drop
  <2> QED BY <2>1, <2>3 DEF RowStep
<1>5. ASSUME Committable(w, u), CompleteRows(w, u.items)
      PROVE  RowStep
  BY <1>1, <1>5 DEF RowStep, CompleteStep, Committable
<1>6. CASE Persist(w, u)
  <2>1. RowStep
    BY <1>5, <1>6 DEF Persist, RowStep, SameStep
  <2>2. WorkerOK'
    BY <1>1, <1>6, ReplaceUnits DEF Persist, Drop
  <2> QED BY <2>1, <2>2
<1>7. CASE PersistRaises(w, u, c)
  <2>1. RowStep
    BY <1>5, <1>7 DEF PersistRaises, RowStep, SameStep
  <2>2. faults' \in Nat
    BY <1>1, <1>7 DEF PersistRaises, Fault
  <2>3. WorkerOK'
    BY <1>1, <1>2, <1>7, <2>2, ReplaceUnits DEF PersistRaises, Move
  <2> QED BY <2>1, <2>3
<1> QED BY <1>3, <1>4, <1>6, <1>7

\* Starting a unit, errors and crashes, heartbeats, time, sweeper, operators.
LEMMA OtherSteps ==
  ASSUME RowOK, WorkerOK,
         \/ \E w \in Workers : \E G \in SUBSET backlog[w] : StartUnit(w, G)
         \/ \E w \in Workers : Abort(w) \/ Crash(w)
         \/ \E w \in Workers, i \in Items : HeartbeatRenew(w, i)
         \/ Environment
  PROVE  RowStep /\ WorkerOK'
<1>1. ASSUME UNCHANGED <<jobVars, workerVars>>, faults' \in Nat
      PROVE  WorkerOK'
  BY <1>1 DEF WorkerOK, jobVars, workerVars, UnitsOnlyWhileWorking, RetryUnitsMayRetry,
     CanRetry
<1>2. faults \in Nat
  BY DEF WorkerOK
<1>3. ASSUME NEW w \in Workers, NEW G \in SUBSET backlog[w], StartUnit(w, G)
      PROVE  RowStep /\ WorkerOK'
  <2> DEFINE g == [items |-> G, step |-> "calling"]
  <2>1. G \in SUBSET Items
    BY DEF WorkerOK
  <2>2. g \in Units /\ g.step # "retry"
    BY <2>1 DEF Units, Steps
  <2>3. units' = [units EXCEPT ![w] = units[w] \cup {g}]
    BY <1>3 DEF StartUnit
  <2> HIDE DEF g
  <2>4. RowStep
    BY <1>3 DEF StartUnit, RowStep, SameStep
  <2>5. units' \in [Workers -> SUBSET Units] /\ backlog' \in [Workers -> SUBSET Items]
    BY <1>3, <2>2, <2>3 DEF StartUnit, WorkerOK
  <2>6. UnitsOnlyWhileWorking'
    BY <1>3, <2>3 DEF StartUnit, WorkerOK, UnitsOnlyWhileWorking
  <2>7. RetryUnitsMayRetry'
    BY <1>3, <2>2, <2>3 DEF StartUnit, WorkerOK, RetryUnitsMayRetry, CanRetry
  <2> QED BY <1>3, <2>4, <2>5, <2>6, <2>7 DEF StartUnit, WorkerOK, jobVars
<1>4. ASSUME NEW w \in Workers, Abort(w) \/ Crash(w)
      PROVE  RowStep /\ WorkerOK'
  <2>1. RowStep
    BY <1>4 DEF Abort, Crash, RowStep, SameStep
  <2>2. /\ phase' \in [Workers -> Phases]
        /\ backlog' \in [Workers -> SUBSET Items]
        /\ units' \in [Workers -> SUBSET Units]
        /\ faults' \in Nat
    <3>1. PICK p \in Phases : Forget(w, p)
      BY <1>4 DEF Abort, Crash, Phases
    <3>2. faults' \in Nat
      BY <1>2, <1>4 DEF Abort, Crash, Fault
    <3>3. phase' \in [Workers -> Phases]
      BY <3>1 DEF Forget, GoTo, WorkerOK
    <3>4. backlog' \in [Workers -> SUBSET Items] /\ units' \in [Workers -> SUBSET Units]
      BY <3>1 DEF Forget, WorkerOK
    <3> QED BY <3>2, <3>3, <3>4
  <2>3. UnitsOnlyWhileWorking'
    BY <1>4 DEF Abort, Crash, Forget, GoTo, WorkerOK, UnitsOnlyWhileWorking
  <2>4. RetryUnitsMayRetry'
    BY <1>4 DEF Abort, Crash, Forget, WorkerOK, RetryUnitsMayRetry, CanRetry
  <2> QED BY <1>4, <2>1, <2>2, <2>3, <2>4 DEF Abort, Crash, WorkerOK, jobVars
<1>5. ASSUME NEW w \in Workers, NEW i \in Items, HeartbeatRenew(w, i)
      PROVE  RowStep /\ WorkerOK'
  <2>1. LeaseStep
    BY <1>5 DEF HeartbeatRenew, LeaseStep, Owned, RowOK, Lease
  <2> QED BY <1>1, <1>2, <1>5, <2>1 DEF HeartbeatRenew, RowStep
<1>6. ASSUME NEW i \in Items, LeaseElapses(i) \/ LeaseStalls(i)
      PROVE  RowStep /\ WorkerOK'
  <2>1. status[i] \in Open
    BY <1>6 DEF LeaseElapses, LeaseStalls, RowOK, LeaseBookkeeping, ItemStatus, Open,
       Terminal
  <2>2. LeaseStep
    BY <1>6, <2>1 DEF LeaseElapses, LeaseStalls, LeaseStep, RowOK, Lease, Open
  <2>3. faults' \in Nat
    BY <1>2, <1>6 DEF LeaseElapses, LeaseStalls, Fault
  <2> QED BY <1>1, <1>6, <2>2, <2>3 DEF LeaseElapses, LeaseStalls, RowStep
<1>7. ASSUME NEW S \in SUBSET Items, RequeueStale(S)
      PROVE  RowStep /\ WorkerOK'
  <2>1. Outcome(S, "pending", "none")
    BY <1>7 DEF RequeueStale, Stale, Outcome
  <2>2. SettleStep
    BY <1>7, <2>1 DEF RequeueStale, SettleStep, ItemStatus, Open, Lease
  <2> QED BY <1>1, <1>2, <1>7, <2>2 DEF RequeueStale, RowStep
<1>8. ASSUME OperatorFail
      PROVE  RowStep /\ WorkerOK'
  <2> DEFINE S == {i \in Items : status[i] \in Open}
  <2>1. S \in SUBSET Items /\ Outcome(S, "failed", "none")
    BY DEF Outcome
  <2>2. SettleStep
    BY <1>8, <2>1 DEF OperatorFail, SettleStep, ItemStatus, Terminal, Lease
  <2> QED BY <1>1, <1>2, <1>8, <2>2 DEF OperatorFail, RowStep
<1>9. ASSUME RequestCancel \/ DeadlineNears
      PROVE  RowStep /\ WorkerOK'
  <2>1. RowStep
    BY <1>9 DEF RequestCancel, DeadlineNears, RowStep, SameStep
  <2>2. WorkerOK'
    BY <1>9 DEF RequestCancel, DeadlineNears, WorkerOK, workerVars, UnitsOnlyWhileWorking,
       RetryUnitsMayRetry, CanRetry
  <2> QED BY <2>1, <2>2
<1>10. CASE Environment
  BY <1>6, <1>7, <1>8, <1>9, <1>10 DEF Environment
<1> QED BY <1>3, <1>4, <1>5, <1>10

-----------------------------------------------------------------------------
\* The two halves of the invariant are the inductive invariant of BatchItems.
LEMMA IndInvSplit == IndInv <=> RowOK /\ WorkerOK
BY DEF IndInv, TypeOK, RowOK, WorkerOK

\* The initial states satisfy it.
LEMMA InitEstablishes == Init => IndInv
<1> SUFFICES ASSUME Init PROVE RowOK /\ WorkerOK
  BY IndInvSplit
<1>1. RowOK
  BY ConstantsAssumption DEF Init, RowOK, LeaseBookkeeping, BilledExactlyCompleted,
     LastClaimWins, RetriesWithinBudget, ItemStatus, Open, Terminal, Lease
<1>2. WorkerOK
  BY DEF Init, WorkerOK, Phases, UnitsOnlyWhileWorking, RetryUnitsMayRetry
<1> QED BY <1>1, <1>2

\* Every step is a row step and keeps the worker half.
LEMMA NextIsRowStep ==
  ASSUME IndInv, Next
  PROVE  RowStep /\ WorkerOK'
<1> USE IndInvSplit
<1>1. ASSUME NEW w \in Workers, SliceStep(w)
      PROVE  RowStep /\ WorkerOK'
  <2>1. ASSUME NEW S \in SUBSET Items, ClaimWork(w, S) \/ ClaimItems(w, S)
        PROVE  RowStep /\ WorkerOK'
    BY <2>1, ClaimSteps
  <2>2. ASSUME ClaimJob(w) \/ ClaimNothing(w) \/ GetJob(w) \/ LoadClaimItems(w)
        PROVE  RowStep /\ WorkerOK'
    BY <2>2, ClaimSteps
  <2>3. ASSUME CancelRelease(w) \/ CancelPending(w) \/ FinishSlice(w) \/ ReleaseClaim(w)
        PROVE  RowStep /\ WorkerOK'
    BY <2>3, ReleaseSteps
  <2>4. ASSUME \E G \in SUBSET backlog[w] : StartUnit(w, G)
        PROVE  RowStep /\ WorkerOK'
    BY <2>4, OtherSteps
  <2> QED BY <1>1, <2>1, <2>2, <2>3, <2>4 DEF SliceStep
<1>2. ASSUME NEW w \in Workers, NEW u \in units[w], UnitStep(w, u)
      PROVE  RowStep /\ WorkerOK'
  <2>1. ASSUME HeartbeatLost(w, u)
        PROVE  RowStep /\ WorkerOK'
    <3>1. {} \in SUBSET u.items /\ TRUE \in BOOLEAN
      OBVIOUS
    <3> QED BY <2>1, <3>1, QuietUnitSteps
  <2>2. ASSUME NEW F \in SUBSET u.items, NEW r \in BOOLEAN, ProviderAnswers(w, u, F, r)
        PROVE  RowStep /\ WorkerOK'
    BY <2>2, QuietUnitSteps
  <2>3. ASSUME NEW r \in BOOLEAN, ProviderFails(w, u, r)
        PROVE  RowStep /\ WorkerOK'
    <3>1. {} \in SUBSET u.items
      OBVIOUS
    <3> QED BY <2>3, <3>1, QuietUnitSteps
  <2>4. ASSUME MarkRetry(w, u) \/ MarkFailed(w, u) \/ RequeueUnit(w, u)
        PROVE  RowStep /\ WorkerOK'
    BY <2>4, SettlingUnitSteps
  <2>5. ASSUME NEW R \in SUBSET u.items, ConfirmLost(w, u, R)
        PROVE  RowStep /\ WorkerOK'
    <3>1. TRUE \in BOOLEAN
      OBVIOUS
    <3> QED BY <2>5, <3>1, PersistingUnitSteps
  <2>6. ASSUME ConfirmLease(w, u) \/ Persist(w, u)
        PROVE  RowStep /\ WorkerOK'
    <3>1. {} \in SUBSET u.items /\ TRUE \in BOOLEAN
      OBVIOUS
    <3> QED BY <2>6, <3>1, PersistingUnitSteps
  <2> QED BY <1>2, <2>1, <2>2, <2>3, <2>4, <2>5, <2>6 DEF UnitStep
<1>3. ASSUME NEW w \in Workers, WorkerFault(w)
      PROVE  RowStep /\ WorkerOK'
  <2>1. ASSUME NEW u \in units[w], NEW c \in BOOLEAN, PersistRaises(w, u, c)
        PROVE  RowStep /\ WorkerOK'
    <3>1. {} \in SUBSET u.items
      OBVIOUS
    <3> QED BY <2>1, <3>1, PersistingUnitSteps
  <2>2. ASSUME Abort(w) \/ Crash(w)
        PROVE  RowStep /\ WorkerOK'
    BY <2>2, OtherSteps
  <2> QED BY <1>3, <2>1, <2>2 DEF WorkerFault
<1>4. ASSUME NEW w \in Workers, NEW i \in Items, HeartbeatRenew(w, i)
      PROVE  RowStep /\ WorkerOK'
  BY <1>4, OtherSteps
<1>5. ASSUME Environment
      PROVE  RowStep /\ WorkerOK'
  BY <1>5, OtherSteps
<1> QED BY <1>1, <1>2, <1>3, <1>4, <1>5 DEF Next, WorkerStep

\* The invariant is inductive.
LEMMA StepPreserves == IndInv /\ [Next]_vars => IndInv'
<1> SUFFICES ASSUME IndInv, [Next]_vars PROVE IndInv'
  OBVIOUS
<1> USE IndInvSplit
<1>1. CASE Next
  <2>1. RowStep /\ WorkerOK'
    BY <1>1, NextIsRowStep
  <2>2. \A w \in Workers : known[w] \in [Items -> Nat]
    BY DEF WorkerOK
  <2>3. RowOK'
    BY <2>1, <2>2, RowStepKeepsRowOK
  <2> QED BY <2>1, <2>3 DEF IndInv, TypeOK, RowOK, WorkerOK
<1>2. CASE UNCHANGED vars
  BY <1>2 DEF vars, rowVars, jobVars, workerVars, IndInv, TypeOK, LeaseBookkeeping,
     BilledExactlyCompleted, LastClaimWins, RetriesWithinBudget, UnitsOnlyWhileWorking,
     RetryUnitsMayRetry, CanRetry
<1> QED BY <1>1, <1>2

\* The inductive invariant holds in every behaviour of the claim, lease and
\* persistence statements of item_repository and of the workers that call them.
THEOREM Invariance == Spec => []IndInv
BY InitEstablishes, StepPreserves, PTL DEF Spec

\* Every variable keeps its type: no statement writes a status or a lock holder
\* the columns of deltallm_batch_item do not know.
THEOREM TypeSafe == Spec => []TypeOK
<1>1. IndInv => TypeOK
  BY DEF IndInv
<1> QED BY <1>1, Invariance, PTL

\* A row names a lock holder exactly while it is in progress and then has a
\* lease, so the reclaim conditions of claim_items and the sweeper reach it.
THEOREM BookkeepingSafe == Spec => []LeaseBookkeeping
<1>1. IndInv => LeaseBookkeeping
  BY DEF IndInv
<1> QED BY <1>1, Invariance, PTL

\* Exactly the completed items are billed, for the attempt whose response is
\* stored (complete_items_with_outbox_bulk).
THEOREM BillingSafe == Spec => []BilledExactlyCompleted
<1>1. IndInv => BilledExactlyCompleted
  BY DEF IndInv
<1> QED BY <1>1, Invariance, PTL

\* No superseded claim ever stores its response (the claim_epoch fence of
\* mark_items_completed_bulk).
THEOREM FencingSafe == Spec => []LastClaimWins
<1>1. IndInv => LastClaimWins
  BY DEF IndInv
<1> QED BY <1>1, Invariance, PTL

\* The attempt budget bounds delayed retries (_can_retry_item).
THEOREM BudgetSafe == Spec => []RetriesWithinBudget
<1>1. IndInv => RetriesWithinBudget
  BY DEF IndInv
<1> QED BY <1>1, Invariance, PTL

-----------------------------------------------------------------------------
(* Action properties.                                                      *)

\* What a row step never does to a terminal row, nor to a row under a running
\* lease.
LEMMA RowStepKeepsRows ==
  ASSUME RowOK, RowStep, NEW i \in Items
  PROVE  /\ status[i] \in Terminal => status'[i] = status[i]
         /\ status[i] = "in_progress" /\ lease[i] = "live" =>
              lockedBy'[i] \in {lockedBy[i], NoWorker} /\ epoch'[i] = epoch[i]
<1> USE DEF Open, Terminal, RowOK
<1>1. CASE SameStep \/ LeaseStep
  BY <1>1 DEF SameStep, LeaseStep, rowVars
<1>2. CASE TakeStep
  BY <1>2 DEF TakeStep, Runnable, Set
<1>3. CASE SettleStep
  BY <1>3 DEF SettleStep, Settle, Set, Outcome
<1>4. CASE CompleteStep
  <2> PICK w \in Workers, S \in SUBSET Items :
        /\ \A j \in S : Owned(w, j) /\ outbox[j] = NoClaim
        /\ CompleteRows(w, S)
    BY <1>4 DEF CompleteStep
  <2> QED BY DEF CompleteRows, Settle, Set, Owned
<1> QED BY <1>1, <1>2, <1>3, <1>4 DEF RowStep

\* A terminal item keeps its status for ever: every UPDATE of item_repository
\* and maintenance_repository has the status condition it needs.
THEOREM TerminalSafe == Spec => TerminalIsFinal
<1>1. IndInv /\ [Next]_vars =>
        [\A i \in Items : status[i] \in Terminal => status'[i] = status[i]]_vars
  BY NextIsRowStep, IndInvSplit, RowStepKeepsRows
<1> QED BY <1>1, Invariance, PTL DEF Spec, TerminalIsFinal

\* Nobody claims an item whose lease runs (claim_items, claim_next_work).
THEOREM LeaseSafe == Spec => ExclusiveWhileLeased
<1>1. IndInv /\ [Next]_vars =>
        [\A i \in Items :
           status[i] = "in_progress" /\ lease[i] = "live" =>
             /\ lockedBy'[i] \in {lockedBy[i], NoWorker}
             /\ epoch'[i] = epoch[i]]_vars
  BY NextIsRowStep, IndInvSplit, RowStepKeepsRows
<1> QED BY <1>1, Invariance, PTL DEF Spec, ExclusiveWhileLeased

-----------------------------------------------------------------------------
(* Refinement.                                                             *)

billedItems == {i \in Items : outbox[i] # NoClaim}

\* A row step is a step of the life cycle, or changes nothing there.
LEMMA RowStepIsLifecycleStep ==
  ASSUME RowOK, RowStep, \A w \in Workers : known[w] \in [Items -> Nat]
  PROVE  Lifecycle!Next \/ UNCHANGED <<status, billedItems>>
<1> USE DEF Open, Lifecycle!Open, billedItems
<1>1. CASE SameStep \/ LeaseStep
  BY <1>1 DEF SameStep, LeaseStep, rowVars
<1>2. CASE TakeStep
  <2> PICK w \in Workers, S \in SUBSET Items :
        /\ \A i \in S : Runnable(i)
        /\ status' = Set(status, S, "in_progress")
        /\ UNCHANGED <<response, outbox>>
    BY <1>2 DEF TakeStep
  <2>1. Lifecycle!Begin(S)
    BY DEF Lifecycle!Begin, Lifecycle!Become, Runnable, Set
  <2> QED BY <2>1 DEF Lifecycle!Next
<1>3. CASE SettleStep
  <2> PICK S \in SUBSET Items, to \in ItemStatus, newLease \in Lease :
        /\ Outcome(S, to, newLease)
        /\ Settle(S, to, newLease)
        /\ UNCHANGED <<response, outbox>>
    BY <1>3 DEF SettleStep
  <2>1. Lifecycle!Fail(S) \/ Lifecycle!Cancel(S) \/ Lifecycle!Requeue(S)
    BY DEF Lifecycle!Fail, Lifecycle!Cancel, Lifecycle!Requeue, Lifecycle!Become, Settle,
       Set, Outcome
  <2> QED BY <2>1 DEF Lifecycle!Next
<1>4. CASE CompleteStep
  <2> PICK w \in Workers, S \in SUBSET Items :
        /\ \A i \in S : Owned(w, i) /\ outbox[i] = NoClaim
        /\ CompleteRows(w, S)
    BY <1>4 DEF CompleteStep
  <2>1. Lifecycle!Become(S, {"in_progress"}, "completed")
    BY DEF CompleteRows, Settle, Set, Owned, Lifecycle!Become
  <2>2. \A i \in Items : outbox'[i] = IF i \in S THEN [worker |-> w, epoch |-> known[w][i]]
                                                  ELSE outbox[i]
    BY DEF CompleteRows
  <2>3. \A i \in Items : [worker |-> w, epoch |-> known[w][i]] # NoClaim
    BY ConstantsAssumption DEF NoClaim
  <2>4. billedItems' = billedItems \cup S
    BY <2>2, <2>3
  <2>5. Lifecycle!Complete(S)
    BY <2>1, <2>4 DEF Lifecycle!Complete
  <2> QED BY <2>5 DEF Lifecycle!Next
<1> QED BY <1>1, <1>2, <1>3, <1>4 DEF RowStep

\* The batch item protocol implements the item life cycle.
THEOREM Refinement == Spec => RefinesLifecycle
<1>1. Init => Lifecycle!Init
  BY DEF Init, Lifecycle!Init
<1>2. IndInv /\ [Next]_vars => [Lifecycle!Next]_(Lifecycle!lifecycleVars)
  <2> SUFFICES ASSUME IndInv, [Next]_vars
               PROVE  Lifecycle!Next \/ UNCHANGED <<status, billedItems>>
    BY DEF Lifecycle!lifecycleVars, billedItems
  <2>1. CASE Next
    <3>1. RowStep /\ RowOK /\ \A w \in Workers : known[w] \in [Items -> Nat]
      BY <2>1, NextIsRowStep, IndInvSplit DEF WorkerOK
    <3> QED BY <3>1, RowStepIsLifecycleStep
  <2>2. CASE UNCHANGED vars
    BY <2>2 DEF vars, rowVars, billedItems
  <2> QED BY <2>1, <2>2
<1> QED BY <1>1, <1>2, Invariance, PTL DEF Spec, RefinesLifecycle, Lifecycle!Spec
=============================================================================
