------------------------------ MODULE BatchJob ------------------------------
(***************************************************************************)
(* One batch job from its creation to its output and error files: the      *)
(* progress counters, the finalizing status, the job lease, the assembly   *)
(* of the artifacts, and the repairs an operator may apply meanwhile.      *)
(*                                                                         *)
(* What happens inside an item's execution is the subject of BatchItems;   *)
(* here an item a worker has claimed completes, fails, is retried or is    *)
(* dropped.  A statement is one step, except the refresh of the counters:  *)
(* its statistics come from the snapshot the statement starts with, while  *)
(* its UPDATE applies to the job row as it is once its lock is obtained    *)
(* (READ COMMITTED), so other transactions commit in between.              *)
(***************************************************************************)
EXTENDS Naturals, FiniteSets

CONSTANTS
  Items, Workers,
  NoWorker,       \* SQL NULL in locked_by, output_file_id, error_file_id
  Admin,          \* the operator's repair endpoints
  Sweeper,        \* the stale-lease sweeper
  SliceWorkers,   \* the workers in claim mode work_slice; the others are in
                  \* job_fifo (each process applies the setting by itself)
  RefreshRaces,   \* whether other steps fall between snapshot and update
  AckLoss,        \* whether the answer of a committed attach may be lost
  MaxRepairs,     \* bound of the model: operator interventions
  MaxFaults       \* bound of the model: retries, errors, stalls, crashes

Actors == Workers \cup {Admin, Sweeper}

ASSUME ConstantsAssumption ==
  /\ NoWorker \notin Workers /\ Admin \notin Workers /\ Sweeper \notin Workers
  /\ Admin # Sweeper
  /\ SliceWorkers \subseteq Workers
  /\ RefreshRaces \in BOOLEAN /\ AckLoss \in BOOLEAN
  /\ MaxRepairs \in Nat /\ MaxFaults \in Nat

VARIABLES
  status, lockedBy,  \* columns of the item rows
  lapsed,            \* the items whose lease has run out
  job,               \* the row of deltallm_batch_job
  artifact,          \* the output and error file each worker has written
  phase,             \* where each process is
  todo,              \* items a worker still works on
  rec,               \* the job record a worker finalizes from
  snap,              \* the item statuses a refresh has read
  overtaken,         \* history: a refresh wrote counts that were out of date
  repairs, faults

itemVars == <<status, lockedBy, lapsed>>
vars == <<itemVars, job, artifact, phase, todo, rec, snap, overtaken, repairs, faults>>

Open         == {"pending", "in_progress"}
Terminal     == {"completed", "failed", "cancelled"}
ItemStatus   == Open \cup Terminal
JobOpen      == {"queued", "in_progress", "finalizing"}
JobTerminal  == {"completed", "failed", "cancelled"}
Lease        == {"none", "live", "expired"}
Phases == {"idle", "dead", "claimed", "cancel", "cancel_pending", "claim",
           "working", "item_refresh", "item_apply", "release", "unwind",
           "refresh", "apply", "fin_claim", "finalize", "attach", "give_up",
           "cleanup", "reschedule", "release_job",
           "mf_fail", "mf_error", "mf_refresh", "mf_apply", "mf_retry",
           "repair_refresh", "repair_apply"}

\* completed, failed and cancelled stand for the three counters: they are the
\* sets of items that were counted.  opfail: provider_error holds an
\* operator-failed reason.
Jobs == [status : JobOpen \cup JobTerminal, lockedBy : Workers \cup {NoWorker},
         lease : Lease, cancel : BOOLEAN, opfail : BOOLEAN,
         completed : SUBSET Items, failed : SUBSET Items, cancelled : SUBSET Items,
         output : Workers \cup {NoWorker}, error : Workers \cup {NoWorker}]

\* A stored file with its lines; a worker's file is named by the worker.
Files  == [exists : BOOLEAN, lines : SUBSET Items]
NoFile == [exists |-> FALSE, lines |-> {}]
NoArtifacts == [output |-> NoFile, error |-> NoFile]

Set(f, S, v) == [i \in Items |-> IF i \in S THEN v ELSE f[i]]
With(s)      == {i \in Items : status[i] \in s}

NewJob ==
  [status |-> "queued", lockedBy |-> NoWorker, lease |-> "none", cancel |-> FALSE,
   opfail |-> FALSE, completed |-> {}, failed |-> {}, cancelled |-> {},
   output |-> NoWorker, error |-> NoWorker]

NoSnap == [i \in Items |-> "pending"]

TypeOK ==
  /\ status \in [Items -> ItemStatus]
  /\ lockedBy \in [Items -> Workers \cup {NoWorker}]
  /\ lapsed \in SUBSET Items
  /\ job \in Jobs
  /\ artifact \in [Workers -> [output : Files, error : Files]]
  /\ phase \in [Actors -> Phases]
  /\ todo \in [Workers -> SUBSET Items]
  /\ rec \in [Workers -> Jobs]
  /\ snap \in [Actors -> [Items -> ItemStatus]]
  /\ overtaken \in BOOLEAN
  /\ repairs \in Nat /\ faults \in Nat

Init ==
  /\ status = [i \in Items |-> "pending"]
  /\ lockedBy = [i \in Items |-> NoWorker]
  /\ lapsed = {}
  /\ job = NewJob
  /\ artifact = [w \in Workers |-> NoArtifacts]
  /\ phase = [a \in Actors |-> "idle"]
  /\ todo = [w \in Workers |-> {}]
  /\ rec = [w \in Workers |-> NewJob]
  /\ snap = [a \in Actors |-> NoSnap]
  /\ overtaken = FALSE
  /\ repairs = 0 /\ faults = 0

Fault  == faults < MaxFaults /\ faults' = faults + 1
Repair == repairs < MaxRepairs /\ repairs' = repairs + 1
GoTo(a, p) == phase' = [phase EXCEPT ![a] = p]

-----------------------------------------------------------------------------
(* Item rows.                                                              *)

Runnable(i) == status[i] = "pending" \/ (status[i] = "in_progress" /\ i \in lapsed)

\* The rows in S get a new status; only in_progress keeps a lock holder.
Rows(S, to, holder) ==
  /\ status' = Set(status, S, to)
  /\ lockedBy' = Set(lockedBy, S, holder)
  /\ lapsed' = lapsed \ S

Holds(w) == {i \in Items : status[i] = "in_progress" /\ lockedBy[i] = w}

TakeItems(w, S) ==
  /\ S # {} /\ \A i \in S : Runnable(i)
  /\ Rows(S, "in_progress", w)
  /\ todo' = [todo EXCEPT ![w] = S]

-----------------------------------------------------------------------------
(* Claiming.                                                               *)

JobLeaseFree == job.lease # "live"

\* _claim_next_work_with_client: one statement takes a slice and unlocks the job.
ClaimSlice(w, S) ==
  /\ w \in SliceWorkers /\ phase[w] = "idle"
  /\ job.status \in {"queued", "in_progress"}
  /\ job.lockedBy = NoWorker \/ JobLeaseFree
  /\ TakeItems(w, S)
  /\ job' = [job EXCEPT !.status = "in_progress", !.lockedBy = NoWorker, !.lease = "none"]
  /\ GoTo(w, "claimed")
  /\ UNCHANGED <<artifact, rec, snap, overtaken, repairs, faults>>

\* get_job; the cancel request is seen here or not at all.
GetJob(w) ==
  /\ phase[w] = "claimed"
  /\ GoTo(w, IF job.cancel THEN "cancel" ELSE "working")
  /\ UNCHANGED <<itemVars, job, artifact, todo, rec, snap, overtaken, repairs, faults>>

CancelRelease(w) ==
  /\ phase[w] = "cancel"
  /\ Rows(Holds(w), "pending", NoWorker)
  /\ todo' = [todo EXCEPT ![w] = {}]
  /\ GoTo(w, "cancel_pending")
  /\ UNCHANGED <<job, artifact, rec, snap, overtaken, repairs, faults>>

CancelPending(w) ==
  /\ phase[w] = "cancel_pending"
  /\ Rows(With({"pending"}), "cancelled", NoWorker)
  /\ GoTo(w, IF w \in SliceWorkers THEN "refresh" ELSE "claim")
  /\ UNCHANGED <<job, artifact, todo, rec, snap, overtaken, repairs, faults>>

\* Faulty variant: a job whose finalizer died is not claimed again.
ClaimJobNotFinalizing(w) ==
  /\ w \notin SliceWorkers /\ phase[w] = "idle"
  /\ job.status \in {"queued", "in_progress"} /\ JobLeaseFree
  /\ job' = [job EXCEPT !.status = "in_progress", !.lockedBy = w, !.lease = "live"]
  /\ GoTo(w, IF job.cancel THEN "cancel_pending" ELSE "claim")
  /\ UNCHANGED <<itemVars, artifact, todo, rec, snap, overtaken, repairs, faults>>

\* claim_next_job.
ClaimJob(w) ==
  /\ w \notin SliceWorkers /\ phase[w] = "idle"
  /\ job.status \in JobOpen /\ JobLeaseFree
  /\ job' = [job EXCEPT !.status = IF @ = "queued" THEN "in_progress" ELSE @,
                        !.lockedBy = w, !.lease = "live"]
  /\ rec' = IF job.status = "finalizing" THEN [rec EXCEPT ![w] = job'] ELSE rec
  /\ GoTo(w, IF job.status = "finalizing" THEN "finalize"
             ELSE IF job.cancel THEN "cancel_pending" ELSE "claim")
  /\ UNCHANGED <<itemVars, artifact, todo, snap, overtaken, repairs, faults>>

ClaimItems(w, S) ==
  /\ phase[w] = "claim"
  /\ TakeItems(w, S)
  /\ GoTo(w, "working")
  /\ UNCHANGED <<job, artifact, rec, snap, overtaken, repairs, faults>>

ClaimNothing(w) ==
  /\ phase[w] = "claim"
  /\ \A i \in Items : ~ Runnable(i)
  /\ GoTo(w, "refresh")
  /\ UNCHANGED <<itemVars, job, artifact, todo, rec, snap, overtaken, repairs, faults>>

\* claim_next_finalization, tried before a slice or when there is none, and
\* after a refresh that made the job ready.
ClaimFinalization(w) ==
  /\ w \in SliceWorkers /\ phase[w] \in {"idle", "fin_claim"}
  /\ job.status = "finalizing" /\ JobLeaseFree
  /\ job' = [job EXCEPT !.lockedBy = w, !.lease = "live"]
  /\ rec' = [rec EXCEPT ![w] = job']
  /\ GoTo(w, "finalize")
  /\ UNCHANGED <<itemVars, artifact, todo, snap, overtaken, repairs, faults>>

NothingToFinalize(w) ==
  /\ phase[w] = "fin_claim"
  /\ ~ (job.status = "finalizing" /\ JobLeaseFree)
  /\ GoTo(w, "idle")
  /\ UNCHANGED <<itemVars, job, artifact, todo, rec, snap, overtaken, repairs, faults>>

-----------------------------------------------------------------------------
(* Working on the claimed items.  Each outcome is fenced by the lock.      *)

Settle(w, i, to) ==
  /\ phase[w] = "working" /\ i \in todo[w]
  /\ todo' = [todo EXCEPT ![w] = @ \ {i}]
  /\ Rows({i} \cap Holds(w), to, NoWorker)
  /\ UNCHANGED <<job, artifact, rec, snap, overtaken, repairs>>

ItemCompletes(w, i) == Settle(w, i, "completed") /\ UNCHANGED <<phase, faults>>

\* A failure or a retry that was written is followed by a refresh of the job.
ItemFails(w, i) ==
  /\ Settle(w, i, "failed")
  /\ GoTo(w, IF i \in Holds(w) THEN "item_refresh" ELSE "working")
  /\ UNCHANGED faults

ItemRetries(w, i) ==
  /\ Fault
  /\ Settle(w, i, "pending")
  /\ GoTo(w, IF i \in Holds(w) THEN "item_refresh" ELSE "working")

\* A lost lease or an outcome that could not be persisted.
ItemDropped(w, i) ==
  /\ phase[w] = "working" /\ i \in todo[w]
  /\ Fault
  /\ todo' = [todo EXCEPT ![w] = @ \ {i}]
  /\ UNCHANGED <<itemVars, job, artifact, phase, rec, snap, overtaken, repairs>>

ItemsDone(w) ==
  /\ phase[w] = "working" /\ todo[w] = {}
  /\ GoTo(w, IF w \in SliceWorkers THEN "release" ELSE "refresh")
  /\ UNCHANGED <<itemVars, job, artifact, todo, rec, snap, overtaken, repairs, faults>>

\* The finally block of _process_once_work_slice; an exception that unwinds
\* through it never reaches the refresh.
ReleaseClaim(w) ==
  /\ phase[w] \in {"release", "unwind"}
  /\ Rows(Holds(w), "pending", NoWorker)
  /\ todo' = [todo EXCEPT ![w] = {}]
  /\ GoTo(w, IF phase[w] = "release" THEN "refresh" ELSE "idle")
  /\ UNCHANGED <<job, artifact, rec, snap, overtaken, repairs, faults>>

-----------------------------------------------------------------------------
(* refresh_job_progress and _refresh_job_progress_for_batches.             *)

\* Faulty variants: items in progress do not keep the job open; a terminal job
\* is reopened.
RefreshedIgnoringInProgress(s) ==
  [job EXCEPT
     !.completed = {i \in Items : s[i] = "completed"},
     !.failed = {i \in Items : s[i] = "failed"},
     !.cancelled = {i \in Items : s[i] = "cancelled"},
     !.status = IF @ \in JobTerminal THEN @
                ELSE IF \E i \in Items : s[i] = "pending" THEN "in_progress"
                ELSE "finalizing"]
RefreshedReopening(s) ==
  [job EXCEPT
     !.completed = {i \in Items : s[i] = "completed"},
     !.failed = {i \in Items : s[i] = "failed"},
     !.cancelled = {i \in Items : s[i] = "cancelled"},
     !.status = IF \E i \in Items : s[i] \in Open THEN "in_progress" ELSE "finalizing"]
\* The job row after a refresh from the statistics s.
Refreshed(s) ==
  LET in(S) == {i \in Items : s[i] \in S}
  IN [job EXCEPT
        !.completed = in({"completed"}), !.failed = in({"failed"}),
        !.cancelled = in({"cancelled"}),
        !.status = IF @ \in JobTerminal THEN @
                   ELSE IF in(Open) = {} THEN "finalizing"
                   ELSE IF in(ItemStatus \ {"pending"}) # {} THEN "in_progress"
                   ELSE @]

RefreshPhases == {"refresh", "item_refresh", "mf_refresh", "repair_refresh"}
ApplyPhase(p) ==
  CASE p = "refresh" -> "apply"       [] p = "item_refresh" -> "item_apply"
    [] p = "mf_refresh" -> "mf_apply" [] p = "repair_refresh" -> "repair_apply"

StatsRead(a) ==
  /\ phase[a] \in RefreshPhases
  /\ snap' = [snap EXCEPT ![a] = status]
  /\ GoTo(a, ApplyPhase(phase[a]))
  /\ UNCHANGED <<itemVars, job, artifact, todo, rec, overtaken, repairs, faults>>

\* What the caller of the refresh does with the returned record.
AfterRefresh(w, p, ready) ==
  CASE p = "item_apply" -> "working"
    [] p = "repair_apply" -> "idle"
    [] p = "mf_apply" -> IF ready THEN "mf_retry" ELSE "idle"
    [] p = "apply" -> IF w \in SliceWorkers
                      THEN IF ready THEN "fin_claim" ELSE "idle"
                      ELSE IF ready THEN "finalize" ELSE "release_job"

ApplyRefresh(a) ==
  /\ phase[a] \in {"apply", "item_apply", "mf_apply", "repair_apply"}
  /\ job' = Refreshed(IF RefreshRaces THEN snap[a] ELSE status)
  /\ LET next == AfterRefresh(a, phase[a], job'.status = "finalizing")
     IN /\ GoTo(a, next)
        /\ rec' = IF next = "finalize" THEN [rec EXCEPT ![a] = job'] ELSE rec
  /\ overtaken' = (overtaken \/ (RefreshRaces /\ snap[a] # status))
  /\ snap' = [snap EXCEPT ![a] = NoSnap]
  /\ UNCHANGED <<itemVars, artifact, todo, repairs, faults>>

-----------------------------------------------------------------------------
(* Finalization.                                                           *)

FinalStatus(r) ==
  IF r.cancel THEN "cancelled"
  ELSE IF r.opfail THEN "failed"
  ELSE IF r.completed = {} /\ r.failed # {} THEN "failed"
  ELSE "completed"

\* Faulty variant: the error file is written only if nothing completed.
WriteArtifactsEither(w) ==
  /\ phase[w] = "finalize"
  /\ LET file(wanted, S) ==
           IF wanted THEN [exists |-> TRUE, lines |-> S] ELSE NoFile
     IN artifact' = [artifact EXCEPT ![w] =
          [output |-> file(rec[w].completed # {}, With({"completed"})),
           error  |-> file(rec[w].completed = {}, With({"failed", "cancelled"}))]]
  /\ GoTo(w, "attach")
  /\ UNCHANGED <<itemVars, job, todo, rec, snap, overtaken, repairs, faults>>

\* Which files are written is decided by the counters of the record, what is
\* in them by the item rows.
WriteArtifacts(w) ==
  /\ phase[w] = "finalize"
  /\ LET file(wanted, S) ==
           IF wanted THEN [exists |-> TRUE, lines |-> S] ELSE NoFile
     IN artifact' = [artifact EXCEPT ![w] =
          [output |-> file(rec[w].completed # {}, With({"completed"})),
           error  |-> file(rec[w].failed # {} \/ rec[w].cancelled # {},
                           With({"failed", "cancelled"}))]]
  /\ GoTo(w, "attach")
  /\ UNCHANGED <<itemVars, job, todo, rec, snap, overtaken, repairs, faults>>

\* Storage or create_file fails, or a row cannot be serialized at all; what was
\* written so far is deleted.
WriteFails(w, validation) ==
  /\ phase[w] = "finalize"
  /\ Fault
  /\ GoTo(w, IF validation THEN "give_up" ELSE "reschedule")
  /\ UNCHANGED <<itemVars, job, artifact, todo, rec, snap, overtaken, repairs>>

MayFinalize(w) == job.lockedBy = w /\ job.status = "finalizing"

Finalized(to, output, error) ==
  [job EXCEPT !.status = to, !.output = output, !.error = error,
              !.lease = "none", !.lockedBy = NoWorker]

Attached(w) ==
  LET ref(f) == IF f.exists THEN w ELSE NoWorker
  IN Finalized(FinalStatus(rec[w]), ref(artifact[w].output), ref(artifact[w].error))

\* attach_artifacts_and_finalize.
Attach(w) ==
  /\ phase[w] = "attach"
  /\ job' = IF MayFinalize(w) THEN Attached(w) ELSE job
  /\ GoTo(w, IF MayFinalize(w) THEN "release_job" ELSE "cleanup")
  /\ UNCHANGED <<itemVars, artifact, todo, rec, snap, overtaken, repairs, faults>>

\* The statement raises, before or (AckLoss) after it took effect.
AttachRaises(w) ==
  /\ phase[w] = "attach"
  /\ Fault
  /\ \/ UNCHANGED job
     \/ AckLoss /\ MayFinalize(w) /\ job' = Attached(w)
  /\ GoTo(w, "cleanup")
  /\ UNCHANGED <<itemVars, artifact, todo, rec, snap, overtaken, repairs>>

\* _cleanup_unattached_artifacts; the job's file columns are foreign keys with
\* ON DELETE SET NULL.
Cleanup(w) ==
  /\ phase[w] = "cleanup"
  /\ artifact' = [artifact EXCEPT ![w] = NoArtifacts]
  /\ job' = [job EXCEPT !.output = IF @ = w THEN NoWorker ELSE @,
                        !.error = IF @ = w THEN NoWorker ELSE @]
  /\ GoTo(w, "reschedule")
  /\ UNCHANGED <<itemVars, todo, rec, snap, overtaken, repairs, faults>>

\* _persist_permanent_finalization_failure, which overwrites provider_error.
GiveUp(w) ==
  /\ phase[w] = "give_up"
  /\ job' = IF MayFinalize(w)
            THEN [Finalized("failed", NoWorker, NoWorker) EXCEPT !.opfail = FALSE] ELSE job
  /\ GoTo(w, IF MayFinalize(w) THEN "release_job" ELSE "reschedule")
  /\ UNCHANGED <<itemVars, artifact, todo, rec, snap, overtaken, repairs, faults>>

\* reschedule_finalization: the lease without a holder is the retry delay.
Reschedule(w) ==
  /\ phase[w] = "reschedule"
  /\ job' = IF MayFinalize(w) THEN [job EXCEPT !.lease = "live", !.lockedBy = NoWorker] ELSE job
  /\ GoTo(w, "release_job")
  /\ UNCHANGED <<itemVars, artifact, todo, rec, snap, overtaken, repairs, faults>>

ReleaseJobLease(w) ==
  /\ phase[w] = "release_job"
  /\ job' = IF job.lockedBy = w THEN [job EXCEPT !.lease = "none", !.lockedBy = NoWorker] ELSE job
  /\ rec' = [rec EXCEPT ![w] = NewJob]
  /\ GoTo(w, "idle")
  /\ UNCHANGED <<itemVars, artifact, todo, snap, overtaken, repairs, faults>>

-----------------------------------------------------------------------------
(* Failing processes and time.                                             *)

Finalizing == {"finalize", "attach", "cleanup", "give_up", "reschedule"}

\* An error nobody handles.  The finally blocks release the slice's items, or
\* the job lease; a failing slice skips the refresh.
Abort(w) ==
  /\ phase[w] \in Phases \ {"idle", "dead"}
  /\ Fault
  /\ GoTo(w, IF w \notin SliceWorkers \/ phase[w] \in Finalizing
             THEN IF phase[w] = "release_job" THEN "idle" ELSE "release_job"
             ELSE IF phase[w] \in {"claimed", "cancel", "cancel_pending", "working",
                                   "item_refresh", "item_apply"} THEN "unwind"
             ELSE "idle")
  /\ todo' = [todo EXCEPT ![w] = {}]
  /\ rec' = [rec EXCEPT ![w] = NewJob]
  /\ snap' = [snap EXCEPT ![w] = NoSnap]
  /\ UNCHANGED <<itemVars, job, artifact, overtaken, repairs>>

Crash(w) ==
  /\ phase[w] # "dead"
  /\ \E v \in Workers \ {w} : phase[v] # "dead"
  /\ Fault
  /\ GoTo(w, "dead")
  /\ todo' = [todo EXCEPT ![w] = {}]
  /\ rec' = [rec EXCEPT ![w] = NewJob]
  /\ snap' = [snap EXCEPT ![w] = NoSnap]
  /\ UNCHANGED <<itemVars, job, artifact, overtaken, repairs>>

\* Workers whose job heartbeat runs.
HeartbeatRuns(w) ==
  /\ phase[w] \notin {"idle", "dead", "release_job"}
  /\ w \notin SliceWorkers \/ phase[w] \in Finalizing

\* The lease of a live worker runs out only when its heartbeats fail.
JobLeaseElapses ==
  /\ job.lease = "live"
  /\ ~ \E w \in Workers : job.lockedBy = w /\ HeartbeatRuns(w)
  /\ job' = [job EXCEPT !.lease = "expired"]
  /\ UNCHANGED <<itemVars, artifact, phase, todo, rec, snap, overtaken, repairs, faults>>

JobLeaseStalls ==
  /\ job.lease = "live"
  /\ \E w \in Workers : job.lockedBy = w /\ HeartbeatRuns(w)
  /\ Fault
  /\ job' = [job EXCEPT !.lease = "expired"]
  /\ UNCHANGED <<itemVars, artifact, phase, todo, rec, snap, overtaken, repairs>>

JobHeartbeat(w) ==
  /\ HeartbeatRuns(w) /\ job.lockedBy = w /\ job.status \in {"in_progress", "finalizing"}
  /\ job.lease = "expired"
  /\ job' = [job EXCEPT !.lease = "live"]
  /\ UNCHANGED <<itemVars, artifact, phase, todo, rec, snap, overtaken, repairs, faults>>

BeingWorkedOn(i) == \E w \in Workers : lockedBy[i] = w /\ i \in todo[w]

ItemLeaseElapses(i) ==
  /\ status[i] = "in_progress" /\ i \notin lapsed /\ ~ BeingWorkedOn(i)
  /\ lapsed' = lapsed \cup {i}
  /\ UNCHANGED <<status, lockedBy, job, artifact, phase, todo, rec, snap, overtaken, repairs, faults>>

ItemLeaseStalls(i) ==
  /\ status[i] = "in_progress" /\ i \notin lapsed /\ BeingWorkedOn(i)
  /\ Fault
  /\ lapsed' = lapsed \cup {i}
  /\ UNCHANGED <<status, lockedBy, job, artifact, phase, todo, rec, snap, overtaken, repairs>>

-----------------------------------------------------------------------------
(* The sweeper, the user and the operator.                                 *)

\* The sweeper requeues expired items and then refreshes the jobs it touched.
SweepItems(S) ==
  /\ phase[Sweeper] = "idle" /\ job.status \in JobOpen
  /\ S # {} /\ S \subseteq lapsed
  /\ Rows(S, "pending", NoWorker)
  /\ GoTo(Sweeper, "repair_refresh")
  /\ UNCHANGED <<job, artifact, todo, rec, snap, overtaken, repairs, faults>>

SweepJobLease ==
  /\ job.status \in JobOpen /\ job.lockedBy # NoWorker /\ job.lease = "expired"
  /\ job' = [job EXCEPT !.lockedBy = NoWorker, !.lease = "none"]
  /\ UNCHANGED <<itemVars, artifact, phase, todo, rec, snap, overtaken, repairs, faults>>

\* request_cancel of the public API, and the admin endpoint that sets the flag
\* only; neither is refused once the job is terminal (the admin endpoint looks
\* at the status before its update).
RequestCancel(public) ==
  /\ Repair
  /\ job' = [job EXCEPT !.cancel = TRUE,
                        !.status = IF public /\ @ = "queued" THEN "in_progress" ELSE @]
  /\ UNCHANGED <<itemVars, artifact, phase, todo, rec, snap, overtaken, faults>>

RetryFinalization ==
  /\ Repair
  /\ job.status = "finalizing"
  /\ job' = [job EXCEPT !.lockedBy = NoWorker, !.lease = "none"]
  /\ UNCHANGED <<itemVars, artifact, phase, todo, rec, snap, overtaken, faults>>

RequeueStale ==
  /\ phase[Admin] = "idle" /\ Repair
  /\ Rows(lapsed, "pending", NoWorker)
  /\ GoTo(Admin, "repair_refresh")
  /\ UNCHANGED <<job, artifact, todo, rec, snap, overtaken, faults>>

\* mark-failed: the status check, then four statements.
MarkFailed ==
  /\ phase[Admin] = "idle" /\ Repair
  /\ job.status \in JobOpen
  /\ GoTo(Admin, "mf_fail")
  /\ UNCHANGED <<itemVars, job, artifact, todo, rec, snap, overtaken, faults>>

\* Faulty variant: the statement lost its status condition.
FailAllItems ==
  /\ phase[Admin] = "mf_fail"
  /\ Rows(Items, "failed", NoWorker)
  /\ GoTo(Admin, "mf_error")
  /\ UNCHANGED <<job, artifact, todo, rec, snap, overtaken, repairs, faults>>

FailNonterminalItems ==
  /\ phase[Admin] = "mf_fail"
  /\ Rows(With(Open), "failed", NoWorker)
  /\ GoTo(Admin, "mf_error")
  /\ UNCHANGED <<job, artifact, todo, rec, snap, overtaken, repairs, faults>>

SetOperatorError ==
  /\ phase[Admin] = "mf_error"
  /\ job' = [job EXCEPT !.opfail = TRUE]
  /\ GoTo(Admin, "mf_refresh")
  /\ UNCHANGED <<itemVars, artifact, todo, rec, snap, overtaken, repairs, faults>>

RetryFinalizationNow ==
  /\ phase[Admin] = "mf_retry"
  /\ job' = IF job.status = "finalizing"
            THEN [job EXCEPT !.lockedBy = NoWorker, !.lease = "none"] ELSE job
  /\ GoTo(Admin, "idle")
  /\ UNCHANGED <<itemVars, artifact, todo, rec, snap, overtaken, repairs, faults>>

-----------------------------------------------------------------------------
ClaimStep(w) ==
  \/ \E S \in SUBSET Items : ClaimSlice(w, S) \/ ClaimItems(w, S)
  \/ GetJob(w) \/ CancelRelease(w) \/ CancelPending(w)
  \/ ClaimJob(w) \/ ClaimNothing(w)
  \/ ClaimFinalization(w) \/ NothingToFinalize(w)

ItemStep(w) ==
  \/ \E i \in todo[w] : ItemCompletes(w, i) \/ ItemFails(w, i)
  \/ ItemsDone(w) \/ ReleaseClaim(w)

FinalizeStep(w) ==
  \/ WriteArtifacts(w) \/ Attach(w) \/ Cleanup(w)
  \/ GiveUp(w) \/ Reschedule(w) \/ ReleaseJobLease(w)

RefreshStep(a) == StatsRead(a) \/ ApplyRefresh(a)

WorkerStep(w) == ClaimStep(w) \/ ItemStep(w) \/ FinalizeStep(w) \/ RefreshStep(w)

WorkerFault(w) ==
  \/ \E i \in todo[w] : ItemRetries(w, i) \/ ItemDropped(w, i)
  \/ \E v \in BOOLEAN : WriteFails(w, v)
  \/ AttachRaises(w) \/ Abort(w) \/ Crash(w)

Clock == JobLeaseElapses \/ \E i \in Items : ItemLeaseElapses(i)

Stall == JobLeaseStalls \/ \E i \in Items : ItemLeaseStalls(i)

SweeperStep ==
  \/ \E S \in SUBSET Items : SweepItems(S)
  \/ SweepJobLease \/ RefreshStep(Sweeper)

MarkFailedStep ==
  FailNonterminalItems \/ SetOperatorError \/ RetryFinalizationNow \/ RefreshStep(Admin)

Operator ==
  \/ \E p \in BOOLEAN : RequestCancel(p)
  \/ RetryFinalization \/ RequeueStale \/ MarkFailed

Next ==
  \/ \E w \in Workers : WorkerStep(w) \/ WorkerFault(w) \/ JobHeartbeat(w)
  \/ Clock \/ Stall \/ SweeperStep \/ MarkFailedStep \/ Operator

Spec == Init /\ [][Next]_vars

\* Live workers keep polling, time passes, the sweeper runs periodically.
FairSpec ==
  /\ Spec
  /\ \A w \in Workers : WF_vars(WorkerStep(w))
  /\ WF_vars(JobLeaseElapses)
  /\ \A i \in Items : WF_vars(ItemLeaseElapses(i))
  /\ WF_vars(SweeperStep) /\ WF_vars(MarkFailedStep)

-----------------------------------------------------------------------------
(* Safety.                                                                 *)

\* In status finalizing every item is terminal, so the artifacts are assembled
\* from final rows, although the refreshes of several processes overtake each
\* other (docs/features/batching.md: "All items are done").
FinalizingMeansDone == job.status = "finalizing" => With(Open) = {}

\* The counters never claim more than what has happened, whichever refresh was
\* applied last.
ProgressNotOverstated ==
  /\ job.completed \subseteq With({"completed"})
  /\ job.failed \subseteq With({"failed"})
  /\ job.cancelled \subseteq With({"cancelled"})

\* A completed job has an output file that exists and holds exactly the
\* completed items, and an error file for all the others, although two workers
\* may finalize at the same time and the loser deletes what it wrote.  An
\* overtaken refresh or a lost answer of the attach statement breaks it.
CompletedJobHasItsFiles ==
  job.status = "completed" =>
    /\ job.output # NoWorker
    /\ artifact[job.output].output = [exists |-> TRUE, lines |-> With({"completed"})]
    /\ With({"completed"}) # {}
    /\ With({"failed", "cancelled"}) # {} =>
         /\ job.error # NoWorker
         /\ artifact[job.error].error =
              [exists |-> TRUE, lines |-> With({"failed", "cancelled"})]

\* As long as no refresh was overtaken, a completed job has its files.
FilesUnlessOvertaken == overtaken \/ CompletedJobHasItsFiles

\* A terminal job keeps its status and its files: no late refresh, cancel
\* request, repair or second finalizer changes them.
TerminalJobIsFinal ==
  [][job.status \in JobTerminal =>
       /\ job'.status = job.status
       /\ job'.output = job.output
       /\ job'.error = job.error]_vars

-----------------------------------------------------------------------------
(* Liveness.                                                               *)

\* The job reaches a final status although workers crash and leases lapse
\* (docs/features/batching.md: another worker reclaims the job).
JobEventuallyTerminal == <>(job.status \in JobTerminal)
=============================================================================
