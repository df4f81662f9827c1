--------------------------- MODULE BatchJobProofs ---------------------------
(***************************************************************************)
(* Proofs about BatchJob for every number of items, workers, repairs and   *)
(* faults.                                                                 *)
(*                                                                         *)
(* The argument: whatever a process does, item rows only move forward      *)
(* (RowStep), the job row is kept, refreshed or finalized (JobStep), the   *)
(* snapshots of the refreshes lag behind the rows but never contradict a   *)
(* terminal one (SnapStep), and a finalizer works from a record of the job *)
(* it has read (PhaseStep).  Each action is one of these steps; the        *)
(* invariants follow from the steps alone.                                 *)
(***************************************************************************)
EXTENDS BatchJob, TLAPS

-----------------------------------------------------------------------------
(* The inductive invariant.                                                *)

\* Only a claimed item has a lease that can run out.
LapsedRunning == lapsed \subseteq With({"in_progress"})

\* A snapshot may be old, but what it shows as terminal is terminal.
SnapsBehind ==
  \A a \in Actors, i \in Items : snap[a][i] \in Terminal => status[i] = snap[a][i]

\* Items are cancelled only once the cancel request is in the job row.
CancelKnown ==
  /\ \A w \in Workers : phase[w] \in {"cancel", "cancel_pending"} => job.cancel
  /\ With({"cancelled"}) # {} => job.cancel

\* From finalizing on, no item is open.
DoneWhenFinal == job.status \in {"finalizing"} \cup JobTerminal => With(Open) = {}

ProgressInv ==
  /\ TypeOK
  /\ LapsedRunning
  /\ SnapsBehind
  /\ CancelKnown
  /\ ProgressNotOverstated
  /\ DoneWhenFinal

\* An open job has no files, and the worker whose files a job has is not at
\* work on them any more.
FilesOwned ==
  /\ job.status \notin JobTerminal => job.output = NoWorker /\ job.error = NoWorker
  /\ \A w \in Workers : job.output = w \/ job.error = w =>
       phase[w] \notin {"finalize", "attach", "cleanup"}

Exact(r) ==
  /\ r.completed = With({"completed"})
  /\ r.failed = With({"failed"})
  /\ r.cancelled = With({"cancelled"})

File(wanted, S) == IF wanted THEN [exists |-> TRUE, lines |-> S] ELSE NoFile

ArtifactsFor(r) ==
  [output |-> File(r.completed # {}, With({"completed"})),
   error  |-> File(r.failed # {} \/ r.cancelled # {}, With({"failed", "cancelled"}))]

\* What a finalizer works from is exact.
RecordsExact ==
  /\ job.status = "finalizing" => Exact(job)
  /\ \A w \in Workers : phase[w] \in {"finalize", "attach"} =>
       /\ With(Open) = {}
       /\ Exact(rec[w])
       /\ rec[w].cancelled # {} => rec[w].cancel
  /\ \A w \in Workers : phase[w] = "attach" => artifact[w] = ArtifactsFor(rec[w])

FilesInv ==
  /\ ProgressInv
  /\ FilesOwned
  /\ overtaken \/ RecordsExact
  /\ FilesUnlessOvertaken

-----------------------------------------------------------------------------
(* The kinds of steps.                                                     *)

RowStep ==
  /\ \A i \in Items : status[i] \in Terminal => status'[i] = status[i]
  /\ lapsed' \subseteq {i \in Items : status'[i] = "in_progress"}
  /\ \A i \in Items : status'[i] = "cancelled" => status[i] = "cancelled" \/ job.cancel

\* The job row keeps its counters and files, and its status but for a start.
KeepStep ==
  /\ job'.completed = job.completed
  /\ job'.failed = job.failed
  /\ job'.cancelled = job.cancelled
  /\ job'.output = job.output
  /\ job'.error = job.error
  /\ job.cancel => job'.cancel
  /\ \/ job'.status = job.status
     \/ job.status \in {"queued", "in_progress"} /\ job'.status = "in_progress"

CountStep ==
  \E s \in {status} \cup {snap[a] : a \in Actors} :
    /\ job' = Refreshed(s)
    /\ s # status => overtaken'
    /\ UNCHANGED status

FinishStep ==
  \E w \in Workers :
    /\ MayFinalize(w)
    /\ UNCHANGED <<status, artifact>>
    /\ \/ phase[w] = "attach" /\ job' = Attached(w)
       \/ /\ job'.status = "failed" /\ job'.output = NoWorker /\ job'.error = NoWorker
          /\ job'.completed = job.completed /\ job'.failed = job.failed
          /\ job'.cancelled = job.cancelled /\ job'.cancel = job.cancel
    /\ AckLoss \/ phase'[w] = "release_job"

DropStep ==
  \E w \in Workers :
    /\ phase[w] = "cleanup"
    /\ job' = [job EXCEPT !.output = IF @ = w THEN NoWorker ELSE @,
                          !.error = IF @ = w THEN NoWorker ELSE @]

JobStep == KeepStep \/ CountStep \/ FinishStep \/ DropStep

SnapStep ==
  /\ \A a \in Actors : \/ snap'[a] = snap[a]
                       \/ snap'[a] = NoSnap
                       \/ snap'[a] = status /\ UNCHANGED status
  /\ overtaken => overtaken'

PhaseStep ==
  \A w \in Workers :
    /\ phase'[w] \in {"cancel", "cancel_pending"} =>
         phase[w] \in {"cancel", "cancel_pending"} \/ job.cancel
    /\ phase'[w] = "finalize" =>
         \/ phase[w] = "finalize" /\ rec'[w] = rec[w]
         \/ rec'[w] = job' /\ job'.status = "finalizing"
    /\ phase'[w] = "attach" =>
         /\ rec'[w] = rec[w]
         /\ \/ phase[w] = "attach" /\ artifact'[w] = artifact[w]
            \/ /\ phase[w] = "finalize" /\ artifact'[w] = ArtifactsFor(rec[w])
               /\ UNCHANGED status
    /\ phase'[w] = "cleanup" => phase[w] \in {"attach", "cleanup"}
    /\ artifact'[w] # artifact[w] => phase[w] \in {"finalize", "cleanup"}

StepOK == TypeOK' /\ RowStep /\ JobStep /\ SnapStep /\ PhaseStep

\* Changing the rows of open items, to cancelled only once that was requested.
LEMMA RowsMoveForward ==
  ASSUME ProgressInv, NEW S \in SUBSET With(Open), NEW to \in ItemStatus,
         NEW holder \in Workers \cup {NoWorker}, Rows(S, to, holder),
         to = "cancelled" => job.cancel
  PROVE  /\ RowStep
         /\ status' \in [Items -> ItemStatus]
         /\ lockedBy' \in [Items -> Workers \cup {NoWorker}]
         /\ lapsed' \in SUBSET Items
<1>1. \A i \in Items : status'[i] = IF i \in S THEN to ELSE status[i]
  BY DEF Rows, Set
<1>2. \A i \in S : i \in Items /\ status[i] \in Open
  BY DEF With
<1>3. lapsed' = lapsed \ S /\ \A i \in lapsed : i \in Items /\ status[i] = "in_progress"
  BY DEF Rows, ProgressInv, LapsedRunning, With
<1>4. RowStep
  BY <1>1, <1>2, <1>3 DEF RowStep, Open, Terminal
<1>5. /\ status' \in [Items -> ItemStatus]
      /\ lockedBy' \in [Items -> Workers \cup {NoWorker}]
  BY DEF Rows, Set, ProgressInv, TypeOK
<1> QED BY <1>3, <1>4, <1>5

\* A step that leaves the item rows alone.
LEMMA RowsKept ==
  ASSUME ProgressInv, UNCHANGED itemVars
  PROVE  RowStep
BY DEF ProgressInv, LapsedRunning, RowStep, itemVars, With

\* A step that leaves the job row alone.
LEMMA JobKept ==
  ASSUME UNCHANGED job
  PROVE  JobStep
BY DEF JobStep, KeepStep

-----------------------------------------------------------------------------
(* Every action is such a step.                                            *)

\* Taking items.
LEMMA TakenRows ==
  ASSUME ProgressInv, NEW w \in Workers, NEW S \in SUBSET Items, TakeItems(w, S)
  PROVE  /\ RowStep
         /\ status' \in [Items -> ItemStatus]
         /\ lockedBy' \in [Items -> Workers \cup {NoWorker}]
         /\ lapsed' \in SUBSET Items
         /\ todo' \in [Workers -> SUBSET Items]
<1>1. S \in SUBSET With(Open)
  BY DEF TakeItems, Runnable, With, Open
<1>2. "in_progress" \in ItemStatus
  BY DEF ItemStatus, Open
<1>3. todo' \in [Workers -> SUBSET Items]
  BY DEF TakeItems, ProgressInv, TypeOK
<1> QED BY <1>1, <1>2, <1>3, RowsMoveForward DEF TakeItems

\* Releasing the items a worker holds.
LEMMA ReleasedRows ==
  ASSUME ProgressInv, NEW w \in Workers, NEW S \in SUBSET Holds(w),
         NEW to \in ItemStatus \ {"cancelled"}, Rows(S, to, NoWorker)
  PROVE  /\ RowStep
         /\ status' \in [Items -> ItemStatus]
         /\ lockedBy' \in [Items -> Workers \cup {NoWorker}]
         /\ lapsed' \in SUBSET Items
<1>1. S \in SUBSET With(Open)
  BY DEF Holds, With, Open
<1> QED BY <1>1, RowsMoveForward

\* Claiming: claim_next_work, claim_next_job, claim_items, claim_next_finalization
\* and the handling of a cancel request.
LEMMA ClaimSteps ==
  ASSUME ProgressInv, NEW w \in Workers, ClaimStep(w)
  PROVE  StepOK
<1> USE DEF ProgressInv
<1>1. ASSUME NEW S \in SUBSET Items, ClaimSlice(w, S)
      PROVE  StepOK
  <2>1. TakeItems(w, S)
    BY <1>1 DEF ClaimSlice
  <2>2. TypeOK'
    BY <1>1, <2>1, TakenRows DEF ClaimSlice, GoTo, TypeOK, Jobs, JobOpen, Lease, Phases,
       Actors
  <2>3. JobStep
    BY <1>1 DEF ClaimSlice, JobStep, KeepStep, TypeOK, Jobs
  <2>4. SnapStep /\ PhaseStep
    BY <1>1 DEF ClaimSlice, GoTo, SnapStep, PhaseStep, TypeOK, Actors
  <2> QED BY <2>1, <2>2, <2>3, <2>4, TakenRows DEF StepOK
<1>2. ASSUME NEW S \in SUBSET Items, ClaimItems(w, S)
      PROVE  StepOK
  <2>1. TakeItems(w, S)
    BY <1>2 DEF ClaimItems
  <2>2. TypeOK'
    BY <1>2, <2>1, TakenRows DEF ClaimItems, GoTo, TypeOK, Phases, Actors
  <2>3. JobStep
    BY <1>2, JobKept DEF ClaimItems
  <2>4. SnapStep /\ PhaseStep
    BY <1>2 DEF ClaimItems, GoTo, SnapStep, PhaseStep, TypeOK, Actors
  <2> QED BY <2>1, <2>2, <2>3, <2>4, TakenRows DEF StepOK
<1>3. CASE GetJob(w)
  <2>1. TypeOK'
    BY <1>3 DEF GetJob, GoTo, itemVars, TypeOK, Phases, Actors
  <2>2. RowStep /\ JobStep
    BY <1>3, JobKept, RowsKept DEF GetJob
  <2>3. SnapStep /\ PhaseStep
    BY <1>3 DEF GetJob, GoTo, SnapStep, PhaseStep, TypeOK, Actors
  <2> QED BY <2>1, <2>2, <2>3 DEF StepOK
<1>4. CASE CancelRelease(w)
  <2>1. /\ RowStep
        /\ status' \in [Items -> ItemStatus]
        /\ lockedBy' \in [Items -> Workers \cup {NoWorker}]
        /\ lapsed' \in SUBSET Items
    BY <1>4, ReleasedRows DEF CancelRelease, ItemStatus, Open
  <2>2. TypeOK'
    BY <1>4, <2>1 DEF CancelRelease, GoTo, TypeOK, Phases, Actors
  <2>3. JobStep
    BY <1>4, JobKept DEF CancelRelease
  <2>4. SnapStep /\ PhaseStep
    BY <1>4 DEF CancelRelease, GoTo, SnapStep, PhaseStep, TypeOK, Actors
  <2> QED BY <2>1, <2>2, <2>3, <2>4 DEF StepOK
<1>5. CASE CancelPending(w)
  <2>1. job.cancel
    BY <1>5 DEF CancelPending, CancelKnown
  <2>2. With({"pending"}) \in SUBSET With(Open)
    BY DEF With, Open
  <2>3. /\ RowStep
        /\ status' \in [Items -> ItemStatus]
        /\ lockedBy' \in [Items -> Workers \cup {NoWorker}]
        /\ lapsed' \in SUBSET Items
    BY <1>5, <2>1, <2>2, RowsMoveForward DEF CancelPending, ItemStatus, Terminal
  <2>4. TypeOK'
    BY <1>5, <2>3 DEF CancelPending, GoTo, TypeOK, Phases, Actors
  <2>5. JobStep
    BY <1>5, JobKept DEF CancelPending
  <2>6. SnapStep /\ PhaseStep
    BY <1>5 DEF CancelPending, GoTo, SnapStep, PhaseStep, TypeOK, Actors
  <2> QED BY <2>3, <2>4, <2>5, <2>6 DEF StepOK
<1>6. CASE ClaimJob(w)
  <2>1. job' \in Jobs /\ KeepStep
    BY <1>6 DEF ClaimJob, KeepStep, TypeOK, Jobs, JobOpen, JobTerminal, Lease
  <2>2. TypeOK'
    BY <1>6, <2>1 DEF ClaimJob, GoTo, itemVars, TypeOK, Phases, Actors
  <2>3. RowStep /\ JobStep
    BY <1>6, <2>1, RowsKept DEF ClaimJob, JobStep
  <2>4. job.status = "finalizing" => job'.status = "finalizing"
    BY <1>6 DEF ClaimJob, TypeOK, Jobs
  <2>5. SnapStep /\ PhaseStep
    BY <1>6, <2>4 DEF ClaimJob, GoTo, SnapStep, PhaseStep, TypeOK, Actors
  <2> QED BY <2>2, <2>3, <2>5 DEF StepOK
<1>7. CASE ClaimNothing(w)
  <2>1. TypeOK'
    BY <1>7 DEF ClaimNothing, GoTo, itemVars, TypeOK, Phases, Actors
  <2>2. RowStep /\ JobStep
    BY <1>7, JobKept, RowsKept DEF ClaimNothing
  <2>3. SnapStep /\ PhaseStep
    BY <1>7 DEF ClaimNothing, GoTo, SnapStep, PhaseStep, TypeOK, Actors
  <2> QED BY <2>1, <2>2, <2>3 DEF StepOK
<1>8. CASE ClaimFinalization(w)
  <2>1. job' \in Jobs /\ KeepStep /\ job'.status = "finalizing"
    BY <1>8 DEF ClaimFinalization, KeepStep, TypeOK, Jobs, Lease
  <2>2. TypeOK'
    BY <1>8, <2>1 DEF ClaimFinalization, GoTo, itemVars, TypeOK, Phases, Actors
  <2>3. RowStep /\ JobStep
    BY <1>8, <2>1, RowsKept DEF ClaimFinalization, JobStep
  <2>4. SnapStep /\ PhaseStep
    BY <1>8, <2>1 DEF ClaimFinalization, GoTo, SnapStep, PhaseStep, TypeOK, Actors
  <2> QED BY <2>2, <2>3, <2>4 DEF StepOK
<1>9. CASE NothingToFinalize(w)
  <2>1. TypeOK'
    BY <1>9 DEF NothingToFinalize, GoTo, itemVars, TypeOK, Phases, Actors
  <2>2. RowStep /\ JobStep
    BY <1>9, JobKept, RowsKept DEF NothingToFinalize
  <2>3. SnapStep /\ PhaseStep
    BY <1>9 DEF NothingToFinalize, GoTo, SnapStep, PhaseStep, TypeOK, Actors
  <2> QED BY <2>1, <2>2, <2>3 DEF StepOK
<1> HIDE DEF ProgressInv
<1> QED BY <1>1, <1>2, <1>3, <1>4, <1>5, <1>6, <1>7, <1>8, <1>9 DEF ClaimStep

\* Working on items: each outcome is written only to a row the worker holds.
LEMMA SettledRows ==
  ASSUME ProgressInv, NEW w \in Workers, NEW i \in todo[w],
         NEW to \in ItemStatus \ {"cancelled"}, Settle(w, i, to)
  PROVE  /\ RowStep
         /\ status' \in [Items -> ItemStatus]
         /\ lockedBy' \in [Items -> Workers \cup {NoWorker}]
         /\ lapsed' \in SUBSET Items
         /\ todo' \in [Workers -> SUBSET Items]
<1>1. todo' \in [Workers -> SUBSET Items]
  BY DEF Settle, ProgressInv, TypeOK
<1>2. {i} \cap Holds(w) \in SUBSET Holds(w)
  OBVIOUS
<1> QED BY <1>1, <1>2, ReleasedRows DEF Settle

LEMMA ItemSteps ==
  ASSUME ProgressInv, NEW w \in Workers, ItemStep(w)
  PROVE  StepOK
<1> USE DEF ProgressInv
<1>0. {"pending", "completed", "failed"} \subseteq ItemStatus \ {"cancelled"}
  BY DEF ItemStatus, Open, Terminal
<1>1. ASSUME NEW i \in todo[w], ItemCompletes(w, i)
      PROVE  StepOK
  <2>1. Settle(w, i, "completed")
    BY <1>1 DEF ItemCompletes
  <2>2. TypeOK'
    BY <1>0, <1>1, <2>1, SettledRows DEF ItemCompletes, Settle, TypeOK
  <2>3. JobStep
    BY <2>1, JobKept DEF Settle
  <2>4. SnapStep /\ PhaseStep
    BY <1>1, <2>1 DEF ItemCompletes, Settle, SnapStep, PhaseStep
  <2> QED BY <1>0, <2>1, <2>2, <2>3, <2>4, SettledRows DEF StepOK
<1>2. ASSUME NEW i \in todo[w], ItemFails(w, i)
      PROVE  StepOK
  <2>1. Settle(w, i, "failed")
    BY <1>2 DEF ItemFails
  <2>2. TypeOK'
    BY <1>0, <1>2, <2>1, SettledRows DEF ItemFails, Settle, GoTo, TypeOK, Phases, Actors
  <2>3. JobStep
    BY <2>1, JobKept DEF Settle
  <2>4. SnapStep /\ PhaseStep
    BY <1>2, <2>1 DEF ItemFails, Settle, GoTo, SnapStep, PhaseStep, TypeOK, Actors
  <2> QED BY <1>0, <2>1, <2>2, <2>3, <2>4, SettledRows DEF StepOK
<1>3. CASE ItemsDone(w)
  <2>1. TypeOK'
    BY <1>3 DEF ItemsDone, GoTo, itemVars, TypeOK, Phases, Actors
  <2>2. RowStep /\ JobStep
    BY <1>3, JobKept, RowsKept DEF ItemsDone
  <2>3. SnapStep /\ PhaseStep
    BY <1>3 DEF ItemsDone, GoTo, SnapStep, PhaseStep, TypeOK, Actors
  <2> QED BY <2>1, <2>2, <2>3 DEF StepOK
<1>4. CASE ReleaseClaim(w)
  <2>1. /\ RowStep
        /\ status' \in [Items -> ItemStatus]
        /\ lockedBy' \in [Items -> Workers \cup {NoWorker}]
        /\ lapsed' \in SUBSET Items
    BY <1>0, <1>4, ReleasedRows DEF ReleaseClaim
  <2>2. TypeOK'
    BY <1>4, <2>1 DEF ReleaseClaim, GoTo, TypeOK, Phases, Actors
  <2>3. JobStep
    BY <1>4, JobKept DEF ReleaseClaim
  <2>4. SnapStep /\ PhaseStep
    BY <1>4 DEF ReleaseClaim, GoTo, SnapStep, PhaseStep, TypeOK, Actors
  <2> QED BY <2>1, <2>2, <2>3, <2>4 DEF StepOK
<1> HIDE DEF ProgressInv
<1> QED BY <1>1, <1>2, <1>3, <1>4 DEF ItemStep

\* The status a job is finalized with is a terminal one.
LEMMA FinalStatusTerminal ==
  ASSUME NEW r
  PROVE  FinalStatus(r) \in JobTerminal
BY DEF FinalStatus, JobTerminal

\* attach_artifacts_and_finalize leaves a well-formed job row.
LEMMA AttachedRow ==
  ASSUME TypeOK, NEW w \in Workers
  PROVE  /\ Attached(w) \in Jobs
         /\ Attached(w).status = FinalStatus(rec[w])
         /\ Attached(w).output = IF artifact[w].output.exists THEN w ELSE NoWorker
         /\ Attached(w).error = IF artifact[w].error.exists THEN w ELSE NoWorker
         /\ Attached(w).completed = job.completed
         /\ Attached(w).failed = job.failed
         /\ Attached(w).cancelled = job.cancelled
         /\ Attached(w).cancel = job.cancel
BY FinalStatusTerminal DEF TypeOK, Attached, Finalized, Jobs, Lease

\* Finalization, from the assembly of the files to the release of the lease.
LEMMA FinalizeSteps ==
  ASSUME ProgressInv, NEW w \in Workers, FinalizeStep(w)
  PROVE  StepOK
<1> USE DEF ProgressInv
<1>1. CASE WriteArtifacts(w)
  <2>1. artifact' = [artifact EXCEPT ![w] = ArtifactsFor(rec[w])]
    BY <1>1 DEF WriteArtifacts, ArtifactsFor, File
  <2>2. ArtifactsFor(rec[w]) \in [output : Files, error : Files]
    BY DEF ArtifactsFor, File, Files, NoFile, With
  <2>3. TypeOK'
    <3>1. /\ GoTo(w, "attach")
          /\ UNCHANGED <<itemVars, job, todo, rec, snap, overtaken, repairs, faults>>
      BY <1>1 DEF WriteArtifacts
    <3>2. artifact' \in [Workers -> [output : Files, error : Files]]
      BY <2>1, <2>2 DEF TypeOK
    <3> QED BY <3>1, <3>2 DEF GoTo, itemVars, TypeOK, Phases, Actors
  <2>4. RowStep /\ JobStep
    BY <1>1, JobKept, RowsKept DEF WriteArtifacts
  <2>5. SnapStep /\ PhaseStep
    BY <1>1, <2>1 DEF WriteArtifacts, GoTo, itemVars, SnapStep, PhaseStep, TypeOK, Actors
  <2> QED BY <2>3, <2>4, <2>5 DEF StepOK
<1>2. CASE Attach(w)
  <2>1. job' \in Jobs
    BY <1>2, AttachedRow DEF Attach, TypeOK
  <2>2. TypeOK'
    BY <1>2, <2>1 DEF Attach, GoTo, itemVars, TypeOK, Phases, Actors
  <2>3. RowStep
    BY <1>2, RowsKept DEF Attach
  <2>4. JobStep
    <3>1. CASE MayFinalize(w)
      BY <1>2, <3>1 DEF Attach, GoTo, JobStep, FinishStep, itemVars, TypeOK, Actors
    <3>2. CASE ~ MayFinalize(w)
      BY <1>2, <3>2, JobKept DEF Attach
    <3> QED BY <3>1, <3>2
  <2>5. SnapStep /\ PhaseStep
    BY <1>2 DEF Attach, GoTo, SnapStep, PhaseStep, TypeOK, Actors
  <2> QED BY <2>2, <2>3, <2>4, <2>5 DEF StepOK
<1>3. CASE Cleanup(w)
  <2>1. job' \in Jobs
    BY <1>3 DEF Cleanup, TypeOK, Jobs
  <2>2. TypeOK'
    BY <1>3, <2>1 DEF Cleanup, GoTo, itemVars, TypeOK, Phases, Actors, NoArtifacts,
       NoFile, Files
  <2>3. RowStep
    BY <1>3, RowsKept DEF Cleanup
  <2>4. JobStep
    BY <1>3 DEF Cleanup, JobStep, DropStep
  <2>5. SnapStep /\ PhaseStep
    BY <1>3 DEF Cleanup, GoTo, SnapStep, PhaseStep, TypeOK, Actors
  <2> QED BY <2>2, <2>3, <2>4, <2>5 DEF StepOK
<1>4. CASE GiveUp(w)
  <2>1. job' \in Jobs
    BY <1>4 DEF GiveUp, Finalized, TypeOK, Jobs, JobTerminal, Lease
  <2>2. TypeOK'
    BY <1>4, <2>1 DEF GiveUp, GoTo, itemVars, TypeOK, Phases, Actors
  <2>3. RowStep
    BY <1>4, RowsKept DEF GiveUp
  <2>4. JobStep
    <3>1. CASE MayFinalize(w)
      <4>1. /\ job'.status = "failed" /\ job'.output = NoWorker /\ job'.error = NoWorker
            /\ job'.completed = job.completed /\ job'.failed = job.failed
            /\ job'.cancelled = job.cancelled /\ job'.cancel = job.cancel
        BY <1>4, <3>1 DEF GiveUp, Finalized, TypeOK, Jobs
      <4>2. phase'[w] = "release_job" /\ UNCHANGED <<status, artifact>>
        BY <1>4, <3>1 DEF GiveUp, GoTo, itemVars, TypeOK, Actors
      <4> QED BY <3>1, <4>1, <4>2 DEF JobStep, FinishStep
    <3>2. CASE ~ MayFinalize(w)
      BY <1>4, <3>2, JobKept DEF GiveUp
    <3> QED BY <3>1, <3>2
  <2>5. SnapStep /\ PhaseStep
    BY <1>4 DEF GiveUp, GoTo, SnapStep, PhaseStep, TypeOK, Actors
  <2> QED BY <2>2, <2>3, <2>4, <2>5 DEF StepOK
<1>5. CASE Reschedule(w)
  <2>1. job' \in Jobs /\ KeepStep
    BY <1>5 DEF Reschedule, KeepStep, TypeOK, Jobs, Lease
  <2>2. TypeOK'
    BY <1>5, <2>1 DEF Reschedule, GoTo, itemVars, TypeOK, Phases, Actors
  <2>3. RowStep /\ JobStep
    BY <1>5, <2>1, RowsKept DEF Reschedule, JobStep
  <2>4. SnapStep /\ PhaseStep
    BY <1>5 DEF Reschedule, GoTo, SnapStep, PhaseStep, TypeOK, Actors
  <2> QED BY <2>2, <2>3, <2>4 DEF StepOK
<1>6. CASE ReleaseJobLease(w)
  <2>1. job' \in Jobs /\ KeepStep
    BY <1>6 DEF ReleaseJobLease, KeepStep, TypeOK, Jobs, Lease
  <2>2. NewJob \in Jobs
    BY DEF NewJob, Jobs, JobOpen, Lease
  <2>3. TypeOK'
    BY <1>6, <2>1, <2>2 DEF ReleaseJobLease, GoTo, itemVars, TypeOK, Phases, Actors
  <2>4. RowStep /\ JobStep
    BY <1>6, <2>1, RowsKept DEF ReleaseJobLease, JobStep
  <2>5. SnapStep /\ PhaseStep
    BY <1>6 DEF ReleaseJobLease, GoTo, SnapStep, PhaseStep, TypeOK, Actors
  <2> QED BY <2>3, <2>4, <2>5 DEF StepOK
<1> HIDE DEF ProgressInv
<1> QED BY <1>1, <1>2, <1>3, <1>4, <1>5, <1>6 DEF FinalizeStep

\* A refresh from statistics of the right shape leaves a well-formed job row,
\* with its files, and with its status if that is terminal.
LEMMA RefreshedRow ==
  ASSUME TypeOK, NEW s \in [Items -> ItemStatus]
  PROVE  /\ Refreshed(s) \in Jobs
         /\ Refreshed(s).completed = {i \in Items : s[i] = "completed"}
         /\ Refreshed(s).failed = {i \in Items : s[i] = "failed"}
         /\ Refreshed(s).cancelled = {i \in Items : s[i] = "cancelled"}
         /\ Refreshed(s).output = job.output
         /\ Refreshed(s).error = job.error
         /\ Refreshed(s).cancel = job.cancel
         /\ job.status \in JobTerminal => Refreshed(s).status = job.status
         /\ Refreshed(s).status \in JobTerminal => job.status \in JobTerminal
         /\ Refreshed(s).status = "finalizing" =>
              \/ job.status = "finalizing"
              \/ \A i \in Items : s[i] \notin Open
         /\ Refreshed(s).status = "finalizing" \/ job.status # "finalizing"
              \/ \E i \in Items : s[i] \in Open
BY DEF TypeOK, Jobs, Refreshed, JobOpen, JobTerminal

\* refresh_job_progress: the snapshot, then the update of the job row.
LEMMA RefreshSteps ==
  ASSUME ProgressInv, NEW a \in Actors, RefreshStep(a)
  PROVE  StepOK
<1> USE DEF ProgressInv
<1>1. CASE StatsRead(a)
  <2>1. ApplyPhase(phase[a]) \in {"apply", "item_apply", "mf_apply", "repair_apply"}
    BY <1>1 DEF StatsRead, RefreshPhases, ApplyPhase
  <2>2. TypeOK'
    BY <1>1, <2>1 DEF StatsRead, GoTo, itemVars, TypeOK, Phases
  <2>3. RowStep /\ JobStep
    BY <1>1, JobKept, RowsKept DEF StatsRead
  <2>4. SnapStep
    BY <1>1 DEF StatsRead, itemVars, SnapStep, TypeOK
  <2>5. PhaseStep
    BY <1>1, <2>1 DEF StatsRead, GoTo, PhaseStep, TypeOK
  <2> QED BY <2>2, <2>3, <2>4, <2>5 DEF StepOK
<1>2. CASE ApplyRefresh(a)
  <2> DEFINE s == IF RefreshRaces THEN snap[a] ELSE status
             next == AfterRefresh(a, phase[a], job'.status = "finalizing")
  <2>1. /\ job' = Refreshed(s)
        /\ GoTo(a, next)
        /\ rec' = IF next = "finalize" THEN [rec EXCEPT ![a] = job'] ELSE rec
        /\ overtaken' = (overtaken \/ (RefreshRaces /\ snap[a] # status))
        /\ snap' = [snap EXCEPT ![a] = NoSnap]
        /\ UNCHANGED <<itemVars, artifact, todo, repairs, faults>>
    BY <1>2 DEF ApplyRefresh
  <2>2. s \in [Items -> ItemStatus]
    BY DEF TypeOK
  <2>3. /\ next \in {"working", "idle", "mf_retry", "fin_claim", "finalize", "release_job"}
        /\ next = "finalize" => job'.status = "finalizing"
    BY <1>2 DEF ApplyRefresh, AfterRefresh
  <2>4. CountStep
    <3>1. s \in {status} \cup {snap[b] : b \in Actors}
      OBVIOUS
    <3>2. s # status => overtaken'
      BY <2>1
    <3> QED BY <2>1, <3>1, <3>2 DEF CountStep, itemVars
  <2>5. job' \in Jobs
    BY <2>1, <2>2, RefreshedRow
  <2>6. NoSnap \in [Items -> ItemStatus]
    BY DEF NoSnap, ItemStatus, Open
  <2> HIDE DEF s, next
  <2>7. TypeOK'
    BY <2>1, <2>3, <2>5, <2>6 DEF GoTo, itemVars, TypeOK, Phases
  <2>8. RowStep
    BY <2>1, RowsKept
  <2>9. SnapStep
    BY <2>1 DEF SnapStep, TypeOK
  <2>10. PhaseStep
    BY <2>1, <2>3 DEF GoTo, PhaseStep, TypeOK
  <2> QED BY <2>4, <2>7, <2>8, <2>9, <2>10 DEF StepOK, JobStep
<1> HIDE DEF ProgressInv
<1> QED BY <1>1, <1>2 DEF RefreshStep

\* Faults of a worker: retries, dropped outcomes, errors and crashes.
LEMMA FaultSteps ==
  ASSUME ProgressInv, NEW w \in Workers, WorkerFault(w)
  PROVE  StepOK
<1> USE DEF ProgressInv
<1>0. faults \in Nat /\ (Fault => faults' \in Nat)
  BY DEF Fault, TypeOK
<1>1. ASSUME NEW i \in todo[w], ItemRetries(w, i)
      PROVE  StepOK
  <2>1. Settle(w, i, "pending")
    BY <1>1 DEF ItemRetries
  <2>2. "pending" \in ItemStatus \ {"cancelled"}
    BY DEF ItemStatus, Open
  <2>3. TypeOK'
    BY <1>0, <1>1, <2>1, <2>2, SettledRows DEF ItemRetries, Settle, GoTo, TypeOK, Phases,
       Actors
  <2>4. JobStep
    BY <2>1, JobKept DEF Settle
  <2>5. SnapStep /\ PhaseStep
    BY <1>1, <2>1 DEF ItemRetries, Settle, GoTo, SnapStep, PhaseStep, TypeOK, Actors
  <2> QED BY <2>1, <2>2, <2>3, <2>4, <2>5, SettledRows DEF StepOK
<1>2. ASSUME NEW i \in todo[w], ItemDropped(w, i)
      PROVE  StepOK
  <2>1. TypeOK'
    BY <1>0, <1>2 DEF ItemDropped, itemVars, TypeOK
  <2>2. RowStep /\ JobStep
    BY <1>2, JobKept, RowsKept DEF ItemDropped
  <2>3. SnapStep /\ PhaseStep
    BY <1>2 DEF ItemDropped, SnapStep, PhaseStep
  <2> QED BY <2>1, <2>2, <2>3 DEF StepOK
<1>3. ASSUME NEW v \in BOOLEAN, WriteFails(w, v)
      PROVE  StepOK
  <2>1. TypeOK'
    BY <1>0, <1>3 DEF WriteFails, GoTo, itemVars, TypeOK, Phases, Actors
  <2>2. RowStep /\ JobStep
    BY <1>3, JobKept, RowsKept DEF WriteFails
  <2>3. SnapStep /\ PhaseStep
    BY <1>3 DEF WriteFails, GoTo, SnapStep, PhaseStep, TypeOK, Actors
  <2> QED BY <2>1, <2>2, <2>3 DEF StepOK
<1>4. CASE AttachRaises(w)
  <2>1. job' \in Jobs
    BY <1>4, AttachedRow DEF AttachRaises, TypeOK
  <2>2. TypeOK'
    BY <1>0, <1>4, <2>1 DEF AttachRaises, GoTo, itemVars, TypeOK, Phases, Actors
  <2>3. RowStep
    BY <1>4, RowsKept DEF AttachRaises
  <2>4. JobStep
    <3>1. CASE UNCHANGED job
      BY <3>1, JobKept
    <3>2. CASE AckLoss /\ MayFinalize(w) /\ job' = Attached(w)
      BY <1>4, <3>2 DEF AttachRaises, JobStep, FinishStep, itemVars
    <3> QED BY <1>4, <3>1, <3>2 DEF AttachRaises
  <2>5. SnapStep /\ PhaseStep
    BY <1>4 DEF AttachRaises, GoTo, SnapStep, PhaseStep, TypeOK, Actors
  <2> QED BY <2>2, <2>3, <2>4, <2>5 DEF StepOK
<1>5. NewJob \in Jobs /\ NoSnap \in [Items -> ItemStatus]
  BY DEF NewJob, Jobs, JobOpen, Lease, NoSnap, ItemStatus, Open
<1>6. CASE Abort(w)
  <2>1. TypeOK'
    BY <1>0, <1>5, <1>6 DEF Abort, GoTo, itemVars, TypeOK, Phases, Actors
  <2>2. RowStep /\ JobStep
    BY <1>6, JobKept, RowsKept DEF Abort
  <2>3. SnapStep
    BY <1>6 DEF Abort, SnapStep, TypeOK
  <2>4. PhaseStep
    BY <1>6 DEF Abort, GoTo, PhaseStep, TypeOK, Actors
  <2> QED BY <2>1, <2>2, <2>3, <2>4 DEF StepOK
<1>7. CASE Crash(w)
  <2>1. TypeOK'
    BY <1>0, <1>5, <1>7 DEF Crash, GoTo, itemVars, TypeOK, Phases, Actors
  <2>2. RowStep /\ JobStep
    BY <1>7, JobKept, RowsKept DEF Crash
  <2>3. SnapStep
    BY <1>7 DEF Crash, SnapStep, TypeOK
  <2>4. PhaseStep
    BY <1>7 DEF Crash, GoTo, PhaseStep, TypeOK, Actors
  <2> QED BY <2>1, <2>2, <2>3, <2>4 DEF StepOK
<1> HIDE DEF ProgressInv
<1> QED BY <1>1, <1>2, <1>3, <1>4, <1>6, <1>7 DEF WorkerFault

\* Time passes: leases run out or are renewed.
LEMMA LeaseSteps ==
  ASSUME ProgressInv, Clock \/ Stall \/ SweepJobLease \/ \E w \in Workers : JobHeartbeat(w)
  PROVE  StepOK
<1> USE DEF ProgressInv
<1>0. faults \in Nat /\ (Fault => faults' \in Nat)
  BY DEF Fault, TypeOK
<1> DEFINE others == UNCHANGED <<artifact, phase, todo, rec, snap, overtaken, repairs>>
           onlyLease == \E l \in Lease, h \in Workers \cup {NoWorker} :
                          job' = [job EXCEPT !.lease = l, !.lockedBy = h]
<1>1. ASSUME UNCHANGED itemVars, onlyLease, others, faults' \in Nat
      PROVE  StepOK
  <2>1. job' \in Jobs /\ KeepStep
    BY <1>1 DEF KeepStep, TypeOK, Jobs
  <2>2. TypeOK'
    BY <1>1, <2>1 DEF itemVars, TypeOK
  <2>3. SnapStep /\ PhaseStep
    BY <1>1 DEF SnapStep, PhaseStep
  <2> QED BY <1>1, <2>1, <2>2, <2>3, RowsKept DEF StepOK, JobStep
<1>2. ASSUME NEW i \in Items, status[i] = "in_progress", lapsed' = lapsed \cup {i},
             UNCHANGED <<status, lockedBy, job>>, others, faults' \in Nat
      PROVE  StepOK
  <2>1. TypeOK'
    BY <1>2 DEF TypeOK
  <2>2. RowStep
    BY <1>2 DEF RowStep, LapsedRunning, With
  <2>3. SnapStep /\ PhaseStep
    BY <1>2 DEF SnapStep, PhaseStep
  <2> QED BY <1>2, <2>1, <2>2, <2>3, JobKept DEF StepOK
<1> HIDE DEF others, ProgressInv
<1>3. CASE JobLeaseElapses \/ JobLeaseStalls
  <2>1. job' = [job EXCEPT !.lease = "expired", !.lockedBy = job.lockedBy]
    BY <1>3 DEF JobLeaseElapses, JobLeaseStalls, ProgressInv, TypeOK, Jobs
  <2>2. onlyLease
    BY <2>1 DEF Lease, ProgressInv, TypeOK, Jobs
  <2> HIDE DEF onlyLease
  <2> QED BY <1>0, <1>1, <1>3, <2>2 DEF JobLeaseElapses, JobLeaseStalls, others
<1>4. CASE SweepJobLease
  <2>1. job' = [job EXCEPT !.lease = "none", !.lockedBy = NoWorker]
    BY <1>4 DEF SweepJobLease, ProgressInv, TypeOK, Jobs
  <2>2. onlyLease
    BY <2>1 DEF Lease
  <2> HIDE DEF onlyLease
  <2> QED BY <1>0, <1>1, <1>4, <2>2 DEF SweepJobLease, others
<1>5. ASSUME NEW w \in Workers, JobHeartbeat(w)
      PROVE  StepOK
  <2>1. job' = [job EXCEPT !.lease = "live", !.lockedBy = job.lockedBy]
    BY <1>5 DEF JobHeartbeat, ProgressInv, TypeOK, Jobs
  <2>2. onlyLease
    BY <2>1 DEF Lease, ProgressInv, TypeOK, Jobs
  <2> HIDE DEF onlyLease
  <2> QED BY <1>0, <1>1, <1>5, <2>2 DEF JobHeartbeat, others
<1>6. ASSUME NEW i \in Items, ItemLeaseElapses(i) \/ ItemLeaseStalls(i)
      PROVE  StepOK
  BY <1>0, <1>2, <1>6 DEF ItemLeaseElapses, ItemLeaseStalls, others
<1> QED BY <1>3, <1>4, <1>5, <1>6 DEF Clock, Stall

\* The sweeper, the cancel request and the operator's repairs.
LEMMA RepairSteps ==
  ASSUME ProgressInv, SweeperStep \/ MarkFailedStep \/ Operator
  PROVE  StepOK
<1> USE DEF ProgressInv
<1>0. repairs \in Nat /\ (Repair => repairs' \in Nat)
  BY DEF Repair, TypeOK
<1>1. Admin \in Actors /\ Sweeper \in Actors /\ Admin \notin Workers /\ Sweeper \notin Workers
  BY ConstantsAssumption DEF Actors
<1>2. {"pending", "failed"} \subseteq ItemStatus
  BY DEF ItemStatus, Open, Terminal
<1>3. lapsed \subseteq With(Open)
  BY DEF LapsedRunning, With, Open
<1>4. ASSUME NEW S \in SUBSET Items, SweepItems(S)
      PROVE  StepOK
  <2>1. S \in SUBSET With(Open) /\ Rows(S, "pending", NoWorker)
    BY <1>3, <1>4 DEF SweepItems
  <2>2. /\ RowStep
        /\ status' \in [Items -> ItemStatus]
        /\ lockedBy' \in [Items -> Workers \cup {NoWorker}]
        /\ lapsed' \in SUBSET Items
    BY <1>2, <2>1, RowsMoveForward
  <2>3. TypeOK'
    BY <1>1, <1>4, <2>2 DEF SweepItems, GoTo, TypeOK, Phases
  <2>4. JobStep
    BY <1>4, JobKept DEF SweepItems
  <2>5. SnapStep /\ PhaseStep
    BY <1>1, <1>4 DEF SweepItems, GoTo, SnapStep, PhaseStep, TypeOK, Actors
  <2> QED BY <2>2, <2>3, <2>4, <2>5 DEF StepOK
<1>5. CASE RequeueStale
  <2>1. lapsed \in SUBSET With(Open) /\ Rows(lapsed, "pending", NoWorker)
    BY <1>3, <1>5 DEF RequeueStale
  <2>2. /\ RowStep
        /\ status' \in [Items -> ItemStatus]
        /\ lockedBy' \in [Items -> Workers \cup {NoWorker}]
        /\ lapsed' \in SUBSET Items
    BY <1>2, <2>1, RowsMoveForward
  <2>3. TypeOK'
    BY <1>0, <1>1, <1>5, <2>2 DEF RequeueStale, GoTo, TypeOK, Phases
  <2>4. JobStep
    BY <1>5, JobKept DEF RequeueStale
  <2>5. SnapStep /\ PhaseStep
    BY <1>1, <1>5 DEF RequeueStale, GoTo, SnapStep, PhaseStep, TypeOK, Actors
  <2> QED BY <2>2, <2>3, <2>4, <2>5 DEF StepOK
<1>6. CASE FailNonterminalItems
  <2>1. With(Open) \in SUBSET With(Open) /\ Rows(With(Open), "failed", NoWorker)
    BY <1>6 DEF FailNonterminalItems
  <2>2. /\ RowStep
        /\ status' \in [Items -> ItemStatus]
        /\ lockedBy' \in [Items -> Workers \cup {NoWorker}]
        /\ lapsed' \in SUBSET Items
    BY <1>2, <2>1, RowsMoveForward
  <2>3. TypeOK'
    BY <1>1, <1>6, <2>2 DEF FailNonterminalItems, GoTo, TypeOK, Phases
  <2>4. JobStep
    BY <1>6, JobKept DEF FailNonterminalItems
  <2>5. SnapStep /\ PhaseStep
    BY <1>1, <1>6 DEF FailNonterminalItems, GoTo, SnapStep, PhaseStep, TypeOK, Actors
  <2> QED BY <2>2, <2>3, <2>4, <2>5 DEF StepOK
<1>7. CASE MarkFailed
  <2>1. TypeOK'
    BY <1>0, <1>1, <1>7 DEF MarkFailed, GoTo, itemVars, TypeOK, Phases
  <2>2. RowStep /\ JobStep
    BY <1>7, JobKept, RowsKept DEF MarkFailed
  <2>3. SnapStep /\ PhaseStep
    BY <1>1, <1>7 DEF MarkFailed, GoTo, SnapStep, PhaseStep, TypeOK, Actors
  <2> QED BY <2>1, <2>2, <2>3 DEF StepOK
<1>8. CASE SetOperatorError
  <2>1. job' \in Jobs /\ KeepStep
    BY <1>8 DEF SetOperatorError, KeepStep, TypeOK, Jobs
  <2>2. TypeOK'
    BY <1>1, <1>8, <2>1 DEF SetOperatorError, GoTo, itemVars, TypeOK, Phases
  <2>3. RowStep /\ JobStep
    BY <1>8, <2>1, RowsKept DEF SetOperatorError, JobStep
  <2>4. SnapStep /\ PhaseStep
    BY <1>1, <1>8 DEF SetOperatorError, GoTo, SnapStep, PhaseStep, TypeOK, Actors
  <2> QED BY <2>2, <2>3, <2>4 DEF StepOK
<1>9. CASE RetryFinalizationNow
  <2>1. job' \in Jobs /\ KeepStep
    BY <1>9 DEF RetryFinalizationNow, KeepStep, TypeOK, Jobs, Lease
  <2>2. TypeOK'
    BY <1>1, <1>9, <2>1 DEF RetryFinalizationNow, GoTo, itemVars, TypeOK, Phases
  <2>3. RowStep /\ JobStep
    BY <1>9, <2>1, RowsKept DEF RetryFinalizationNow, JobStep
  <2>4. SnapStep /\ PhaseStep
    BY <1>1, <1>9 DEF RetryFinalizationNow, GoTo, SnapStep, PhaseStep, TypeOK, Actors
  <2> QED BY <2>2, <2>3, <2>4 DEF StepOK
<1>10. ASSUME NEW p \in BOOLEAN, RequestCancel(p)
       PROVE  StepOK
  <2>1. job' \in Jobs /\ KeepStep
    BY <1>10 DEF RequestCancel, KeepStep, TypeOK, Jobs, JobOpen
  <2>2. TypeOK'
    BY <1>0, <1>10, <2>1 DEF RequestCancel, itemVars, TypeOK
  <2>3. RowStep /\ JobStep
    BY <1>10, <2>1, RowsKept DEF RequestCancel, JobStep
  <2>4. SnapStep /\ PhaseStep
    BY <1>10 DEF RequestCancel, SnapStep, PhaseStep
  <2> QED BY <2>2, <2>3, <2>4 DEF StepOK
<1>11. CASE RetryFinalization
  <2>1. job' \in Jobs /\ KeepStep
    BY <1>11 DEF RetryFinalization, KeepStep, TypeOK, Jobs, Lease
  <2>2. TypeOK'
    BY <1>0, <1>11, <2>1 DEF RetryFinalization, itemVars, TypeOK
  <2>3. RowStep /\ JobStep
    BY <1>11, <2>1, RowsKept DEF RetryFinalization, JobStep
  <2>4. SnapStep /\ PhaseStep
    BY <1>11 DEF RetryFinalization, SnapStep, PhaseStep
  <2> QED BY <2>2, <2>3, <2>4 DEF StepOK
<1> HIDE DEF ProgressInv
<1> QED BY <1>1, <1>4, <1>5, <1>6, <1>7, <1>8, <1>9, <1>10, <1>11, LeaseSteps,
           RefreshSteps DEF SweeperStep, MarkFailedStep, Operator

\* A step of the specification, or a stuttering step, is a step of these kinds.
LEMMA NextStepOK ==
  ASSUME ProgressInv, [Next]_vars
  PROVE  StepOK
<1>1. CASE UNCHANGED vars
  <2>1. TypeOK' /\ SnapStep /\ PhaseStep
    BY <1>1 DEF vars, itemVars, ProgressInv, TypeOK, SnapStep, PhaseStep
  <2> QED BY <1>1, <2>1, RowsKept, JobKept DEF vars, StepOK
<1>2. CASE Next
  <2>1. \A w \in Workers : WorkerStep(w) => StepOK
    BY ClaimSteps, ItemSteps, FinalizeSteps, RefreshSteps DEF WorkerStep, Actors
  <2> QED BY <1>2, <2>1, FaultSteps, LeaseSteps, RepairSteps DEF Next
<1> QED BY <1>1, <1>2

-----------------------------------------------------------------------------
(* The invariants follow from the kinds of steps.                          *)

\* What a refresh writes was true when it was read and, of terminal items, is
\* true still.
LEMMA CountedRow ==
  ASSUME ProgressInv, CountStep
  PROVE  \E s \in [Items -> ItemStatus] :
           /\ job' = Refreshed(s)
           /\ \A i \in Items : s[i] \in Terminal => status[i] = s[i]
           /\ s # status => overtaken'
           /\ UNCHANGED status
BY DEF ProgressInv, CountStep, SnapsBehind, TypeOK

\* A cancel request is never withdrawn.
LEMMA CancelKept ==
  ASSUME ProgressInv, JobStep
  PROVE  job.cancel => job'.cancel
<1>1. CASE KeepStep
  BY <1>1 DEF KeepStep
<1>2. CASE CountStep
  BY <1>2, CountedRow, RefreshedRow DEF ProgressInv
<1>3. CASE FinishStep
  BY <1>3, AttachedRow DEF FinishStep, ProgressInv
<1>4. CASE DropStep
  BY <1>4 DEF DropStep, ProgressInv, TypeOK, Jobs
<1> QED BY <1>1, <1>2, <1>3, <1>4 DEF JobStep

LEMMA ProgressStep ==
  ASSUME ProgressInv, StepOK
  PROVE  ProgressInv'
<1> USE DEF ProgressInv, StepOK
<1>1. LapsedRunning'
  BY DEF RowStep, LapsedRunning, With
<1>2. SnapsBehind'
  <2> SUFFICES ASSUME NEW a \in Actors, NEW i \in Items, snap'[a][i] \in Terminal
               PROVE  status'[i] = snap'[a][i]
    BY DEF SnapsBehind
  <2>1. CASE snap'[a] = snap[a]
    BY <2>1 DEF SnapsBehind, RowStep
  <2>2. CASE snap'[a] = NoSnap
    BY <2>2 DEF NoSnap, Terminal
  <2>3. CASE snap'[a] = status /\ UNCHANGED status
    BY <2>3
  <2> QED BY <2>1, <2>2, <2>3 DEF SnapStep
<1>3. CancelKnown'
  <2>1. job.cancel => job'.cancel
    BY CancelKept
  <2>2. \A w \in Workers : phase'[w] \in {"cancel", "cancel_pending"} => job.cancel
    BY DEF PhaseStep, CancelKnown
  <2>3. With({"cancelled"})' # {} => job.cancel
    BY DEF RowStep, CancelKnown, With
  <2> QED BY <2>1, <2>2, <2>3 DEF CancelKnown
<1>4. ASSUME NEW t \in Terminal
      PROVE  With({t}) \subseteq With({t})'
  BY <1>4 DEF With, RowStep
<1>5. {"completed", "failed", "cancelled"} = Terminal
  BY DEF Terminal
<1>6. \/ /\ job'.completed = job.completed
         /\ job'.failed = job.failed
         /\ job'.cancelled = job.cancelled
      \/ CountStep
  <2>1. CASE KeepStep
    BY <2>1 DEF KeepStep
  <2>2. CASE FinishStep
    BY <2>2, AttachedRow DEF FinishStep
  <2>3. CASE DropStep
    BY <2>3 DEF DropStep, TypeOK, Jobs
  <2> QED BY <2>1, <2>2, <2>3 DEF JobStep
<1>7. ProgressNotOverstated'
  <2>1. CASE /\ job'.completed = job.completed
             /\ job'.failed = job.failed
             /\ job'.cancelled = job.cancelled
    BY <1>4, <1>5, <2>1 DEF ProgressNotOverstated
  <2>2. CASE CountStep
    <3> PICK s \in [Items -> ItemStatus] :
          /\ job' = Refreshed(s)
          /\ \A i \in Items : s[i] \in Terminal => status[i] = s[i]
          /\ UNCHANGED status
      BY <2>2, CountedRow
    <3>1. /\ job'.completed = {i \in Items : s[i] = "completed"}
          /\ job'.failed = {i \in Items : s[i] = "failed"}
          /\ job'.cancelled = {i \in Items : s[i] = "cancelled"}
      BY RefreshedRow
    <3> QED BY <3>1 DEF ProgressNotOverstated, With, Terminal
  <2> QED BY <1>6, <2>1, <2>2
<1>8. DoneWhenFinal'
  <2>1. With(Open) = {} => With(Open)' = {}
    BY DEF With, RowStep, TypeOK, ItemStatus, Open, Terminal
  <2>2. CASE KeepStep
    BY <2>1, <2>2 DEF KeepStep, DoneWhenFinal, JobTerminal
  <2>3. CASE CountStep
    <3> PICK s \in [Items -> ItemStatus] :
          /\ job' = Refreshed(s)
          /\ \A i \in Items : s[i] \in Terminal => status[i] = s[i]
          /\ UNCHANGED status
      BY <2>3, CountedRow
    <3>1. CASE \A i \in Items : s[i] \notin Open
      <4>1. \A i \in Items : status'[i] \in Terminal
        BY <3>1 DEF ItemStatus
      <4> QED BY <4>1 DEF DoneWhenFinal, With, Open, Terminal
    <3>2. CASE \E i \in Items : s[i] \in Open
      <4>1. job'.status \in {"finalizing"} \cup JobTerminal =>
              job.status \in {"finalizing"} \cup JobTerminal
        BY <3>2, RefreshedRow
      <4> QED BY <2>1, <4>1 DEF DoneWhenFinal
    <3> QED BY <3>1, <3>2
  <2>4. CASE FinishStep
    BY <2>1, <2>4 DEF FinishStep, MayFinalize, DoneWhenFinal
  <2>5. CASE DropStep
    <3>1. job'.status = job.status
      BY <2>5 DEF DropStep, TypeOK, Jobs
    <3> QED BY <2>1, <3>1 DEF DoneWhenFinal
  <2> QED BY <2>2, <2>3, <2>4, <2>5 DEF JobStep
<1> QED BY <1>1, <1>2, <1>3, <1>7, <1>8

\* As long as the answer of a committed attach is not lost, a terminal job row
\* keeps its status and its files.
LEMMA TerminalRowKept ==
  ASSUME ProgressInv, FilesOwned, JobStep, job.status \in JobTerminal
  PROVE  job'.status = job.status /\ job'.output = job.output /\ job'.error = job.error
<1>1. CASE KeepStep
  BY <1>1 DEF KeepStep, JobTerminal
<1>2. CASE CountStep
  BY <1>2, CountedRow, RefreshedRow DEF ProgressInv
<1>3. CASE FinishStep
  BY <1>3 DEF FinishStep, MayFinalize, JobTerminal
<1>4. CASE DropStep
  BY <1>4 DEF DropStep, FilesOwned, ProgressInv, TypeOK, Jobs
<1> QED BY <1>1, <1>2, <1>3, <1>4 DEF JobStep

\* Only finalizing makes a job terminal.
LEMMA OnlyFinishEnds ==
  ASSUME ProgressInv, JobStep, job.status \notin JobTerminal, job'.status \in JobTerminal
  PROVE  FinishStep
<1>1. CASE KeepStep
  BY <1>1 DEF KeepStep, JobTerminal
<1>2. CASE CountStep
  BY <1>2, CountedRow, RefreshedRow DEF ProgressInv
<1>3. CASE DropStep
  BY <1>3 DEF DropStep, ProgressInv, TypeOK, Jobs
<1> QED BY <1>1, <1>2, <1>3 DEF JobStep

LEMMA OwnedStep ==
  ASSUME ~ AckLoss, ProgressInv, FilesOwned, StepOK
  PROVE  FilesOwned'
<1> USE DEF StepOK
<1>1. ASSUME job'.status \notin JobTerminal
      PROVE  job'.output = NoWorker /\ job'.error = NoWorker
  <2>1. job.status \notin JobTerminal
    BY <1>1, TerminalRowKept
  <2>2. job.output = NoWorker /\ job.error = NoWorker
    BY <2>1 DEF FilesOwned
  <2>3. CASE KeepStep
    BY <2>2, <2>3 DEF KeepStep
  <2>4. CASE CountStep
    BY <2>2, <2>4, CountedRow, RefreshedRow DEF ProgressInv
  <2>5. CASE FinishStep
    BY <1>1, <2>5, AttachedRow, FinalStatusTerminal DEF FinishStep, JobTerminal, ProgressInv
  <2>6. CASE DropStep
    BY <2>2, <2>6 DEF DropStep, ProgressInv, TypeOK, Jobs
  <2> QED BY <2>3, <2>4, <2>5, <2>6 DEF JobStep
<1>2. ASSUME NEW w \in Workers, job'.output = w \/ job'.error = w
      PROVE  phase'[w] \notin {"finalize", "attach", "cleanup"}
  <2>1. job'.status \in JobTerminal
    BY <1>1, <1>2, ConstantsAssumption
  <2>2. CASE job.status \in JobTerminal
    <3>1. phase[w] \notin {"finalize", "attach", "cleanup"}
      BY <1>2, <2>2, TerminalRowKept DEF FilesOwned
    <3> QED BY <2>1, <3>1 DEF PhaseStep, JobTerminal
  <2>3. CASE job.status \notin JobTerminal
    <3>1. PICK v \in Workers :
            /\ \/ job' = Attached(v)
               \/ job'.output = NoWorker /\ job'.error = NoWorker
            /\ phase'[v] = "release_job"
      BY <2>1, <2>3, OnlyFinishEnds DEF FinishStep
    <3>2. w = v
      BY <1>2, <3>1, AttachedRow, ConstantsAssumption DEF ProgressInv
    <3> QED BY <3>1, <3>2
  <2> QED BY <2>2, <2>3
<1> QED BY <1>1, <1>2 DEF FilesOwned

\* Once no item is open the rows do not change any more.
LEMMA RowsFrozen ==
  ASSUME TypeOK, RowStep, With(Open) = {}
  PROVE  /\ With(Open)' = {}
         /\ With({"completed"})' = With({"completed"})
         /\ With({"failed"})' = With({"failed"})
         /\ With({"cancelled"})' = With({"cancelled"})
         /\ With({"failed", "cancelled"})' = With({"failed", "cancelled"})
<1>1. \A i \in Items : status'[i] = status[i]
  BY DEF TypeOK, RowStep, With, ItemStatus
<1> QED BY <1>1 DEF With

\* Without an overtaken refresh, the counters of a finalizing job and what its
\* finalizers have read and written stay exact.
LEMMA ExactStep ==
  ASSUME ProgressInv, ProgressInv', StepOK, ~ overtaken', overtaken \/ RecordsExact
  PROVE  RecordsExact'
<1> USE DEF ProgressInv, StepOK
<1>0. RecordsExact
  BY DEF SnapStep
<1>1. ASSUME job'.status = "finalizing"
      PROVE  Exact(job)'
  <2>1. CASE KeepStep
    <3>1. job.status = "finalizing"
      BY <1>1, <2>1 DEF KeepStep
    <3>2. Exact(job) /\ With(Open) = {}
      BY <1>0, <3>1 DEF RecordsExact, DoneWhenFinal
    <3> QED BY <2>1, <3>2, RowsFrozen DEF KeepStep, Exact
  <2>2. CASE CountStep
    <3>1. job' = Refreshed(status) /\ UNCHANGED status
      BY <2>2, CountedRow
    <3> QED BY <3>1, RefreshedRow DEF Exact, With, TypeOK
  <2>3. CASE FinishStep
    BY <1>1, <2>3, AttachedRow, FinalStatusTerminal DEF FinishStep, JobTerminal
  <2>4. CASE DropStep
    <3>1. /\ job.status = "finalizing" /\ job'.completed = job.completed
          /\ job'.failed = job.failed /\ job'.cancelled = job.cancelled
      BY <1>1, <2>4 DEF DropStep, TypeOK, Jobs
    <3>2. Exact(job) /\ With(Open) = {}
      BY <1>0, <3>1 DEF RecordsExact, DoneWhenFinal
    <3> QED BY <3>1, <3>2, RowsFrozen DEF Exact
  <2> QED BY <2>1, <2>2, <2>3, <2>4 DEF JobStep
<1>2. ASSUME NEW w \in Workers, phase'[w] \in {"finalize", "attach"}
      PROVE  /\ With(Open)' = {}
             /\ Exact(rec[w])'
             /\ rec'[w].cancelled # {} => rec'[w].cancel
  <2>1. CASE phase[w] \in {"finalize", "attach"} /\ rec'[w] = rec[w]
    <3>1. /\ With(Open) = {} /\ Exact(rec[w])
          /\ rec[w].cancelled # {} => rec[w].cancel
      BY <1>0, <2>1 DEF RecordsExact
    <3> QED BY <2>1, <3>1, RowsFrozen DEF Exact
  <2>2. CASE rec'[w] = job' /\ job'.status = "finalizing"
    <3>1. Exact(job)' /\ With(Open)' = {}
      BY <1>1, <2>2 DEF DoneWhenFinal
    <3>2. job'.cancelled # {} => job'.cancel
      BY <3>1 DEF Exact, CancelKnown
    <3> QED BY <2>2, <3>1, <3>2 DEF Exact
  <2> QED BY <1>2, <2>1, <2>2 DEF PhaseStep
<1>3. ASSUME NEW w \in Workers, phase'[w] = "attach"
      PROVE  (artifact[w] = ArtifactsFor(rec[w]))'
  <2>1. rec'[w] = rec[w]
    BY <1>3 DEF PhaseStep
  <2>2. CASE phase[w] = "attach" /\ artifact'[w] = artifact[w]
    <3>1. With(Open) = {} /\ artifact[w] = ArtifactsFor(rec[w])
      BY <1>0, <2>2 DEF RecordsExact
    <3> QED BY <2>1, <2>2, <3>1, RowsFrozen DEF ArtifactsFor
  <2>3. CASE artifact'[w] = ArtifactsFor(rec[w]) /\ UNCHANGED status
    BY <2>1, <2>3 DEF ArtifactsFor, With
  <2> QED BY <1>3, <2>2, <2>3 DEF PhaseStep
<1> QED BY <1>1, <1>2, <1>3 DEF RecordsExact

\* A job that becomes completed has its files: a completed item, an output file
\* with exactly the completed items, and an error file with all the others.
LEMMA AttachedFiles ==
  ASSUME ProgressInv, RecordsExact, Items # {}, NEW w \in Workers, phase[w] = "attach",
         FinalStatus(rec[w]) = "completed"
  PROVE  /\ With({"completed"}) # {}
         /\ artifact[w].output = [exists |-> TRUE, lines |-> With({"completed"})]
         /\ With({"failed", "cancelled"}) # {} =>
              artifact[w].error = [exists |-> TRUE, lines |-> With({"failed", "cancelled"})]
<1>1. /\ With(Open) = {} /\ Exact(rec[w])
      /\ rec[w].cancelled # {} => rec[w].cancel
      /\ artifact[w] = ArtifactsFor(rec[w])
  BY DEF RecordsExact
<1>2. ~ rec[w].cancel /\ (rec[w].completed # {} \/ rec[w].failed = {})
  BY DEF FinalStatus
<1>3. With({"cancelled"}) = {}
  BY <1>1, <1>2 DEF Exact
<1>4. PICK i \in Items : status[i] \in {"completed", "failed", "cancelled"}
  BY <1>1 DEF With, ProgressInv, TypeOK, ItemStatus, Terminal
<1>5. rec[w].completed # {}
  BY <1>1, <1>2, <1>3, <1>4 DEF Exact, With
<1>6. With({"failed", "cancelled"}) # {} => rec[w].failed # {} \/ rec[w].cancelled # {}
  BY <1>1 DEF Exact, With
<1> QED BY <1>1, <1>5, <1>6 DEF Exact, ArtifactsFor, File

LEMMA FilesStep ==
  ASSUME ~ AckLoss, Items # {}, FilesInv, ProgressInv', FilesOwned', StepOK
  PROVE  FilesUnlessOvertaken'
<1> SUFFICES ASSUME ~ overtaken', job'.status = "completed"
             PROVE  CompletedJobHasItsFiles'
  BY DEF FilesUnlessOvertaken, CompletedJobHasItsFiles
<1> USE DEF FilesInv, StepOK
<1>1. ~ overtaken /\ RecordsExact /\ CompletedJobHasItsFiles
  BY DEF SnapStep, FilesUnlessOvertaken
<1>2. With(Open)' = {}
  BY DEF ProgressInv, DoneWhenFinal, JobTerminal
<1>3. CASE job.status \in JobTerminal
  <2>1. job.status = "completed" /\ job'.output = job.output /\ job'.error = job.error
    BY <1>3, TerminalRowKept
  <2>2. With(Open) = {}
    BY <1>3 DEF ProgressInv, DoneWhenFinal
  <2>3. \A w \in Workers : job.output = w \/ job.error = w => artifact'[w] = artifact[w]
    BY DEF FilesOwned, PhaseStep
  <2>4. job.output \in Workers \cup {NoWorker} /\ job.error \in Workers \cup {NoWorker}
    BY DEF ProgressInv, TypeOK, Jobs
  <2> QED BY <1>1, <2>1, <2>2, <2>3, <2>4, RowsFrozen DEF CompletedJobHasItsFiles,
             ProgressInv
<1>4. CASE job.status \notin JobTerminal
  <2>1. PICK w \in Workers :
          /\ phase[w] = "attach" /\ job' = Attached(w)
          /\ UNCHANGED <<status, artifact>>
    BY <1>4, OnlyFinishEnds DEF FinishStep, JobTerminal
  <2>2. /\ FinalStatus(rec[w]) = "completed"
        /\ job'.output = IF artifact[w].output.exists THEN w ELSE NoWorker
        /\ job'.error = IF artifact[w].error.exists THEN w ELSE NoWorker
    BY <2>1, AttachedRow DEF ProgressInv
  <2>3. /\ With({"completed"}) # {}
        /\ artifact[w].output = [exists |-> TRUE, lines |-> With({"completed"})]
        /\ With({"failed", "cancelled"}) # {} =>
             artifact[w].error = [exists |-> TRUE, lines |-> With({"failed", "cancelled"})]
    BY <1>1, <2>1, <2>2, AttachedFiles
  <2>4. w # NoWorker
    BY ConstantsAssumption
  <2> QED BY <2>1, <2>2, <2>3, <2>4 DEF CompletedJobHasItsFiles, With
<1> QED BY <1>3, <1>4

-----------------------------------------------------------------------------
(* The theorems.                                                           *)

LEMMA InitFiles == Init => FilesInv
<1> SUFFICES ASSUME Init PROVE FilesInv
  OBVIOUS
<1>1. TypeOK
  BY DEF Init, TypeOK, ItemStatus, Open, NewJob, Jobs, JobOpen, Lease, NoArtifacts,
     NoFile, Files, Phases, NoSnap
<1>2. LapsedRunning /\ SnapsBehind
  BY DEF Init, LapsedRunning, SnapsBehind, NoSnap, Terminal
<1>3. CancelKnown /\ ProgressNotOverstated /\ DoneWhenFinal
  BY DEF Init, Actors, CancelKnown, ProgressNotOverstated, DoneWhenFinal, NewJob, With,
     JobTerminal
<1>4. FilesOwned /\ RecordsExact
  BY DEF Init, Actors, FilesOwned, RecordsExact, NewJob
<1>5. FilesUnlessOvertaken
  BY DEF Init, NewJob, FilesUnlessOvertaken, CompletedJobHasItsFiles
<1> QED BY <1>1, <1>2, <1>3, <1>4, <1>5 DEF FilesInv, ProgressInv

\* The progress invariant is inductive: every worker, sweeper, operator and
\* clock step of batch jobs keeps it.
THEOREM ProgressInvariance == Spec => []ProgressInv
<1>1. Init => ProgressInv
  BY InitFiles DEF FilesInv
<1>2. ProgressInv /\ [Next]_vars => ProgressInv'
  BY NextStepOK, ProgressStep
<1> QED BY <1>1, <1>2, PTL DEF Spec

\* Every reachable state of batch jobs is well typed.
THEOREM TypeSafe == Spec => []TypeOK
<1>1. ProgressInv => TypeOK
  BY DEF ProgressInv
<1> QED BY <1>1, ProgressInvariance, PTL

\* A finalizing job has no open item, whichever of the overlapping refreshes
\* of refresh_job_progress was applied last.
THEOREM FinalizingSafe == Spec => []FinalizingMeansDone
<1>1. ProgressInv => FinalizingMeansDone
  BY DEF ProgressInv, DoneWhenFinal, FinalizingMeansDone
<1> QED BY <1>1, ProgressInvariance, PTL

\* The counters never claim more than has happened, whichever refresh was
\* applied last.
THEOREM ProgressSafe == Spec => []ProgressNotOverstated
<1>1. ProgressInv => ProgressNotOverstated
  BY DEF ProgressInv
<1> QED BY <1>1, ProgressInvariance, PTL

\* The invariant behind the files of a job, for a database that does not lose
\* the answer of a committed attach_artifacts_and_finalize.
THEOREM FilesInvariance ==
  ASSUME ~ AckLoss, Items # {}
  PROVE  Spec => []FilesInv
<1>1. FilesInv /\ [Next]_vars => FilesInv'
  <2> SUFFICES ASSUME FilesInv, [Next]_vars PROVE FilesInv'
    OBVIOUS
  <2>1. StepOK
    BY NextStepOK DEF FilesInv
  <2>2. ProgressInv'
    BY <2>1, ProgressStep DEF FilesInv
  <2>3. FilesOwned'
    BY <2>1, OwnedStep DEF FilesInv
  <2>4. overtaken' \/ RecordsExact'
    BY <2>1, <2>2, ExactStep DEF FilesInv
  <2>5. FilesUnlessOvertaken'
    BY <2>1, <2>2, <2>3, FilesStep
  <2> QED BY <2>2, <2>3, <2>4, <2>5 DEF FilesInv
<1> QED BY <1>1, InitFiles, PTL DEF Spec

\* A completed job has an output file with exactly the completed items and an
\* error file with all the others, unless a refresh was overtaken: a second
\* finalizer that lost the race deletes only what it wrote itself.
THEOREM FilesSafe ==
  ASSUME ~ AckLoss, Items # {}
  PROVE  Spec => []FilesUnlessOvertaken
<1>1. FilesInv => FilesUnlessOvertaken
  BY DEF FilesInv
<1> QED BY <1>1, FilesInvariance, PTL

\* No late refresh, cancel request, repair or second finalizer changes the
\* status or the files of a terminal job.
THEOREM TerminalSafe ==
  ASSUME ~ AckLoss
  PROVE  Spec => TerminalJobIsFinal
<1> DEFINE OwnedInv == ProgressInv /\ FilesOwned
<1>1. Init => OwnedInv
  BY InitFiles DEF FilesInv
<1>2. OwnedInv /\ [Next]_vars => OwnedInv'
  BY NextStepOK, ProgressStep, OwnedStep
<1>3. OwnedInv /\ [Next]_vars =>
        [job.status \in JobTerminal =>
           /\ job'.status = job.status
           /\ job'.output = job.output
           /\ job'.error = job.error]_vars
  <2> SUFFICES ASSUME OwnedInv, [Next]_vars, job.status \in JobTerminal
               PROVE  /\ job'.status = job.status
                      /\ job'.output = job.output
                      /\ job'.error = job.error
    OBVIOUS
  <2>1. StepOK
    BY NextStepOK
  <2> QED BY <2>1, TerminalRowKept DEF StepOK
<1> QED BY <1>1, <1>2, <1>3, PTL DEF Spec, TerminalJobIsFinal
=============================================================================
