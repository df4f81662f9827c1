--------------------------- MODULE MCServicesLive ---------------------------
(***************************************************************************)
(* What must eventually happen in the services around the batch pipeline:  *)
(* the scheduler serves every tenant, an edited prompt reaches every       *)
(* instance, a queued mail is settled. The components share no state, so a *)
(* behaviour takes the steps of one of them (`focus`); the others stay in  *)
(* their initial state.                                                    *)
(***************************************************************************)
EXTENDS Integers

CONSTANTS NoTenant

VARIABLES
    focus,
    \* BatchScheduler
    status, queue, deficit, recency, pc, next, taken, tx, revived, claimFaults,
    \* PromptCache: a prompt on two instances, and all entries on one
    source, l1, l2, known, reader, editing, edits,
    source1, l11, l21, known1, reader1, editing1, edits1,
    \* EmailOutbox
    mail, suppressed, bounce, worker, holder, faults, stranded

schedulerVars == <<status, queue, deficit, recency, pc, next, taken, tx, revived, claimFaults>>
promptVars == <<source, l1, l2, known, reader, editing, edits>>
bindingVars == <<source1, l11, l21, known1, reader1, editing1, edits1>>
emailVars == <<mail, suppressed, bounce, worker, holder, faults, stranded>>
vars == <<focus, schedulerVars, promptVars, bindingVars, emailVars>>

-----------------------------------------------------------------------------
\* A tenant with two small items, and one with a larger item: one worker.
SchedulerItems == {1, 2, 3}
Scheduler == INSTANCE BatchScheduler WITH
    FairWorkers <- {"w1"}, CapacityWorkers <- {}, Tenants <- {1, 2}, Jobs <- {1, 2},
    TenantOf <- [j \in {1, 2} |-> j], Items <- SchedulerItems,
    JobOf <- [i \in SchedulerItems |-> IF i = 3 THEN 2 ELSE 1],
    Units <- [i \in SchedulerItems |-> IF i = 3 THEN 2 ELSE 1],
    SizeAware <- FALSE, Dual <- TRUE, MaxItems <- 2, MaxWork <- 2, TenantMax <- 2, Quantum <- 1,
    Multiplier <- 2, MaxInFlight <- 1, MaxFaults <- 1, faults <- claimFaults

Prompts == INSTANCE PromptCache WITH Pods <- {"p1", "p2"}, Entries <- {"prompt"}, MaxEdits <- 1

Bindings == INSTANCE PromptCache WITH
    Pods <- {"p1"}, Entries <- {"prompt", "binding", "group_default"}, MaxEdits <- 2,
    source <- source1, l1 <- l11, l2 <- l21, known <- known1, reader <- reader1,
    editing <- editing1, edits <- edits1

Email == INSTANCE EmailOutbox WITH
    Mails <- {"m1", "m2"}, Addresses <- {"a1"}, Workers <- {"w1", "w2"}, MaxAttempts <- 2,
    MaxEmailFaults <- 2

-----------------------------------------------------------------------------
Init ==
    /\ focus \in {"scheduler", "prompts", "bindings", "email"}
    /\ Scheduler!Init /\ Prompts!PromptInit /\ Bindings!PromptInit /\ Email!EmailInit

Next ==
    /\ UNCHANGED focus
    /\ \/ /\ focus = "scheduler" /\ Scheduler!Next
          /\ UNCHANGED <<promptVars, bindingVars, emailVars>>
       \/ /\ focus = "prompts" /\ Prompts!PromptNext
          /\ UNCHANGED <<schedulerVars, bindingVars, emailVars>>
       \/ /\ focus = "bindings" /\ Bindings!PromptNext
          /\ UNCHANGED <<schedulerVars, promptVars, emailVars>>
       \/ /\ focus = "email" /\ Email!EmailNext
          /\ UNCHANGED <<schedulerVars, promptVars, bindingVars>>

\* The fairness of the components. In its initial state only the scheduler
\* has a step that would have to happen.
Fairness ==
    /\ \A w \in {"w1"} : WF_schedulerVars(focus = "scheduler" /\ Scheduler!WorkerStep(w))
    /\ \A i \in SchedulerItems : WF_schedulerVars(focus = "scheduler" /\ Scheduler!Finish(i))
    /\ Prompts!PromptFairness /\ Bindings!PromptFairness /\ Email!EmailFairness

Spec == Init /\ [][Next]_vars /\ Fairness

-----------------------------------------------------------------------------
\* A tenant with runnable work is served in the end (BatchScheduler,
\* job_repository.py: deficit round robin).
NoTenantStarves == focus = "scheduler" => Scheduler!NoTenantStarves

\* An edit of a prompt, a binding or a group's default reaches every instance
\* (services/prompt_registry.py).
EditsReachEveryone == Prompts!EditsReachEveryone /\ Bindings!EditsReachEveryone

\* A queued mail is sent, failed or cancelled, unless its status write or all
\* workers were lost (services/email_outbox_service.py).
MailSettles == Email!MailSettles
=============================================================================
