----------------------------- MODULE EmailOutbox -----------------------------
(***************************************************************************)
(* The email outbox (services/email_outbox_service.py over db/email.py)    *)
(* and the suppression list fed by provider webhooks                       *)
(* (services/email_feedback_service.py). Each instance runs one worker; a  *)
(* row being sent has no lease, and nothing in the worker's loop catches   *)
(* an error of its own bookkeeping.                                        *)
(***************************************************************************)
EXTENDS Integers, FiniteSets

CONSTANTS
    Mails,              \* outbox rows
    Addresses,          \* recipients
    Workers,            \* EmailOutboxWorker, one per instance
    MaxAttempts,        \* email_max_attempts
    MaxEmailFaults      \* bound on crashes and failed status writes

VARIABLES
    mail,               \* the row: status, attempts, recipients, due
    suppressed,         \* addresses on the suppression list
    bounce,             \* webhook handling per address: event row, request
    worker,             \* the worker's task: "up", "ended", "down"
    holder,             \* who is sending the row, and where it is
    faults,
    stranded            \* history: mails whose status write was lost with the
                        \* worker

emailVars == <<mail, suppressed, bounce, worker, holder, faults, stranded>>

NoWorker == [w |-> "none", step |-> "none"]
Settled == {"sent", "failed", "cancelled"}

EmailTypeOK ==
    /\ mail \in [Mails -> [status : {"none", "queued", "sending", "retrying"} \cup Settled,
                           attempts : 0..MaxAttempts + 1, to : SUBSET Addresses, due : BOOLEAN]]
    /\ suppressed \subseteq Addresses
    /\ bounce \in [Addresses -> [event : BOOLEAN, handling : BOOLEAN]]
    /\ worker \in [Workers -> {"up", "ended", "down"}]
    /\ \A m \in Mails : holder[m].step \in {"none", "filter", "send", "mark", "error"}
    /\ faults \in 0..MaxEmailFaults

EmailInit ==
    /\ mail = [m \in Mails |-> [status |-> "none", attempts |-> 0, to |-> {}, due |-> FALSE]]
    /\ suppressed = {}
    /\ bounce = [a \in Addresses |-> [event |-> FALSE, handling |-> FALSE]]
    /\ worker = [w \in Workers |-> "up"]
    /\ holder = [m \in Mails |-> NoWorker]
    /\ faults = 0
    /\ stranded = {}

Held(w) == {m \in Mails : holder[m].w = w}
In(m, step) == holder[m].step = step
Step(m, step) == holder' = [holder EXCEPT ![m].step = step]
Done(m) == holder' = [holder EXCEPT ![m] = NoWorker]

-----------------------------------------------------------------------------
\* enqueue_template_email: suppressed recipients are left out; with none left
\* the row is stored as cancelled.
EnqueueTemplateEmail(m, to) ==
    /\ mail[m].status = "none" /\ to # {}
    /\ mail' = [mail EXCEPT ![m] =
         [status |-> IF to \subseteq suppressed THEN "cancelled" ELSE "queued",
          attempts |-> 0, to |-> to \ suppressed, due |-> TRUE]]
    /\ UNCHANGED <<suppressed, bounce, worker, holder, faults, stranded>>

\* claim_due: queued or retrying rows whose time has come.
Claimable(m) == mail[m].status \in {"queued", "retrying"} /\ mail[m].due

\* The worker claims every due row when it has finished its last batch.
ClaimDue(w) ==
    LET due == {m \in Mails : Claimable(m)} IN
    /\ worker[w] = "up" /\ Held(w) = {} /\ due # {}
    /\ mail' = [m \in Mails |-> IF m \in due
                  THEN [mail[m] EXCEPT !.status = "sending",
                          !.attempts = IF @ > MaxAttempts THEN @ ELSE @ + 1]
                  ELSE mail[m]]
    /\ holder' = [m \in Mails |-> IF m \in due THEN [w |-> w, step |-> "filter"] ELSE holder[m]]
    /\ UNCHANGED <<suppressed, bounce, worker, faults, stranded>>

\* claim_due raises: nothing catches it, and the worker's task ends.
ClaimDueFails(w) ==
    /\ worker[w] = "up" /\ Held(w) = {} /\ faults < MaxEmailFaults /\ faults' = faults + 1
    /\ worker' = [worker EXCEPT ![w] = "ended"]
    /\ UNCHANGED <<mail, suppressed, bounce, holder, stranded>>

\* A retry's delay passes.
BecomesDue(m) ==
    /\ mail[m].status = "retrying" /\ ~mail[m].due
    /\ mail' = [mail EXCEPT ![m].due = TRUE]
    /\ UNCHANGED <<suppressed, bounce, worker, holder, faults, stranded>>

\* _reapply_suppressions: the recipients left are stored; none left cancels.
ReapplySuppressions(m) ==
    /\ In(m, "filter")
    /\ mail' = [mail EXCEPT ![m].to = @ \ suppressed,
                            ![m].status = IF mail[m].to \subseteq suppressed THEN "cancelled" ELSE @]
    /\ IF mail[m].to \subseteq suppressed THEN Done(m) ELSE Step(m, "send")
    /\ UNCHANGED <<suppressed, bounce, worker, faults, stranded>>

\* send_prepared_email: taken by the provider, or refused; a time-out after
\* the provider took the mail is refused to the worker.
SendPreparedEmail(m, outcome) ==
    /\ In(m, "send")
    /\ Step(m, IF outcome = "taken" THEN "mark" ELSE "error")
    /\ UNCHANGED <<mail, suppressed, bounce, worker, faults, stranded>>

MarkSent(m) ==
    /\ In(m, "mark") /\ Done(m)
    /\ mail' = [mail EXCEPT ![m].status = "sent"]
    /\ UNCHANGED <<suppressed, bounce, worker, faults, stranded>>

\* mark_sent itself fails: the sent mail is handled as a failed one.
MarkSentFails(m) ==
    /\ In(m, "mark") /\ faults < MaxEmailFaults /\ faults' = faults + 1
    /\ Step(m, "error")
    /\ UNCHANGED <<mail, suppressed, bounce, worker, stranded>>

\* _should_retry: attempts left (and a retriable error).
\* Faulty variant: the attempts are not counted.
AttemptsLeftAlways(m) == TRUE
AttemptsLeft(m) == mail[m].attempts < MaxAttempts

MarkRetry(m) ==
    /\ In(m, "error") /\ AttemptsLeft(m) /\ Done(m)
    /\ mail' = [mail EXCEPT ![m].status = "retrying", ![m].due = FALSE]
    /\ UNCHANGED <<suppressed, bounce, worker, faults, stranded>>

\* Attempts used up, a permanent refusal or a configuration error.
MarkFailed(m, permanent) ==
    /\ In(m, "error") /\ (permanent \/ ~AttemptsLeft(m)) /\ Done(m)
    /\ mail' = [mail EXCEPT ![m].status = "failed"]
    /\ UNCHANGED <<suppressed, bounce, worker, faults, stranded>>

\* mark_retry or mark_failed fails: the error leaves gather and ends run();
\* the rows of the batch still being sent go on.
MarkErrorFails(m) ==
    /\ In(m, "error") /\ faults < MaxEmailFaults /\ faults' = faults + 1
    /\ worker' = [worker EXCEPT ![holder[m].w] = "ended"]
    /\ Done(m) /\ stranded' = stranded \cup {m}
    /\ UNCHANGED <<mail, suppressed, bounce>>

\* The process dies with the mails it was sending.
WorkerCrash(w) ==
    /\ worker[w] # "down" /\ faults < MaxEmailFaults /\ faults' = faults + 1
    /\ worker' = [worker EXCEPT ![w] = "down"]
    /\ holder' = [m \in Mails |-> IF m \in Held(w) THEN NoWorker ELSE holder[m]]
    /\ stranded' = stranded \cup Held(w)
    /\ UNCHANGED <<mail, suppressed, bounce>>

WorkerStart(w) ==
    /\ worker[w] = "down" /\ worker' = [worker EXCEPT ![w] = "up"]
    /\ UNCHANGED <<mail, suppressed, bounce, holder, faults, stranded>>

-----------------------------------------------------------------------------
\* handle_resend_webhook: the event row is inserted; a known event is a
\* duplicate and nothing more happens.
CreateWebhookEvent(a) ==
    /\ ~bounce[a].event
    /\ bounce' = [bounce EXCEPT ![a] = [event |-> TRUE, handling |-> TRUE]]
    /\ UNCHANGED <<mail, suppressed, worker, holder, faults, stranded>>

\* Only the request that inserted the event suppresses the address; if it
\* fails before that, a redelivery finds the event and does nothing.
UpsertSuppression(a, fails) ==
    /\ bounce[a].handling
    /\ bounce' = [bounce EXCEPT ![a].handling = FALSE]
    /\ IF fails THEN faults < MaxEmailFaults /\ faults' = faults + 1 /\ UNCHANGED suppressed
                ELSE suppressed' = suppressed \cup {a} /\ UNCHANGED faults
    /\ UNCHANGED <<mail, worker, holder, stranded>>

EmailNext ==
    \/ \E w \in Workers : ClaimDue(w) \/ ClaimDueFails(w) \/ WorkerCrash(w) \/ WorkerStart(w)
    \/ \E m \in Mails :
         \/ \E to \in SUBSET Addresses : EnqueueTemplateEmail(m, to)
         \/ BecomesDue(m) \/ ReapplySuppressions(m)
         \/ \E o \in {"taken", "refused"} : SendPreparedEmail(m, o)
         \/ MarkSent(m) \/ MarkSentFails(m) \/ MarkRetry(m) \/ MarkErrorFails(m)
         \/ \E p \in BOOLEAN : MarkFailed(m, p)
    \/ \E a \in Addresses : CreateWebhookEvent(a) \/ \E f \in BOOLEAN : UpsertSuppression(a, f)

\* A worker that is up polls and gets through its batch, delays pass, and a
\* process that died is started again; a worker whose task ended is not.
EmailFairness ==
    /\ \A w \in Workers : WF_emailVars(ClaimDue(w)) /\ WF_emailVars(WorkerStart(w))
    /\ \A m \in Mails :
         /\ WF_emailVars(BecomesDue(m)) /\ WF_emailVars(ReapplySuppressions(m))
         /\ WF_emailVars(\E o \in {"taken", "refused"} : SendPreparedEmail(m, o))
         /\ WF_emailVars(MarkSent(m) \/ MarkRetry(m) \/ \E p \in BOOLEAN : MarkFailed(m, p))

EmailSpec == EmailInit /\ [][EmailNext]_emailVars /\ EmailFairness

-----------------------------------------------------------------------------
(* A queued mail is eventually sent, failed or cancelled, unless its status  *)
(* write was lost with its worker or every worker's task has ended.          *)
MailSettles ==
    \A m \in Mails :
        mail[m].status = "queued" ~>
            \/ mail[m].status \in Settled
            \/ m \in stranded
            \/ \A w \in Workers : worker[w] = "ended"
=============================================================================
