---------------------------- MODULE Invitations ----------------------------
(***************************************************************************)
(* Invitations of one account to one scope: services/invitation_service.py *)
(* over the invitation and token rows. Sending and accepting are database  *)
(* transactions (READ COMMITTED: a statement sees what is committed when   *)
(* it starts, waits for row locks and checks its condition again);         *)
(* cancelling is not.                                                      *)
(***************************************************************************)
EXTENDS Integers, FiniteSets, FiniteSetsExt

CONSTANTS
    Senders,        \* create and resend requests
    Guests,         \* accept requests
    Cancellers,     \* cancel requests
    MaxInvitations, \* bound on the invitation rows
    MaxTokens       \* bound on the tokens ever issued

VARIABLES
    status,         \* status of each invitation row, "none" if absent
    due,            \* the row's expiry time has passed
    token,          \* each token: its invitation and whether it is usable
    sender, guest, canceller,
    granted,        \* history: acceptances of each invitation
    cancelled,      \* history: cancellations of each invitation
    reopened        \* history: closed invitations sent again by a stale sender

invitationVars ==
    <<status, due, token, sender, guest, canceller, granted, cancelled, reopened>>

Ids == 1..MaxInvitations
TokenIds == 1..MaxTokens
Open == {"pending", "sent"}
Closed == {"accepted", "cancelled"}
Issued == {t \in TokenIds : token[t].of # 0}
Usable(t) == token[t].active /\ ~due[token[t].of]

IdleActor == [step |-> "idle", of |-> 0, token |-> 0]

\* Row locks held by transactions under way.
InvitationLocked(i) == \E s \in Senders : sender[s].step = "updated" /\ sender[s].of = i
TokenLocked(t) == \E g \in Guests : guest[g].step = "claimed" /\ guest[g].token = t

InvitationTypeOK ==
    /\ status \in [Ids -> {"none", "pending", "sent", "accepted", "cancelled", "expired"}]
    /\ due \in [Ids -> BOOLEAN]
    /\ token \in [TokenIds -> [of : 0..MaxInvitations, active : BOOLEAN]]
    /\ \A s \in Senders : sender[s].step \in {"idle", "manage", "begin", "listed", "updated"}
    /\ \A g \in Guests : guest[g].step \in {"idle", "checked", "claimed"}
    /\ \A c \in Cancellers : canceller[c].step \in {"idle", "manage", "tokens", "mark"}

InvitationInit ==
    /\ status = [i \in Ids |-> "none"] /\ due = [i \in Ids |-> FALSE]
    /\ token = [t \in TokenIds |-> [of |-> 0, active |-> FALSE]]
    /\ sender = [s \in Senders |-> IdleActor]
    /\ guest = [g \in Guests |-> IdleActor]
    /\ canceller = [c \in Cancellers |-> IdleActor]
    /\ granted = [i \in Ids |-> 0] /\ cancelled = [i \in Ids |-> 0]
    /\ reopened = [i \in Ids |-> 0]

history == <<granted, cancelled, reopened>>

\* The tokens of an invitation are consumed, but for one.
Consumed(i, except) ==
    [t \in TokenIds |-> IF token[t].of = i /\ t # except THEN [token[t] EXCEPT !.active = FALSE] ELSE token[t]]

\* invalidate_active_tokens has to wait for a token claimed by a guest.
TokensFree(i) == \A t \in Issued : token[t].of = i /\ Usable(t) => ~TokenLocked(t)

TimePasses(i) ==
    /\ status[i] \in Open /\ ~due[i]
    /\ due' = [due EXCEPT ![i] = TRUE]
    /\ UNCHANGED <<status, token, sender, guest, canceller, history>>

-----------------------------------------------------------------------------
(* create_invitation and resend_invitation *)

Create(s) ==
    /\ sender[s].step = "idle"
    /\ sender' = [sender EXCEPT ![s].step = "begin"]
    /\ UNCHANGED <<status, due, token, guest, canceller, history>>

\* _require_manageable_invitation reads the row; an overdue one is marked
\* expired and its tokens consumed first (_expire_if_needed). Its tokens are
\* past their time too, so nobody can hold one of them locked.
ExpireIfNeeded(i) ==
    LET expire == status[i] \in Open /\ due[i] IN
    /\ status' = IF expire THEN [status EXCEPT ![i] = "expired"] ELSE status
    /\ token' = IF expire THEN Consumed(i, 0) ELSE token

Resend(s, i) ==
    /\ sender[s].step = "idle" /\ status[i] \notin Closed \cup {"none"}
    /\ ~InvitationLocked(i)
    /\ ExpireIfNeeded(i)
    /\ sender' = [sender EXCEPT ![s].step = "begin"]
    /\ UNCHANGED <<due, guest, canceller, history>>

\* In the transaction: the newest open invitation for the same scope.
ListPending(s) ==
    LET open == {i \in Ids : status[i] \in Open} IN
    /\ sender[s].step = "begin"
    /\ sender' = [sender EXCEPT ![s] = [step |-> "listed", of |-> IF open = {} THEN 0 ELSE Max(open), token |-> 0]]
    /\ UNCHANGED <<status, due, token, guest, canceller, history>>

\* update_pending, by id and whatever the status is by now; or a new row.
UpdatePending(s) ==
    LET i == sender[s].of
        fresh == 1 + Max({j \in Ids : status[j] # "none"} \cup {0})
    IN
    /\ sender[s].step = "listed"
    /\ IF i # 0
          THEN /\ ~InvitationLocked(i)
               /\ sender' = [sender EXCEPT ![s].step = "updated"]
               /\ UNCHANGED status
          ELSE /\ fresh \in Ids
               /\ sender' = [sender EXCEPT ![s] = [step |-> "updated", of |-> fresh, token |-> 0]]
               /\ status' = [status EXCEPT ![fresh] = "pending"]
    /\ UNCHANGED <<due, token, guest, canceller, history>>

\* The token is issued, the mail queued, the row marked sent, the other
\* tokens consumed; then the transaction commits.
CommitSent(s) ==
    LET i == sender[s].of IN
    /\ sender[s].step = "updated" /\ TokensFree(i)
    /\ \E t \in TokenIds \ Issued :
          /\ t = 1 + Cardinality(Issued)
          /\ token' = [Consumed(i, t) EXCEPT ![t] = [of |-> i, active |-> TRUE]]
    /\ status' = [status EXCEPT ![i] = "sent"] /\ due' = [due EXCEPT ![i] = FALSE]
    /\ reopened' = IF status[i] \in Closed THEN [reopened EXCEPT ![i] = @ + 1] ELSE reopened
    /\ sender' = [sender EXCEPT ![s] = IdleActor]
    /\ UNCHANGED <<guest, canceller, granted, cancelled>>

\* The mail cannot be queued (a suppressed recipient), the instance stops,
\* or the database breaks a deadlock: everything is rolled back.
SendFails(s) ==
    /\ sender[s].step # "idle"
    /\ status' = IF sender[s].step = "updated" /\ status[sender[s].of] = "pending"
                    THEN [status EXCEPT ![sender[s].of] = "none"] ELSE status
    /\ sender' = [sender EXCEPT ![s] = IdleActor]
    /\ UNCHANGED <<due, token, guest, canceller, history>>

-----------------------------------------------------------------------------
(* accept_invitation *)

\* The token is valid and the invitation open.
Check(g, t) ==
    /\ guest[g].step = "idle" /\ t \in Issued /\ Usable(t)
    /\ status[token[t].of] \in Open
    /\ guest' = [guest EXCEPT ![g] = [step |-> "checked", of |-> token[t].of, token |-> t]]
    /\ UNCHANGED <<status, due, token, sender, canceller, history>>

\* claim_token: the row is locked until the transaction ends.
Claim(g) ==
    LET t == guest[g].token IN
    /\ guest[g].step = "checked" /\ ~TokenLocked(t)
    /\ guest' = [guest EXCEPT ![g] = IF Usable(t) THEN [@ EXCEPT !.step = "claimed"] ELSE IdleActor]
    /\ UNCHANGED <<status, due, token, sender, canceller, history>>

\* Faulty variant: mark_accepted without a condition on the status.
AcceptableAnyway(i) == TRUE

Acceptable(i) == status[i] \in Open

\* The memberships are written, the account activated, the other tokens
\* consumed; mark_accepted is conditional, and nothing happens if it fails.
CommitAccepted(g) ==
    LET i == guest[g].of
        ok == Acceptable(i)
    IN
    /\ guest[g].step = "claimed" /\ ~InvitationLocked(i)
    /\ \A t \in Issued : token[t].of = i /\ Usable(t) /\ TokenLocked(t) => t = guest[g].token
    /\ status' = IF ok THEN [status EXCEPT ![i] = "accepted"] ELSE status
    /\ token' = IF ok THEN Consumed(i, 0) ELSE token
    /\ granted' = IF ok THEN [granted EXCEPT ![i] = @ + 1] ELSE granted
    /\ guest' = [guest EXCEPT ![g] = IdleActor]
    /\ UNCHANGED <<due, sender, canceller, cancelled, reopened>>

AcceptFails(g) ==
    /\ guest[g].step # "idle"
    /\ guest' = [guest EXCEPT ![g] = IdleActor]
    /\ UNCHANGED <<status, due, token, sender, canceller, history>>

-----------------------------------------------------------------------------
(* cancel_invitation: three statements *)

Cancel(c, i) ==
    /\ canceller[c].step = "idle" /\ status[i] \notin Closed \cup {"none"}
    /\ ~InvitationLocked(i)
    /\ ExpireIfNeeded(i)
    /\ canceller' = [canceller EXCEPT ![c] = [step |-> "tokens", of |-> i, token |-> 0]]
    /\ UNCHANGED <<due, sender, guest, history>>

CancelTokens(c) ==
    LET i == canceller[c].of IN
    /\ canceller[c].step = "tokens" /\ TokensFree(i)
    /\ token' = Consumed(i, 0)
    /\ canceller' = [canceller EXCEPT ![c].step = "mark"]
    /\ UNCHANGED <<status, due, sender, guest, history>>

MarkCancelled(c) ==
    LET i == canceller[c].of
        ok == status[i] \in Open \cup {"expired"}
    IN
    /\ canceller[c].step = "mark" /\ ~InvitationLocked(i)
    /\ status' = IF ok THEN [status EXCEPT ![i] = "cancelled"] ELSE status
    /\ cancelled' = IF ok THEN [cancelled EXCEPT ![i] = @ + 1] ELSE cancelled
    /\ canceller' = [canceller EXCEPT ![c] = IdleActor]
    /\ UNCHANGED <<due, token, sender, guest, granted, reopened>>

CancelFails(c) ==
    /\ canceller[c].step # "idle"
    /\ canceller' = [canceller EXCEPT ![c] = IdleActor]
    /\ UNCHANGED <<status, due, token, sender, guest, history>>

InvitationNext ==
    \/ \E i \in Ids : TimePasses(i)
    \/ \E s \in Senders :
          \/ Create(s) \/ ListPending(s) \/ UpdatePending(s) \/ CommitSent(s) \/ SendFails(s)
          \/ \E i \in Ids : Resend(s, i)
    \/ \E g \in Guests :
          \/ Claim(g) \/ CommitAccepted(g) \/ AcceptFails(g)
          \/ \E t \in TokenIds : Check(g, t)
    \/ \E c \in Cancellers :
          \/ CancelTokens(c) \/ MarkCancelled(c) \/ CancelFails(c)
          \/ \E i \in Ids : Cancel(c, i)

InvitationSpec == InvitationInit /\ [][InvitationNext]_invitationVars

-----------------------------------------------------------------------------
(* An invitation is closed once: it is accepted or cancelled, and not both *)
(* or twice, whatever requests for it overlap, unless a sender that had    *)
(* found it open sends it again (accept_invitation, cancel_invitation,     *)
(* update_pending).                                                        *)
ClosedOnce == \A i \in Ids : granted[i] + cancelled[i] <= 1 + reopened[i]
=============================================================================
