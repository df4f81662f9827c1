------------------------------ MODULE Sessions ------------------------------
(***************************************************************************)
(* The sessions of one platform account: api/auth.py and                   *)
(* services/platform_identity_service.py over the account, session and     *)
(* reset-token rows and the SSO state kept in Redis. Logins, password      *)
(* changes, MFA enrolment and the administrator's password change are      *)
(* sequences of separate statements; asking for a reset link and resetting *)
(* are transactions whose effects, and row locks, end at the commit.       *)
(***************************************************************************)
EXTENDS Integers, FiniteSets

CONSTANTS
    Clients,        \* concurrent requests
    MaxPasswords,   \* bound on the passwords the account ever has
    MaxSessions,    \* bound on the session rows
    MaxLinks,       \* bound on the reset tokens
    MaxSecrets      \* bound on the TOTP secrets generated

VARIABLES
    account,        \* active flag, password, TOTP secret and pending secret
    session,        \* session rows
    link,           \* reset tokens
    ssoState,       \* a PKCE verifier is stored under the browser's state
    client,         \* what each request is doing
    passwords,      \* passwords set so far: the next one is passwords + 1
    secrets,        \* secrets generated so far
    lastReset       \* history: the newest password set by a completed reset

sessionVars ==
    <<account, session, link, ssoState, client, passwords, secrets, lastReset>>

SessionIds == 1..MaxSessions
LinkIds == 1..MaxLinks

\* `late`, `spared`: history, the login ran across a reset's revocation.
IdleClient == [step |-> "idle", saw |-> 0, of |-> 0, late |-> FALSE,
               set |-> 0, revoked |-> {}, links |-> {}]
NoSession == [state |-> "none", saw |-> 0, delivered |-> FALSE,
              verified |-> FALSE, spared |-> FALSE]

SessionTypeOK ==
    /\ account \in [active : BOOLEAN, password : 1..MaxPasswords,
                    secret : 0..MaxSecrets, pending : 0..MaxSecrets]
    /\ session \in [SessionIds -> [state : {"none", "open", "ended"}, saw : 0..MaxPasswords,
                                   delivered : BOOLEAN, verified : BOOLEAN, spared : BOOLEAN]]
    /\ link \in [LinkIds -> {"none", "active", "used"}]
    /\ ssoState \in BOOLEAN
    /\ passwords \in 1..MaxPasswords /\ secrets \in 0..MaxSecrets
    /\ lastReset \in 0..MaxPasswords

SessionInit ==
    /\ account = [active |-> TRUE, password |-> 1, secret |-> 0, pending |-> 0]
    /\ session = [s \in SessionIds |-> NoSession]
    /\ link = [l \in LinkIds |-> "none"]
    /\ ssoState = FALSE
    /\ client = [c \in Clients |-> IdleClient]
    /\ passwords = 1 /\ secrets = 0 /\ lastReset = 0

\* Transactions under way, and the rows they have locked.
Resetting == {c \in Clients : client[c].step = "reset"}
Issuing == {c \in Clients : client[c].step = "issue"}
AccountFree == Resetting = {}
LinksFree(ls) == \A c \in Resetting \cup Issuing : client[c].links \cap ls = {}

ActiveLinks == {l \in LinkIds : link[l] = "active"}
OpenSessions == {s \in SessionIds : session[s].state = "open"}

\* get_context_for_session: not revoked, not expired, account active.
Accepted(s) == session[s].state = "open" /\ account.active

Became(c, r) == client' = [client EXCEPT ![c] = r]
At(c, step) == client[c].step = step

-----------------------------------------------------------------------------
(* Opening a session *)

\* login_internal up to the session: account active, password (and code) right.
LoginInternal(c) ==
    /\ At(c, "idle") /\ account.active
    /\ Became(c, [IdleClient EXCEPT !.step = "checked", !.saw = account.password,
                                    !.of = IF account.secret = 0 THEN 0 ELSE 1,
                                    !.late = Resetting # {}])
    /\ UNCHANGED <<account, session, link, ssoState, passwords, secrets, lastReset>>

\* /auth/login: SET NX of the verifier under the state.
AuthLogin ==
    /\ ~ssoState /\ ssoState' = TRUE
    /\ UNCHANGED <<account, session, link, client, passwords, secrets, lastReset>>

\* The verifier's time to live runs out.
SsoStateExpires ==
    /\ ssoState /\ ssoState' = FALSE
    /\ UNCHANGED <<account, session, link, client, passwords, secrets, lastReset>>

\* /auth/callback: GETDEL of the verifier, then the provider is asked.
AuthCallback(c) ==
    /\ At(c, "idle") /\ ssoState /\ ssoState' = FALSE
    /\ \/ Became(c, [IdleClient EXCEPT !.step = "callback"])
       \/ UNCHANGED client          \* the provider's answer is not usable
    /\ UNCHANGED <<account, session, link, passwords, secrets, lastReset>>

\* upsert_sso_account: the account row, activated whatever it was.
UpsertSsoAccount(c) ==
    /\ At(c, "callback") /\ AccountFree
    /\ account' = [account EXCEPT !.active = TRUE]
    /\ Became(c, [IdleClient EXCEPT !.step = "checked", !.saw = account.password])
    /\ UNCHANGED <<session, link, ssoState, passwords, secrets, lastReset>>

\* _create_session: INSERT of the row.
CreateSession(c) ==
    /\ At(c, "checked")
    /\ \E s \in SessionIds :
         /\ session[s].state = "none"
         /\ \A t \in 1..(s - 1) : session[t].state # "none"
         /\ session' = [session EXCEPT ![s] =
              [state |-> "open", saw |-> client[c].saw, delivered |-> FALSE,
               verified |-> client[c].of = 1,
               spared |-> client[c].late \/ Resetting # {}]]
         /\ Became(c, [IdleClient EXCEPT !.step = "opened", !.of = s])
    /\ UNCHANGED <<account, link, ssoState, passwords, secrets, lastReset>>

\* The login reads its own session back and, if it is accepted, returns it
\* (login_internal then stamps last_login_at); otherwise the row is left.
ReturnLogin(c) ==
    /\ At(c, "opened")
    /\ LET s == client[c].of IN
       IF Accepted(s) THEN session' = [session EXCEPT ![s].delivered = TRUE]
                      ELSE UNCHANGED session
    /\ Became(c, IdleClient)
    /\ UNCHANGED <<account, link, ssoState, passwords, secrets, lastReset>>

-----------------------------------------------------------------------------
(* Using and ending a session *)

InUse(s) == session[s].delivered /\ Accepted(s)

RevokeSession(s) ==
    /\ session[s].delivered /\ session[s].state = "open"
    /\ session' = [session EXCEPT ![s].state = "ended"]
    /\ UNCHANGED <<account, link, ssoState, client, passwords, secrets, lastReset>>

SessionExpires(s) ==
    /\ session[s].state = "open" /\ session' = [session EXCEPT ![s].state = "ended"]
    /\ UNCHANGED <<account, link, ssoState, client, passwords, secrets, lastReset>>

StartMfaEnrollment(s) ==
    /\ InUse(s) /\ AccountFree /\ secrets < MaxSecrets
    /\ secrets' = secrets + 1 /\ account' = [account EXCEPT !.pending = secrets + 1]
    /\ UNCHANGED <<session, link, ssoState, client, passwords, lastReset>>

\* confirm_mfa_enrollment reads the pending secret and checks the code ...
ReadPendingSecret(c, s) ==
    /\ At(c, "idle") /\ InUse(s) /\ account.pending # 0
    /\ Became(c, [IdleClient EXCEPT !.step = "confirm", !.of = s, !.saw = account.pending])
    /\ UNCHANGED <<account, session, link, ssoState, passwords, secrets, lastReset>>

\* ... and makes it the account's, whatever is pending by then; the endpoint
\* then marks the session.
ConfirmMfaEnrollment(c) ==
    /\ At(c, "confirm") /\ AccountFree
    /\ account' = [account EXCEPT !.secret = client[c].saw, !.pending = 0]
    /\ Became(c, [client[c] EXCEPT !.step = "mark"])
    /\ UNCHANGED <<session, link, ssoState, passwords, secrets, lastReset>>

MarkSessionMfaVerified(c) ==
    /\ At(c, "mark")
    /\ session' = [session EXCEPT ![client[c].of].verified =
                     @ \/ session[client[c].of].state = "open"]
    /\ Became(c, IdleClient)
    /\ UNCHANGED <<account, link, ssoState, passwords, secrets, lastReset>>

\* verify_mfa_for_session: the session and the secret are read, the code checked.
VerifyMfaForSession(c, s) ==
    /\ At(c, "idle") /\ InUse(s) /\ account.secret # 0 /\ ~session[s].verified
    /\ Became(c, [IdleClient EXCEPT !.step = "mark", !.of = s])
    /\ UNCHANGED <<account, session, link, ssoState, passwords, secrets, lastReset>>

-----------------------------------------------------------------------------
(* Passwords *)

\* change_password: the current password is checked against the row read ...
CheckCurrentPassword(c, s) ==
    /\ At(c, "idle") /\ InUse(s)
    /\ Became(c, [IdleClient EXCEPT !.step = "change"])
    /\ UNCHANGED <<account, session, link, ssoState, passwords, secrets, lastReset>>

\* ... and the UPDATE is unconditional. No session is revoked.
ChangePassword(c) ==
    /\ At(c, "change") /\ AccountFree /\ passwords < MaxPasswords
    /\ passwords' = passwords + 1
    /\ account' = [account EXCEPT !.password = passwords + 1]
    /\ Became(c, IdleClient)
    /\ UNCHANGED <<session, link, ssoState, secrets, lastReset>>

\* Logins that read the account before a revocation and insert after it.
LateLogins ==
    [d \in Clients |-> IF At(d, "checked") THEN [client[d] EXCEPT !.late = TRUE] ELSE client[d]]

\* revoke_all_sessions_for_account: every row with revoked_at NULL.
\* Faulty variant: only the sessions whose login has returned.
ToRevokeDelivered == {s \in OpenSessions : session[s].delivered}
ToRevoke == OpenSessions

Revoked(ss) ==
    [s \in SessionIds |-> IF s \in ss THEN [session[s] EXCEPT !.state = "ended"] ELSE session[s]]

\* admin_set_password: the password is set ...
AdminSetPassword(c) ==
    /\ At(c, "idle") /\ AccountFree /\ passwords < MaxPasswords
    /\ passwords' = passwords + 1
    /\ account' = [account EXCEPT !.password = passwords + 1]
    /\ Became(c, [IdleClient EXCEPT !.step = "admin", !.set = passwords + 1])
    /\ UNCHANGED <<session, link, ssoState, secrets, lastReset>>

\* ... and the sessions are revoked by a second statement.
AdminRevokeSessions(c) ==
    /\ At(c, "admin")
    /\ session' = Revoked(ToRevoke)
    /\ client' = [LateLogins EXCEPT ![c] = IdleClient]
    /\ lastReset' = IF client[c].set > lastReset THEN client[c].set ELSE lastReset
    /\ UNCHANGED <<account, link, ssoState, passwords, secrets>>

\* forgot_password's transaction: a new token and the mail, then every other
\* active token is consumed. A recipient that cannot be mailed rolls it back.
ForgotPassword(c) ==
    /\ At(c, "idle") /\ LinksFree(ActiveLinks)
    /\ Cardinality(Issuing) + Cardinality({l \in LinkIds : link[l] # "none"}) < MaxLinks
    /\ Became(c, [IdleClient EXCEPT !.step = "issue", !.links = ActiveLinks])
    /\ UNCHANGED <<account, session, link, ssoState, passwords, secrets, lastReset>>

CommitLink(c) ==
    /\ At(c, "issue")
    /\ \E l \in LinkIds :
         /\ link[l] = "none" /\ \A k \in 1..(l - 1) : link[k] # "none"
         /\ link' = [k \in LinkIds |-> IF k = l THEN "active"
                                       ELSE IF k \in client[c].links THEN "used" ELSE link[k]]
    /\ Became(c, IdleClient)
    /\ UNCHANGED <<account, session, ssoState, passwords, secrets, lastReset>>

LinkExpires(l) ==
    /\ link[l] = "active" /\ link' = [link EXCEPT ![l] = "used"]
    /\ UNCHANGED <<account, session, ssoState, client, passwords, secrets, lastReset>>

\* reset_password's statements: claim the token, set the password, consume the
\* account's other tokens, revoke the sessions that exist. Waiting for the rows
\* of another transaction is the guard.
ResetPassword(c, l) ==
    /\ At(c, "idle") /\ l \in ActiveLinks
    /\ AccountFree /\ LinksFree(ActiveLinks) /\ passwords < MaxPasswords
    /\ client' = [LateLogins EXCEPT ![c] =
         [IdleClient EXCEPT !.step = "reset", !.set = passwords + 1,
                            !.revoked = ToRevoke, !.links = ActiveLinks]]
    /\ UNCHANGED <<account, session, link, ssoState, passwords, secrets, lastReset>>

CommitReset(c) ==
    /\ At(c, "reset")
    /\ passwords' = client[c].set
    /\ account' = [account EXCEPT !.password = client[c].set]
    /\ session' = Revoked(client[c].revoked)
    /\ link' = [l \in LinkIds |-> IF l \in client[c].links THEN "used" ELSE link[l]]
    /\ lastReset' = client[c].set
    /\ Became(c, IdleClient)
    /\ UNCHANGED <<ssoState, secrets>>

\* A request fails or its process dies: an open transaction is rolled back.
Abandon(c) ==
    /\ ~At(c, "idle") /\ Became(c, IdleClient)
    /\ UNCHANGED <<account, session, link, ssoState, passwords, secrets, lastReset>>

\* upsert_rbac_account: an administrator sets the active flag.
SetAccountActive(b) ==
    /\ AccountFree /\ account.active # b
    /\ account' = [account EXCEPT !.active = b]
    /\ UNCHANGED <<session, link, ssoState, client, passwords, secrets, lastReset>>

SessionNext ==
    \/ AuthLogin \/ SsoStateExpires \/ \E b \in BOOLEAN : SetAccountActive(b)
    \/ \E l \in LinkIds : LinkExpires(l)
    \/ \E s \in SessionIds : RevokeSession(s) \/ SessionExpires(s) \/ StartMfaEnrollment(s)
    \/ \E c \in Clients :
         \/ LoginInternal(c) \/ AuthCallback(c) \/ UpsertSsoAccount(c)
         \/ CreateSession(c) \/ ReturnLogin(c)
         \/ ConfirmMfaEnrollment(c) \/ MarkSessionMfaVerified(c)
         \/ ChangePassword(c) \/ AdminSetPassword(c) \/ AdminRevokeSessions(c)
         \/ ForgotPassword(c) \/ CommitLink(c) \/ CommitReset(c) \/ Abandon(c)
         \/ \E s \in SessionIds :
              ReadPendingSecret(c, s) \/ VerifyMfaForSession(c, s) \/ CheckCurrentPassword(c, s)
         \/ \E l \in LinkIds : ResetPassword(c, l)

SessionSpec == SessionInit /\ [][SessionNext]_sessionVars

-----------------------------------------------------------------------------
(* Once a reset or an administrator's password change has completed, no      *)
(* session opened under an older password is open, except one whose login    *)
(* read the account before the sessions were revoked and inserted its row    *)
(* after, or ran while the reset's transaction was open.                     *)
SessionsEndWithReset ==
    \A s \in OpenSessions : session[s].saw >= lastReset \/ session[s].spared
=============================================================================
