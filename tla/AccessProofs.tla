---------------------------- MODULE AccessProofs ----------------------------
(***************************************************************************)
(* Proofs about the services that keep accounts, memberships, approvals,   *)
(* versions and cached answers: Sessions, Invitations, PolicyVersions,     *)
(* McpGateway, Memberships and ResponseCache. They share no state, so each *)
(* is an instance over variables of its own here.                          *)
(***************************************************************************)
EXTENDS Integers, Sequences, FiniteSets, FiniteSetTheorems, SequenceTheorems,
        WellFoundedInduction, TLAPS

(* Sessions *)
CONSTANTS Clients, MaxPasswords, MaxSessions, MaxLinks, MaxSecrets
VARIABLES account, session, link, ssoState, client, passwords, secrets, lastReset

Login == INSTANCE Sessions

(* Invitations *)
CONSTANTS Senders, Guests, Cancellers, MaxInvitations, MaxTokens
VARIABLES invitation, due, token, sender, guest, canceller, granted, cancelled, reopened

Invited == INSTANCE Invitations WITH status <- invitation

(* PolicyVersions *)
CONSTANTS Editors, MaxVersions
VARIABLES kind, owner, version, editor, everPublished, interrupted, editsOverlapped

Policies == INSTANCE PolicyVersions WITH status <- version, overlapped <- editsOverlapped

(* McpGateway *)
CONSTANTS Calls, MaxApprovals, MaxServerSessions, MaxPrunes, MaxToolHops, MaxConcurrency
VARIABLES policy, approval, clock, toolSlots, cached, sess, live, opened, call, raced

Mcp == INSTANCE McpGateway WITH slots <- toolSlots

(* Memberships *)
CONSTANTS Staff, Orgs, MaxRows, SelfServiceKeys
VARIABLES member, team, orgRow, lastRow, teamMember, keys, request, excused

Members == INSTANCE Memberships WITH account <- member

(* ResponseCache *)
CONSTANTS Callers, CacheKeys, StreamLength, MaxFragments
VARIABLES entries, accumulators, lookup, overlapped

Cache == INSTANCE ResponseCache WITH call <- lookup

-----------------------------------------------------------------------------
(* The largest element of a bounded set of naturals *)

LEMMA LeastNatural ==
    ASSUME NEW T, T \subseteq Nat, T # {}
    PROVE  \E x \in T : \A y \in T : x <= y
<1> DEFINE R == {ss \in Nat \X Nat : ss[1] < ss[2]}
<1>1. IsWellFoundedOn(R, Nat)
  BY NatLessThanWellFounded DEF OpToRel
<1> HIDE DEF R
<1>2. PICK x \in T : \A y \in T : ~(<<y, x>> \in R)
  BY <1>1, WFMin
<1>3. \A y \in T : <<y, x>> \in R <=> y < x
  BY DEF R
<1>4. \A y \in T : ~(y < x)
  BY <1>2, <1>3
<1> QED
  BY <1>4

LEMMA GreatestOfBounded ==
    ASSUME NEW n \in Nat, NEW T, T \subseteq 0..n, T # {}
    PROVE  \E x \in T : \A y \in T : x >= y
<1> DEFINE U == {n - x : x \in T}
<1>1. \A x \in T : x \in Int /\ n - x \in Nat /\ n - x \in U
  OBVIOUS
<1>2. U \subseteq Nat /\ U # {}
  BY <1>1
<1>3. PICK u \in U : \A v \in U : u <= v
  BY <1>2, LeastNatural
<1>4. PICK x \in T : u = n - x
  BY <1>3
<1>5. \A y \in T : n - x <= n - y
  BY <1>1, <1>3, <1>4
<1> QED
  BY <1>1, <1>5

-----------------------------------------------------------------------------
(* Sessions: a reset ends the sessions of older passwords *)

\* The fields the argument reads.
SessionShape ==
    /\ DOMAIN session = Login!SessionIds
    /\ \A s \in Login!SessionIds : {"state", "saw", "spared"} \subseteq DOMAIN session[s]
    /\ DOMAIN client = Clients
    /\ \A c \in Clients :
         {"step", "saw", "late", "set", "revoked"} \subseteq DOMAIN client[c]
    /\ "password" \in DOMAIN account
    /\ passwords \in Nat /\ lastReset \in 0..passwords
    /\ account.password = passwords

\* What a request under way has read or will set.
RequestsSound ==
    \A c \in Clients :
        /\ client[c].step = "checked" =>
             /\ client[c].saw \in Nat
             /\ client[c].late \/ (client[c].saw >= lastReset /\ Login!Resetting = {})
        /\ client[c].step = "admin" => client[c].set \in 0..passwords
        /\ client[c].step = "reset" =>
             /\ client[c].set = passwords + 1
             /\ \A d \in Login!Resetting : d = c
             /\ \A s \in Login!OpenSessions \ client[c].revoked : session[s].spared

SawNaturals == \A s \in Login!OpenSessions : session[s].saw \in Nat

ResetInv == SessionShape /\ RequestsSound /\ SawNaturals /\ Login!SessionsEndWithReset

LEMMA ResetInit == Login!SessionInit => ResetInv
  BY DEF Login!SessionInit, ResetInv, SessionShape, RequestsSound, SawNaturals,
     Login!NoSession, Login!SessionsEndWithReset, Login!OpenSessions, Login!Resetting,
     Login!IdleClient

\* A step that sets no password and opens no session: requests end or go on
\* to statements the argument does not care about, sessions may end.
QuietStep ==
    /\ DOMAIN session' = DOMAIN session
    /\ \A s \in Login!SessionIds :
         /\ {"state", "saw", "spared"} \subseteq DOMAIN session'[s]
         /\ session'[s].saw = session[s].saw /\ session'[s].spared = session[s].spared
         /\ session'[s].state = session[s].state \/ session'[s].state = "ended"
    /\ "password" \in DOMAIN account' /\ account'.password = account.password
    /\ UNCHANGED <<passwords, lastReset>>
    /\ DOMAIN client' = Clients
    /\ \A c \in Clients :
         /\ {"step", "saw", "late", "set", "revoked"} \subseteq DOMAIN client'[c]
         /\ client'[c] = client[c] \/ client'[c].step \notin {"checked", "admin", "reset"}

LEMMA QuietStepKeeps == ASSUME ResetInv, QuietStep PROVE ResetInv'
<1>1. Login!Resetting' \subseteq Login!Resetting
  BY DEF QuietStep, Login!Resetting
<1>2. Login!OpenSessions' \subseteq Login!OpenSessions
  BY DEF QuietStep, Login!OpenSessions
<1>3. SessionShape'
  BY DEF ResetInv, SessionShape, QuietStep
<1>4. RequestsSound'
  BY <1>1, <1>2 DEF ResetInv, RequestsSound, QuietStep, Login!OpenSessions
<1>5. SawNaturals' /\ Login!SessionsEndWithReset'
  BY <1>2 DEF ResetInv, SawNaturals, Login!SessionsEndWithReset, QuietStep,
     Login!OpenSessions
<1> QED
  BY <1>3, <1>4, <1>5 DEF ResetInv

LEMMA QuietActions ==
    ASSUME ResetInv,
           \/ Login!AuthLogin \/ Login!SsoStateExpires
           \/ \E b \in BOOLEAN : Login!SetAccountActive(b)
           \/ \E l \in Login!LinkIds : Login!LinkExpires(l)
           \/ \E s \in Login!SessionIds :
                 Login!RevokeSession(s) \/ Login!SessionExpires(s) \/ Login!StartMfaEnrollment(s)
           \/ UNCHANGED Login!sessionVars
    PROVE  QuietStep
<1> USE DEF ResetInv, SessionShape, QuietStep
<1>1. CASE Login!AuthLogin
  BY <1>1 DEF Login!AuthLogin
<1>2. CASE Login!SsoStateExpires
  BY <1>2 DEF Login!SsoStateExpires
<1>3. CASE \E b \in BOOLEAN : Login!SetAccountActive(b)
  BY <1>3 DEF Login!SetAccountActive
<1>4. CASE \E l \in Login!LinkIds : Login!LinkExpires(l)
  BY <1>4 DEF Login!LinkExpires
<1>5. CASE \E s \in Login!SessionIds : Login!RevokeSession(s) \/ Login!SessionExpires(s)
  BY <1>5 DEF Login!RevokeSession, Login!SessionExpires
<1>6. CASE \E s \in Login!SessionIds : Login!StartMfaEnrollment(s)
  BY <1>6 DEF Login!StartMfaEnrollment
<1>7. CASE UNCHANGED Login!sessionVars
  BY <1>7 DEF Login!sessionVars
<1> QED
  BY <1>1, <1>2, <1>3, <1>4, <1>5, <1>6, <1>7

LEMMA QuietRequests ==
    ASSUME ResetInv, NEW c \in Clients,
           \/ Login!AuthCallback(c) \/ Login!ReturnLogin(c)
           \/ Login!ConfirmMfaEnrollment(c) \/ Login!MarkSessionMfaVerified(c)
           \/ Login!ForgotPassword(c) \/ Login!CommitLink(c) \/ Login!Abandon(c)
           \/ \E s \in Login!SessionIds :
                 \/ Login!ReadPendingSecret(c, s) \/ Login!VerifyMfaForSession(c, s)
                 \/ Login!CheckCurrentPassword(c, s)
    PROVE  QuietStep
<1> USE DEF ResetInv, SessionShape, QuietStep, Login!Became, Login!IdleClient
<1>1. CASE Login!AuthCallback(c)
  BY <1>1 DEF Login!AuthCallback
<1>2. CASE Login!ReturnLogin(c)
  BY <1>2 DEF Login!ReturnLogin
<1>3. CASE Login!ConfirmMfaEnrollment(c)
  BY <1>3 DEF Login!ConfirmMfaEnrollment
<1>4. CASE Login!MarkSessionMfaVerified(c)
  BY <1>4 DEF Login!MarkSessionMfaVerified
<1>5. CASE Login!ForgotPassword(c)
  BY <1>5 DEF Login!ForgotPassword
<1>6. CASE Login!CommitLink(c)
  BY <1>6 DEF Login!CommitLink
<1>7. CASE Login!Abandon(c)
  BY <1>7 DEF Login!Abandon
<1>8. CASE \E s \in Login!SessionIds :
             \/ Login!ReadPendingSecret(c, s) \/ Login!VerifyMfaForSession(c, s)
             \/ Login!CheckCurrentPassword(c, s)
  <2> PICK s \in Login!SessionIds :
             \/ Login!ReadPendingSecret(c, s) \/ Login!VerifyMfaForSession(c, s)
             \/ Login!CheckCurrentPassword(c, s)
    BY <1>8
  <2>1. CASE Login!ReadPendingSecret(c, s)
    BY <2>1 DEF Login!ReadPendingSecret
  <2>2. CASE Login!VerifyMfaForSession(c, s)
    BY <2>2 DEF Login!VerifyMfaForSession
  <2>3. CASE Login!CheckCurrentPassword(c, s)
    BY <2>3 DEF Login!CheckCurrentPassword
  <2> QED
    BY <2>1, <2>2, <2>3
<1> QED
  BY <1>1, <1>2, <1>3, <1>4, <1>5, <1>6, <1>7, <1>8

LEMMA LoginKeeps ==
    ASSUME ResetInv, NEW c \in Clients, Login!LoginInternal(c) \/ Login!UpsertSsoAccount(c)
    PROVE  ResetInv'
<1> USE DEF ResetInv, SessionShape
<1>1. /\ UNCHANGED <<session, passwords, lastReset>>
      /\ "password" \in DOMAIN account' /\ account'.password = account.password
  BY DEF Login!LoginInternal, Login!UpsertSsoAccount
<1>2. /\ DOMAIN client' = Clients
      /\ \A d \in Clients \ {c} : client'[d] = client[d]
      /\ {"step", "saw", "late", "set", "revoked"} \subseteq DOMAIN client'[c]
      /\ client'[c].step = "checked" /\ client'[c].saw = account.password
      /\ client[c].step \in {"idle", "callback"}
      /\ client'[c].late \/ Login!Resetting = {}
  <2> USE DEF Login!Became, Login!At, Login!IdleClient
  <2>1. CASE Login!LoginInternal(c)
    BY <2>1 DEF Login!LoginInternal
  <2>2. CASE Login!UpsertSsoAccount(c)
    BY <2>2 DEF Login!UpsertSsoAccount, Login!AccountFree
  <2> QED
    BY <2>1, <2>2
<1>3. Login!Resetting' = Login!Resetting /\ Login!OpenSessions' = Login!OpenSessions
  BY <1>1, <1>2 DEF Login!Resetting, Login!OpenSessions
<1>4. SessionShape'
  BY <1>1, <1>2
<1>5. RequestsSound'
  BY <1>1, <1>2, <1>3 DEF RequestsSound
<1>6. SawNaturals' /\ Login!SessionsEndWithReset'
  BY <1>1, <1>3 DEF SawNaturals, Login!SessionsEndWithReset
<1> QED
  BY <1>4, <1>5, <1>6

LEMMA CreateSessionKeeps ==
    ASSUME ResetInv, NEW c \in Clients, Login!CreateSession(c)
    PROVE  ResetInv'
<1> USE DEF ResetInv, SessionShape
<1>1. PICK n \in Login!SessionIds :
        /\ session' = [session EXCEPT ![n] =
             [state |-> "open", saw |-> client[c].saw, delivered |-> FALSE,
              verified |-> client[c].of = 1,
              spared |-> client[c].late \/ Login!Resetting # {}]]
        /\ client' = [client EXCEPT ![c] =
                         [Login!IdleClient EXCEPT !.step = "opened", !.of = n]]
  BY DEF Login!CreateSession, Login!Became
<1>2. UNCHANGED <<account, passwords, lastReset>> /\ client[c].step = "checked"
  BY DEF Login!CreateSession, Login!At
<1>3. /\ DOMAIN client' = Clients
      /\ \A d \in Clients \ {c} : client'[d] = client[d]
      /\ {"step", "saw", "late", "set", "revoked"} \subseteq DOMAIN client'[c]
      /\ client'[c].step = "opened"
  BY <1>1 DEF Login!IdleClient
<1>4. /\ DOMAIN session' = Login!SessionIds
      /\ \A s \in Login!SessionIds \ {n} : session'[s] = session[s]
      /\ {"state", "saw", "spared"} \subseteq DOMAIN session'[n]
      /\ session'[n].saw = client[c].saw
      /\ session'[n].spared = (client[c].late \/ Login!Resetting # {})
  BY <1>1
<1>5. Login!Resetting' = Login!Resetting /\ Login!OpenSessions' \subseteq Login!OpenSessions \cup {n}
  BY <1>2, <1>3, <1>4 DEF Login!Resetting, Login!OpenSessions
<1>6. /\ client[c].saw \in Nat
      /\ client[c].late \/ (client[c].saw >= lastReset /\ Login!Resetting = {})
  BY <1>2 DEF RequestsSound
<1>7. SessionShape'
  BY <1>2, <1>3, <1>4
<1>8. RequestsSound'
  <2> SUFFICES ASSUME NEW d \in Clients
               PROVE  /\ client'[d].step = "checked" =>
                          /\ client'[d].saw \in Nat
                          /\ \/ client'[d].late
                             \/ client'[d].saw >= lastReset' /\ Login!Resetting' = {}
                      /\ client'[d].step = "admin" => client'[d].set \in 0..passwords'
                      /\ client'[d].step = "reset" =>
                          /\ client'[d].set = passwords' + 1
                          /\ \A e \in Login!Resetting' : e = d
                          /\ \A s \in Login!OpenSessions' \ client'[d].revoked :
                                session'[s].spared
    BY DEF RequestsSound
  <2>1. client'[d].step \in {"checked", "admin", "reset"} => d # c /\ client'[d] = client[d]
    BY <1>3
  <2>2. ASSUME client'[d].step = "reset", NEW s \in Login!OpenSessions' \ client'[d].revoked
        PROVE  session'[s].spared
    <3>1. client[d].step = "reset" /\ client'[d] = client[d]
      BY <2>1, <2>2
    <3>2. Login!Resetting # {}
      BY <3>1 DEF Login!Resetting
    <3>3. CASE s = n
      BY <3>2, <3>3, <1>4
    <3>4. CASE s # n
      <4>1. s \in Login!OpenSessions \ client[d].revoked /\ s \in Login!SessionIds
        BY <3>1, <3>4, <2>2, <1>5 DEF Login!OpenSessions
      <4>2. session[s].spared
        BY <3>1, <4>1 DEF RequestsSound
      <4> QED
        BY <3>4, <4>1, <4>2, <1>4
    <3> QED
      BY <3>3, <3>4
  <2> QED
    BY <2>1, <2>2, <1>2, <1>5 DEF RequestsSound
<1>9. SawNaturals' /\ Login!SessionsEndWithReset'
  <2> SUFFICES ASSUME NEW s \in Login!OpenSessions'
               PROVE  /\ session'[s].saw \in Nat
                      /\ session'[s].saw >= lastReset' \/ session'[s].spared
    BY DEF SawNaturals, Login!SessionsEndWithReset
  <2>1. CASE s = n
    BY <2>1, <1>2, <1>4, <1>6
  <2>2. CASE s # n
    <3>1. s \in Login!OpenSessions /\ s \in Login!SessionIds
      BY <2>2, <1>5 DEF Login!OpenSessions
    <3> QED
      BY <3>1, <2>2, <1>2, <1>4 DEF SawNaturals, Login!SessionsEndWithReset
  <2> QED
    BY <2>1, <2>2
<1> QED
  BY <1>7, <1>8, <1>9

LEMMA PasswordKeeps ==
    ASSUME ResetInv, NEW c \in Clients, Login!ChangePassword(c) \/ Login!AdminSetPassword(c)
    PROVE  ResetInv'
<1> USE DEF ResetInv, SessionShape
<1>1. /\ UNCHANGED <<session, lastReset>> /\ passwords' = passwords + 1
      /\ "password" \in DOMAIN account' /\ account'.password = passwords + 1
      /\ Login!Resetting = {}
  BY DEF Login!ChangePassword, Login!AdminSetPassword, Login!AccountFree
<1>2. /\ DOMAIN client' = Clients
      /\ \A d \in Clients \ {c} : client'[d] = client[d]
      /\ {"step", "saw", "late", "set", "revoked"} \subseteq DOMAIN client'[c]
      /\ \/ client'[c].step = "idle"
         \/ client'[c].step = "admin" /\ client'[c].set = passwords + 1
  <2> USE DEF Login!Became, Login!IdleClient
  <2>1. CASE Login!ChangePassword(c)
    BY <2>1 DEF Login!ChangePassword
  <2>2. CASE Login!AdminSetPassword(c)
    BY <2>2 DEF Login!AdminSetPassword
  <2> QED
    BY <2>1, <2>2
<1>3. Login!Resetting' = {} /\ Login!OpenSessions' = Login!OpenSessions
  BY <1>1, <1>2 DEF Login!Resetting, Login!OpenSessions
<1>4. SessionShape'
  BY <1>1, <1>2
<1>5. RequestsSound'
  BY <1>1, <1>2, <1>3 DEF RequestsSound, Login!Resetting
<1>6. SawNaturals' /\ Login!SessionsEndWithReset'
  BY <1>1, <1>3 DEF SawNaturals, Login!SessionsEndWithReset
<1> QED
  BY <1>4, <1>5, <1>6

\* Requests after a revocation: a login under way is late, others are as before.
AfterRevocation(c) ==
    /\ DOMAIN client' = Clients
    /\ \A d \in Clients :
         {"step", "saw", "late", "set", "revoked"} \subseteq DOMAIN client'[d]
    /\ \A d \in Clients \ {c} :
         /\ client'[d].step = client[d].step /\ client'[d].saw = client[d].saw
         /\ client'[d].set = client[d].set /\ client'[d].revoked = client[d].revoked
         /\ client'[d].step = "checked" => client'[d].late

LEMMA LateLoginsFact ==
    ASSUME SessionShape, NEW c \in Clients, NEW r,
           client' = [Login!LateLogins EXCEPT ![c] = r],
           {"step", "saw", "late", "set", "revoked"} \subseteq DOMAIN r
    PROVE  AfterRevocation(c) /\ client'[c] = r
  BY DEF SessionShape, AfterRevocation, Login!LateLogins, Login!At

LEMMA AdminRevokeKeeps ==
    ASSUME ResetInv, NEW c \in Clients, Login!AdminRevokeSessions(c)
    PROVE  ResetInv'
<1> USE DEF ResetInv, SessionShape
<1>1. AfterRevocation(c) /\ client'[c].step = "idle"
  <2>1. client' = [Login!LateLogins EXCEPT ![c] = Login!IdleClient]
    BY DEF Login!AdminRevokeSessions
  <2>2. /\ {"step", "saw", "late", "set", "revoked"} \subseteq DOMAIN Login!IdleClient
        /\ Login!IdleClient.step = "idle"
    BY DEF Login!IdleClient
  <2> QED
    BY <2>1, <2>2, LateLoginsFact
<1>2. /\ UNCHANGED <<account, passwords>> /\ client[c].step = "admin"
      /\ lastReset' = IF client[c].set > lastReset THEN client[c].set ELSE lastReset
      /\ session' = Login!Revoked(Login!OpenSessions)
  BY DEF Login!AdminRevokeSessions, Login!At, Login!ToRevoke
<1>3. client[c].set \in 0..passwords
  BY <1>2 DEF RequestsSound
<1>4. lastReset' \in 0..passwords
  BY <1>2, <1>3
<1>5. /\ DOMAIN session' = Login!SessionIds
      /\ \A s \in Login!SessionIds : {"state", "saw", "spared"} \subseteq DOMAIN session'[s]
      /\ Login!OpenSessions' = {}
  BY <1>2 DEF Login!Revoked, Login!OpenSessions
<1>6. Login!Resetting' = Login!Resetting
  BY <1>1, <1>2 DEF Login!Resetting, AfterRevocation
<1>7. SessionShape'
  BY <1>1, <1>2, <1>4, <1>5 DEF AfterRevocation
<1>8. RequestsSound'
  BY <1>1, <1>2, <1>5, <1>6 DEF RequestsSound, AfterRevocation
<1> QED
  BY <1>5, <1>7, <1>8 DEF SawNaturals, Login!SessionsEndWithReset

LEMMA ResetPasswordKeeps ==
    ASSUME ResetInv, NEW c \in Clients, NEW l, Login!ResetPassword(c, l)
    PROVE  ResetInv'
<1> USE DEF ResetInv, SessionShape
<1>1. /\ AfterRevocation(c) /\ client'[c].step = "reset"
      /\ client'[c].set = passwords + 1 /\ client'[c].revoked = Login!OpenSessions
  <2> DEFINE r == [Login!IdleClient EXCEPT !.step = "reset", !.set = passwords + 1,
                     !.revoked = Login!OpenSessions, !.links = Login!ActiveLinks]
  <2>1. client' = [Login!LateLogins EXCEPT ![c] = r]
    BY DEF Login!ResetPassword, Login!ToRevoke
  <2>2. /\ {"step", "saw", "late", "set", "revoked"} \subseteq DOMAIN r
        /\ r.step = "reset" /\ r.set = passwords + 1 /\ r.revoked = Login!OpenSessions
    BY DEF Login!IdleClient
  <2> HIDE DEF r
  <2> QED
    BY <2>1, <2>2, LateLoginsFact
<1>2. UNCHANGED <<account, session, passwords, lastReset>> /\ Login!Resetting = {}
  BY DEF Login!ResetPassword, Login!AccountFree
<1>3. Login!Resetting' = {c} /\ Login!OpenSessions' = Login!OpenSessions
  BY <1>1, <1>2 DEF Login!Resetting, Login!OpenSessions, AfterRevocation
<1>4. SessionShape'
  BY <1>1, <1>2 DEF AfterRevocation
<1>5. RequestsSound'
  <2>1. \A d \in Clients : client[d].step # "reset"
    BY <1>2 DEF Login!Resetting
  <2>2. \A d \in Clients \ {c} :
          /\ client'[d].step = "checked" => client'[d].saw \in Nat /\ client'[d].late
          /\ client'[d].step = "admin" => client'[d].set \in 0..passwords'
          /\ client'[d].step # "reset"
    BY <1>1, <1>2, <2>1 DEF RequestsSound, AfterRevocation
  <2> QED
    BY <1>1, <1>2, <1>3, <2>2 DEF RequestsSound
<1> QED
  BY <1>2, <1>3, <1>4, <1>5 DEF SawNaturals, Login!SessionsEndWithReset

LEMMA CommitResetKeeps ==
    ASSUME ResetInv, NEW c \in Clients, Login!CommitReset(c)
    PROVE  ResetInv'
<1> USE DEF ResetInv, SessionShape
<1>1. /\ client[c].step = "reset" /\ client[c].set = passwords + 1
      /\ \A d \in Login!Resetting : d = c
      /\ \A s \in Login!OpenSessions \ client[c].revoked : session[s].spared
  BY DEF Login!CommitReset, Login!At, RequestsSound
<1>2. /\ passwords' = passwords + 1 /\ lastReset' = passwords + 1
      /\ "password" \in DOMAIN account' /\ account'.password = passwords + 1
      /\ session' = Login!Revoked(client[c].revoked)
  BY <1>1 DEF Login!CommitReset
<1>3. /\ DOMAIN client' = Clients
      /\ \A d \in Clients \ {c} : client'[d] = client[d]
      /\ {"step", "saw", "late", "set", "revoked"} \subseteq DOMAIN client'[c]
      /\ client'[c].step = "idle"
  BY DEF Login!CommitReset, Login!Became, Login!IdleClient
<1>4. Login!Resetting' = {} /\ Login!Resetting = {c}
  BY <1>1, <1>3 DEF Login!Resetting
<1>5. /\ DOMAIN session' = Login!SessionIds
      /\ \A s \in Login!SessionIds :
           /\ {"state", "saw", "spared"} \subseteq DOMAIN session'[s]
           /\ session'[s].saw = session[s].saw /\ session'[s].spared = session[s].spared
      /\ Login!OpenSessions' = Login!OpenSessions \ client[c].revoked
  BY <1>2 DEF Login!Revoked, Login!OpenSessions
<1>6. SessionShape'
  BY <1>2, <1>3, <1>5
<1>7. RequestsSound'
  BY <1>1, <1>2, <1>3, <1>4 DEF RequestsSound, Login!Resetting
<1>8. SawNaturals' /\ Login!SessionsEndWithReset'
  BY <1>1, <1>5 DEF SawNaturals, Login!SessionsEndWithReset, Login!OpenSessions
<1> QED
  BY <1>6, <1>7, <1>8

LEMMA ResetStep == ASSUME ResetInv, [Login!SessionNext]_Login!sessionVars PROVE ResetInv'
<1>1. CASE \/ Login!AuthLogin \/ Login!SsoStateExpires
           \/ \E b \in BOOLEAN : Login!SetAccountActive(b)
           \/ \E l \in Login!LinkIds : Login!LinkExpires(l)
           \/ \E s \in Login!SessionIds :
                 Login!RevokeSession(s) \/ Login!SessionExpires(s) \/ Login!StartMfaEnrollment(s)
           \/ UNCHANGED Login!sessionVars
  BY <1>1, QuietActions, QuietStepKeeps
<1>2. ASSUME NEW c \in Clients,
             \/ Login!AuthCallback(c) \/ Login!ReturnLogin(c)
             \/ Login!ConfirmMfaEnrollment(c) \/ Login!MarkSessionMfaVerified(c)
             \/ Login!ForgotPassword(c) \/ Login!CommitLink(c) \/ Login!Abandon(c)
             \/ \E s \in Login!SessionIds :
                   \/ Login!ReadPendingSecret(c, s) \/ Login!VerifyMfaForSession(c, s)
                   \/ Login!CheckCurrentPassword(c, s)
      PROVE  ResetInv'
  BY <1>2, QuietRequests, QuietStepKeeps
<1>3. ASSUME NEW c \in Clients,
             \/ Login!LoginInternal(c) \/ Login!UpsertSsoAccount(c) \/ Login!CreateSession(c)
             \/ Login!ChangePassword(c) \/ Login!AdminSetPassword(c)
             \/ Login!AdminRevokeSessions(c) \/ Login!CommitReset(c)
             \/ \E l \in Login!LinkIds : Login!ResetPassword(c, l)
      PROVE  ResetInv'
  BY <1>3, LoginKeeps, CreateSessionKeeps, PasswordKeeps, AdminRevokeKeeps,
     CommitResetKeeps, ResetPasswordKeeps
<1> QED
  BY <1>1, <1>2, <1>3 DEF Login!SessionNext

\* The inductive invariant of the logins: a request knows which password it
\* checked, and while no password is being set every open session not spared
\* is of the last one (platform_identity_service.py, auth.py).
THEOREM ResetInvariance == Login!SessionSpec => []ResetInv
  BY ResetInit, ResetStep, PTL DEF Login!SessionSpec

\* A completed reset or administrator's password change leaves no session of
\* an older password open, but for a login that ran across the revocation
\* (services/platform_identity_service.py, revoke_all_sessions_for_account).
THEOREM ResetSafe == Login!SessionSpec => []Login!SessionsEndWithReset
  BY ResetInvariance, PTL DEF ResetInv

-----------------------------------------------------------------------------
(* Invitations: an invitation is closed once *)

InvitationStatus == {"none", "pending", "sent", "accepted", "cancelled", "expired"}

\* An acceptance or a cancellation that was not undone by a later sending is
\* the one that closed the invitation, and it is still closed.
ClosedInv ==
    /\ invitation \in [Invited!Ids -> InvitationStatus]
    /\ granted \in [Invited!Ids -> Nat]
    /\ cancelled \in [Invited!Ids -> Nat]
    /\ reopened \in [Invited!Ids -> Nat]
    /\ \A i \in Invited!Ids :
         /\ granted[i] + cancelled[i] <= 1 + reopened[i]
         /\ invitation[i] \notin Invited!Closed => granted[i] + cancelled[i] <= reopened[i]

LEMMA ClosedInit == Invited!InvitationInit => ClosedInv
  BY DEF Invited!InvitationInit, ClosedInv, InvitationStatus, Invited!Closed

\* A step that neither closes an invitation nor sends a closed one again.
LEMMA OpenStep ==
    ASSUME ClosedInv, UNCHANGED <<granted, cancelled, reopened>>,
           invitation' \in [Invited!Ids -> InvitationStatus],
           \A i \in Invited!Ids :
              invitation'[i] = invitation[i] \/ invitation[i] \notin Invited!Closed
    PROVE  ClosedInv'
  BY DEF ClosedInv

\* The row after the newest one is a new one (create of an invitation).
LEMMA FreshRow ==
    ASSUME MaxInvitations \in Nat, ClosedInv,
           1 + Invited!Max({j \in Invited!Ids : invitation[j] # "none"} \cup {0}) \in Invited!Ids
    PROVE  invitation[1 + Invited!Max({j \in Invited!Ids : invitation[j] # "none"} \cup {0})]
             = "none"
<1> DEFINE T == {j \in Invited!Ids : invitation[j] # "none"} \cup {0}
           m == Invited!Max(T)
<1>1. T \subseteq 0..MaxInvitations /\ T # {}
  BY DEF Invited!Ids
<1>2. \E x \in T : \A y \in T : x >= y
  BY <1>1, GreatestOfBounded
<1> HIDE DEF T
<1>3. m \in T /\ \A y \in T : m >= y
  BY <1>2 DEF Invited!Max
<1> HIDE DEF m
<1>4. m \in Nat /\ 1 + m \notin T
  BY <1>1, <1>3
<1> QED
  BY <1>4 DEF T, m

LEMMA SenderStep ==
    ASSUME MaxInvitations \in Nat, ClosedInv, NEW s \in Senders,
           \/ Invited!Create(s) \/ Invited!ListPending(s) \/ Invited!UpdatePending(s)
           \/ Invited!CommitSent(s) \/ Invited!SendFails(s)
           \/ \E i \in Invited!Ids : Invited!Resend(s, i)
    PROVE  ClosedInv'
<1> USE DEF Invited!history
<1>1. CASE Invited!Create(s) \/ Invited!ListPending(s)
  BY <1>1, OpenStep DEF Invited!Create, Invited!ListPending, ClosedInv
<1>2. CASE Invited!UpdatePending(s)
  <2> DEFINE fresh == 1 + Invited!Max({j \in Invited!Ids : invitation[j] # "none"} \cup {0})
  <2>1. UNCHANGED <<granted, cancelled, reopened>>
    BY <1>2 DEF Invited!UpdatePending
  <2>2. CASE UNCHANGED invitation
    BY <2>1, <2>2, OpenStep DEF ClosedInv
  <2>3. CASE fresh \in Invited!Ids /\ invitation' = [invitation EXCEPT ![fresh] = "pending"]
    <3>1. invitation[fresh] = "none"
      BY <2>3, FreshRow
    <3> HIDE DEF fresh
    <3> QED
      BY <2>1, <2>3, <3>1, OpenStep DEF ClosedInv, InvitationStatus, Invited!Closed
  <2> QED
    BY <1>2, <2>2, <2>3 DEF Invited!UpdatePending
<1>3. CASE Invited!CommitSent(s)
  <2> DEFINE i == sender[s].of
  <2>1. /\ invitation' = [invitation EXCEPT ![i] = "sent"]
        /\ reopened' = IF invitation[i] \in Invited!Closed
                          THEN [reopened EXCEPT ![i] = @ + 1] ELSE reopened
        /\ UNCHANGED <<granted, cancelled>>
    BY <1>3 DEF Invited!CommitSent
  <2> HIDE DEF i
  <2>2. /\ invitation' \in [Invited!Ids -> InvitationStatus]
        /\ reopened' \in [Invited!Ids -> Nat]
    <3>1. invitation' \in [Invited!Ids -> InvitationStatus]
      BY <2>1 DEF ClosedInv, InvitationStatus
    <3>2. reopened' = reopened \/ reopened' = [reopened EXCEPT ![i] = @ + 1]
      BY <2>1
    <3>3. reopened' \in [Invited!Ids -> Nat]
      BY <3>2 DEF ClosedInv
    <3> QED
      BY <3>1, <3>3
  <2>3. \A j \in Invited!Ids :
          IF j = i THEN invitation'[j] = "sent"
                        /\ reopened'[j] = IF invitation[j] \in Invited!Closed
                                            THEN reopened[j] + 1 ELSE reopened[j]
                   ELSE invitation'[j] = invitation[j] /\ reopened'[j] = reopened[j]
    BY <2>1 DEF ClosedInv
  <2> QED
    BY <2>1, <2>2, <2>3 DEF ClosedInv
<1>4. CASE Invited!SendFails(s)
  BY <1>4, OpenStep DEF Invited!SendFails, ClosedInv, InvitationStatus, Invited!Closed
<1>5. ASSUME NEW i \in Invited!Ids, Invited!Resend(s, i)
      PROVE  ClosedInv'
  BY <1>5, OpenStep DEF Invited!Resend, Invited!ExpireIfNeeded, ClosedInv,
     InvitationStatus, Invited!Closed
<1> QED
  BY <1>1, <1>2, <1>3, <1>4, <1>5

LEMMA GuestStep ==
    ASSUME ClosedInv, NEW g \in Guests,
           \/ Invited!Claim(g) \/ Invited!CommitAccepted(g) \/ Invited!AcceptFails(g)
           \/ \E t \in Invited!TokenIds : Invited!Check(g, t)
    PROVE  ClosedInv'
<1> USE DEF Invited!history
<1>1. CASE \/ Invited!Claim(g) \/ Invited!AcceptFails(g)
           \/ \E t \in Invited!TokenIds : Invited!Check(g, t)
  BY <1>1, OpenStep DEF Invited!Claim, Invited!AcceptFails, Invited!Check, ClosedInv
<1>2. CASE Invited!CommitAccepted(g)
  <2> DEFINE i == guest[g].of
             ok == Invited!Acceptable(i)
  <2>1. /\ invitation' = IF ok THEN [invitation EXCEPT ![i] = "accepted"] ELSE invitation
        /\ granted' = IF ok THEN [granted EXCEPT ![i] = @ + 1] ELSE granted
        /\ UNCHANGED <<cancelled, reopened>>
    BY <1>2 DEF Invited!CommitAccepted
  <2>2. ok => invitation[i] \notin Invited!Closed
    BY DEF Invited!Acceptable, Invited!Open, Invited!Closed
  <2> HIDE DEF i, ok
  <2>3. /\ invitation' \in [Invited!Ids -> InvitationStatus]
        /\ granted' \in [Invited!Ids -> Nat]
    <3>1. invitation' \in [Invited!Ids -> InvitationStatus]
      BY <2>1 DEF ClosedInv, InvitationStatus
    <3>2. granted' = granted \/ granted' = [granted EXCEPT ![i] = @ + 1]
      BY <2>1
    <3>3. granted' \in [Invited!Ids -> Nat]
      BY <3>2 DEF ClosedInv
    <3> QED
      BY <3>1, <3>3
  <2>4. \A j \in Invited!Ids :
          IF ok /\ j = i THEN /\ invitation'[j] \in Invited!Closed
                             /\ granted'[j] = granted[j] + 1
                        ELSE /\ invitation'[j] = invitation[j]
                             /\ granted'[j] = granted[j]
    BY <2>1 DEF ClosedInv, Invited!Closed
  <2> QED
    BY <2>1, <2>2, <2>3, <2>4 DEF ClosedInv
<1> QED
  BY <1>1, <1>2

LEMMA CancellerStep ==
    ASSUME ClosedInv, NEW c \in Cancellers,
           \/ Invited!CancelTokens(c) \/ Invited!MarkCancelled(c) \/ Invited!CancelFails(c)
           \/ \E i \in Invited!Ids : Invited!Cancel(c, i)
    PROVE  ClosedInv'
<1> USE DEF Invited!history
<1>1. CASE Invited!CancelTokens(c) \/ Invited!CancelFails(c)
  BY <1>1, OpenStep DEF Invited!CancelTokens, Invited!CancelFails, ClosedInv
<1>2. CASE Invited!MarkCancelled(c)
  <2> DEFINE i == canceller[c].of
             ok == invitation[i] \in Invited!Open \cup {"expired"}
  <2>1. /\ invitation' = IF ok THEN [invitation EXCEPT ![i] = "cancelled"] ELSE invitation
        /\ cancelled' = IF ok THEN [cancelled EXCEPT ![i] = @ + 1] ELSE cancelled
        /\ UNCHANGED <<granted, reopened>>
    BY <1>2 DEF Invited!MarkCancelled
  <2>2. ok => invitation[i] \notin Invited!Closed
    BY DEF Invited!Open, Invited!Closed
  <2> HIDE DEF i, ok
  <2>3. /\ invitation' \in [Invited!Ids -> InvitationStatus]
        /\ cancelled' \in [Invited!Ids -> Nat]
    <3>1. invitation' \in [Invited!Ids -> InvitationStatus]
      BY <2>1 DEF ClosedInv, InvitationStatus
    <3>2. cancelled' = cancelled \/ cancelled' = [cancelled EXCEPT ![i] = @ + 1]
      BY <2>1
    <3>3. cancelled' \in [Invited!Ids -> Nat]
      BY <3>2 DEF ClosedInv
    <3> QED
      BY <3>1, <3>3
  <2>4. \A j \in Invited!Ids :
          IF ok /\ j = i THEN /\ invitation'[j] \in Invited!Closed
                             /\ cancelled'[j] = cancelled[j] + 1
                        ELSE /\ invitation'[j] = invitation[j]
                             /\ cancelled'[j] = cancelled[j]
    BY <2>1 DEF ClosedInv, Invited!Closed
  <2> QED
    BY <2>1, <2>2, <2>3, <2>4 DEF ClosedInv
<1>3. ASSUME NEW i \in Invited!Ids, Invited!Cancel(c, i)
      PROVE  ClosedInv'
  BY <1>3, OpenStep DEF Invited!Cancel, Invited!ExpireIfNeeded, ClosedInv,
     InvitationStatus, Invited!Closed
<1> QED
  BY <1>1, <1>2, <1>3

LEMMA ClosedStep ==
    ASSUME MaxInvitations \in Nat, ClosedInv, [Invited!InvitationNext]_Invited!invitationVars
    PROVE  ClosedInv'
<1>1. ASSUME NEW i \in Invited!Ids, Invited!TimePasses(i)
      PROVE  ClosedInv'
  BY <1>1, OpenStep DEF Invited!TimePasses, Invited!history, ClosedInv
<1>2. CASE UNCHANGED Invited!invitationVars
  BY <1>2, OpenStep DEF Invited!invitationVars, ClosedInv
<1> QED
  BY <1>1, <1>2, SenderStep, GuestStep, CancellerStep DEF Invited!InvitationNext

\* The inductive invariant of the invitations: what was accepted or cancelled
\* more often than it was sent again is closed (services/invitation_service.py).
THEOREM ClosedInvariance ==
    ASSUME MaxInvitations \in Nat PROVE Invited!InvitationSpec => []ClosedInv
  BY ClosedInit, ClosedStep, PTL DEF Invited!InvitationSpec

\* An invitation is accepted or cancelled once, whatever requests overlap,
\* unless a stale sender sent it again (mark_accepted, mark_cancelled and
\* update_pending of services/invitation_service.py).
THEOREM ClosedSafe ==
    ASSUME MaxInvitations \in Nat PROVE Invited!InvitationSpec => []Invited!ClosedOnce
<1>1. ClosedInv => Invited!ClosedOnce
  BY DEF ClosedInv, Invited!ClosedOnce
<1> QED
  BY <1>1, ClosedInvariance, PTL

-----------------------------------------------------------------------------
(* PolicyVersions: a published version is kept, and it is one *)

VersionStatus == {"none", "draft", "published", "archived"}

\* Steps whose request will write the row it has in mind.
Aiming == {"archive", "archiveRow", "insert", "promote", "insertDraft", "find"}

VersionShape ==
    /\ owner \in {"none", "row", "deleted"}
    /\ version \in [Policies!Versions -> VersionStatus]
    /\ everPublished \in BOOLEAN /\ interrupted \in BOOLEAN /\ editsOverlapped \in BOOLEAN
    /\ DOMAIN editor = Editors
    /\ \A e \in Editors :
         /\ {"step", "target"} \subseteq DOMAIN editor[e]
         /\ editor[e].step \in Aiming => editor[e].target \in Policies!Versions
    /\ owner = "none" => ~everPublished /\ \A e \in Editors : editor[e].step = "idle"

\* A publication that ends leaves a live version or is known to have failed.
SomeLive ==
    owner = "row" /\ everPublished /\ Policies!Publishing = {} /\ ~interrupted
        => Policies!Live # {}

\* A publication that no archive ran into is alone between its statements and
\* finds nothing live when it publishes.
OneLive ==
    ~editsOverlapped =>
        /\ \A e \in Policies!Publishing, f \in Policies!Publishing : e = f
        /\ Policies!Publishing = {} \/ Policies!Live = {}
        /\ \A v \in Policies!Live, w \in Policies!Live : v = w

VersionInv == VersionShape /\ SomeLive /\ OneLive

LEMMA VersionInitially == Policies!VersionInit => VersionInv
<1> SUFFICES ASSUME Policies!VersionInit PROVE VersionInv
  OBVIOUS
<1>1. VersionShape
  BY DEF Policies!VersionInit, VersionShape, VersionStatus, Aiming, Policies!IdleEditor
<1>2. Policies!Live = {} /\ Policies!Publishing = {}
  BY DEF Policies!VersionInit, Policies!Live, Policies!Publishing, Policies!IdleEditor
<1> QED
  BY <1>1, <1>2 DEF VersionInv, SomeLive, OneLive, Policies!VersionInit

\* What the next statement of a request leaves of the requests.
EditorTurn(e) ==
    /\ DOMAIN editor' = Editors
    /\ \A f \in Editors \ {e} : editor'[f] = editor[f]
    /\ {"step", "target"} \subseteq DOMAIN editor'[e]
    /\ editor'[e].step \in Aiming => editor'[e].target \in Policies!Versions

LEMMA PublishingAfter ==
    ASSUME NEW e \in Editors, EditorTurn(e)
    PROVE  Policies!Publishing' = IF editor'[e].step \in {"insert", "promote"}
                                     THEN Policies!Publishing \cup {e}
                                     ELSE Policies!Publishing \ {e}
  BY DEF EditorTurn, Policies!Publishing

\* A step of a request that publishes and archives nothing.
LEMMA QuietEdit ==
    ASSUME VersionInv, NEW e \in Editors, EditorTurn(e), owner = "row" \/ owner = "deleted",
           editor[e].step \notin {"insert", "promote"},
           editor'[e].step \notin {"insert", "promote"},
           UNCHANGED <<owner, everPublished, interrupted, editsOverlapped>>,
           version' \in [Policies!Versions -> VersionStatus],
           Policies!Live' = Policies!Live
    PROVE  VersionInv'
<1>1. Policies!Publishing' = Policies!Publishing
  BY PublishingAfter DEF Policies!Publishing
<1>2. VersionShape'
  BY DEF VersionInv, VersionShape, EditorTurn
<1> QED
  BY <1>1, <1>2 DEF VersionInv, SomeLive, OneLive

LEMMA OwnerStep ==
    ASSUME VersionInv, Policies!CreateOwner \/ Policies!DeleteOwner PROVE VersionInv'
<1> USE DEF VersionInv, VersionShape
<1>1. CASE Policies!CreateOwner
  BY <1>1 DEF Policies!CreateOwner, SomeLive, OneLive, Policies!Publishing, Policies!Live
<1>2. CASE Policies!DeleteOwner
  <2>1. /\ version' \in [Policies!Versions -> VersionStatus] /\ Policies!Live' = {}
        /\ owner' = "deleted" /\ UNCHANGED <<editor, everPublished, interrupted, editsOverlapped>>
    BY <1>2 DEF Policies!DeleteOwner, VersionStatus, Policies!Live
  <2>2. Policies!Publishing' = Policies!Publishing
    BY <2>1 DEF Policies!Publishing
  <2> QED
    BY <2>1, <2>2 DEF SomeLive, OneLive
<1> QED
  BY <1>1, <1>2

LEMMA NewestDraft ==
    ASSUME MaxVersions \in Nat, Policies!Drafts # {}
    PROVE  Policies!Max(Policies!Drafts) \in Policies!Versions
<1>1. Policies!Drafts \subseteq 0..MaxVersions
  BY DEF Policies!Drafts, Policies!Versions
<1>2. \E x \in Policies!Drafts : \A y \in Policies!Drafts : x >= y
  BY <1>1, GreatestOfBounded
<1>3. Policies!Max(Policies!Drafts) \in Policies!Drafts
  BY <1>2 DEF Policies!Max
<1> QED
  BY <1>3 DEF Policies!Drafts

LEMMA QuietEdits ==
    ASSUME MaxVersions \in Nat, VersionInv, NEW e \in Editors,
           \/ Policies!PublishPolicy(e) \/ Policies!PublishLatestDraft(e)
           \/ Policies!SaveDraftPolicy(e) \/ Policies!RewriteDraft(e)
           \/ Policies!CountVersions(e) \/ Policies!InsertDraft(e) \/ Policies!FindCreated(e)
           \/ \E v \in Policies!Versions : Policies!RollbackPolicy(e, v) \/ Policies!PublishVersion(e, v)
           \/ \E publish \in BOOLEAN : Policies!CreateVersion(e, publish)
    PROVE  VersionInv'
<1> USE DEF Policies!Goes, Policies!Ends, Policies!IdleEditor, EditorTurn, Aiming, VersionShape,
        VersionInv
<1>1. editor[e].step \notin {"insert", "promote"}
  BY DEF Policies!PublishPolicy, Policies!PublishLatestDraft, Policies!SaveDraftPolicy,
     Policies!RewriteDraft, Policies!CountVersions, Policies!InsertDraft,
     Policies!FindCreated, Policies!RollbackPolicy, Policies!PublishVersion,
     Policies!CreateVersion
<1>2. UNCHANGED <<owner, everPublished, interrupted, editsOverlapped>>
  BY DEF Policies!PublishPolicy, Policies!PublishLatestDraft, Policies!SaveDraftPolicy,
     Policies!RewriteDraft, Policies!CountVersions, Policies!InsertDraft,
     Policies!FindCreated, Policies!RollbackPolicy, Policies!PublishVersion,
     Policies!CreateVersion
<1>3. owner = "row" \/ owner = "deleted"
  BY DEF Policies!PublishPolicy, Policies!PublishLatestDraft, Policies!SaveDraftPolicy,
     Policies!RewriteDraft, Policies!CountVersions, Policies!InsertDraft,
     Policies!FindCreated, Policies!RollbackPolicy, Policies!PublishVersion,
     Policies!CreateVersion
<1>4. version' \in [Policies!Versions -> VersionStatus] /\ Policies!Live' = Policies!Live
  <2>1. CASE Policies!InsertDraft(e)
    BY <2>1 DEF Policies!InsertDraft, VersionStatus, Policies!Live
  <2>2. CASE ~Policies!InsertDraft(e)
    <3>1. UNCHANGED version
      BY <2>2 DEF Policies!PublishPolicy, Policies!PublishLatestDraft,
         Policies!SaveDraftPolicy, Policies!RewriteDraft, Policies!CountVersions,
         Policies!FindCreated, Policies!RollbackPolicy, Policies!PublishVersion,
         Policies!CreateVersion
    <3> QED
      BY <3>1 DEF Policies!Live
  <2> QED
    BY <2>1, <2>2
<1>5. EditorTurn(e) /\ editor'[e].step \notin {"insert", "promote"}
  <2>1. CASE Policies!PublishPolicy(e) \/ \E v \in Policies!Versions : Policies!RollbackPolicy(e, v)
    BY <2>1 DEF Policies!PublishPolicy, Policies!RollbackPolicy
  <2>2. CASE Policies!PublishLatestDraft(e)
    BY <2>2, NewestDraft DEF Policies!PublishLatestDraft
  <2>3. CASE Policies!SaveDraftPolicy(e)
    BY <2>3 DEF Policies!SaveDraftPolicy
  <2>4. CASE Policies!RewriteDraft(e)
    BY <2>4 DEF Policies!RewriteDraft
  <2>5. CASE Policies!CountVersions(e)
    BY <2>5 DEF Policies!CountVersions
  <2>6. CASE Policies!InsertDraft(e)
    BY <2>6 DEF Policies!InsertDraft
  <2>7. CASE Policies!FindCreated(e)
    BY <2>7 DEF Policies!FindCreated
  <2>8. CASE \E v \in Policies!Versions : Policies!PublishVersion(e, v)
    BY <2>8 DEF Policies!PublishVersion
  <2>9. CASE \E publish \in BOOLEAN : Policies!CreateVersion(e, publish)
    BY <2>9 DEF Policies!CreateVersion
  <2> QED
    BY <2>1, <2>2, <2>3, <2>4, <2>5, <2>6, <2>7, <2>8, <2>9
<1> QED
  BY <1>1, <1>2, <1>3, <1>4, <1>5, QuietEdit

LEMMA ArchiveStep ==
    ASSUME VersionInv, NEW e \in Editors, Policies!Archive(e) PROVE VersionInv'
<1> USE DEF VersionInv, VersionShape
<1>1. EditorTurn(e) /\ editor'[e].step \in {"insert", "promote"}
  BY DEF Policies!Archive, Policies!Goes, EditorTurn, Aiming
<1>2. Policies!Publishing' = Policies!Publishing \cup {e}
  BY <1>1, PublishingAfter
<1>3. version' \in [Policies!Versions -> VersionStatus] /\ Policies!Live' = {}
  BY DEF Policies!Archive, Policies!Archived, Policies!Live, VersionStatus
<1>4. /\ UNCHANGED <<owner, everPublished, interrupted>>
      /\ editsOverlapped' \in BOOLEAN /\ (~editsOverlapped' => Policies!Publishing = {})
  BY DEF Policies!Archive
<1>5. owner # "none"
  BY DEF Policies!Archive
<1>6. VersionShape'
  BY <1>1, <1>3, <1>4, <1>5 DEF EditorTurn
<1>7. SomeLive' /\ OneLive'
  BY <1>2, <1>3, <1>4 DEF SomeLive, OneLive
<1> QED
  BY <1>6, <1>7

\* A publishing statement that writes its row, or fails.
LEMMA PublishEnds ==
    ASSUME VersionInv, NEW e \in Editors, e \in Policies!Publishing, NEW ok \in BOOLEAN,
           version' = IF ok THEN [version EXCEPT ![editor[e].target] = "published"] ELSE version,
           everPublished' = (everPublished \/ ok), interrupted' = ~ok,
           Policies!Ends(e), UNCHANGED <<owner, editsOverlapped>>
    PROVE  VersionInv'
<1> USE DEF VersionInv, VersionShape
<1>1. EditorTurn(e) /\ editor'[e].step = "idle"
  BY DEF Policies!Ends, Policies!IdleEditor, EditorTurn, Aiming
<1>2. Policies!Publishing' = Policies!Publishing \ {e}
  BY <1>1, PublishingAfter
<1>3. editor[e].target \in Policies!Versions /\ owner # "none"
  BY DEF Policies!Publishing, Aiming
<1>4. /\ version' \in [Policies!Versions -> VersionStatus]
      /\ Policies!Live' = IF ok THEN Policies!Live \cup {editor[e].target} ELSE Policies!Live
  BY <1>3 DEF Policies!Live, VersionStatus
<1>5. VersionShape'
  BY <1>1, <1>3, <1>4 DEF EditorTurn
<1>6. SomeLive'
  BY <1>4 DEF SomeLive
<1>7. OneLive'
  BY <1>2, <1>4 DEF OneLive
<1> QED
  BY <1>5, <1>6, <1>7

LEMMA PublishStep ==
    ASSUME VersionInv, NEW e \in Editors, Policies!InsertPublished(e) \/ Policies!PromoteRow(e)
    PROVE  VersionInv'
<1>1. CASE Policies!InsertPublished(e)
  <2> DEFINE ok == owner = "row" /\ version[editor[e].target] = "none"
  <2>1. e \in Policies!Publishing /\ ok \in BOOLEAN
    BY <1>1 DEF Policies!InsertPublished, Policies!Publishing
  <2>2. /\ version' = IF ok THEN [version EXCEPT ![editor[e].target] = "published"] ELSE version
        /\ everPublished' = (everPublished \/ ok) /\ interrupted' = ~ok
        /\ Policies!Ends(e) /\ UNCHANGED <<owner, editsOverlapped>>
    BY <1>1 DEF Policies!InsertPublished
  <2> HIDE DEF ok
  <2> QED
    BY <2>1, <2>2, PublishEnds
<1>2. CASE Policies!PromoteRow(e)
  <2> DEFINE ok == version[editor[e].target] # "none"
  <2>1. e \in Policies!Publishing /\ ok \in BOOLEAN
    BY <1>2 DEF Policies!PromoteRow, Policies!Publishing
  <2>2. /\ version' = IF ok THEN [version EXCEPT ![editor[e].target] = "published"] ELSE version
        /\ everPublished' = (everPublished \/ ok) /\ interrupted' = ~ok
        /\ Policies!Ends(e) /\ UNCHANGED <<owner, editsOverlapped>>
    BY <1>2 DEF Policies!PromoteRow
  <2> HIDE DEF ok
  <2> QED
    BY <2>1, <2>2, PublishEnds
<1> QED
  BY <1>1, <1>2

LEMMA EditorFailsStep ==
    ASSUME VersionInv, NEW e \in Editors, Policies!EditorFails(e) PROVE VersionInv'
<1> USE DEF VersionInv, VersionShape
<1>1. EditorTurn(e) /\ editor'[e].step = "idle" /\ owner # "none"
  BY DEF Policies!EditorFails, Policies!Ends, Policies!IdleEditor, EditorTurn, Aiming
<1>2. Policies!Publishing' = Policies!Publishing \ {e}
  BY <1>1, PublishingAfter
<1>3. /\ UNCHANGED <<owner, version, everPublished, editsOverlapped>> /\ Policies!Live' = Policies!Live
      /\ interrupted' \in BOOLEAN /\ (~interrupted' => ~interrupted /\ e \notin Policies!Publishing)
  BY DEF Policies!EditorFails, Policies!Live
<1>4. VersionShape'
  BY <1>1, <1>3 DEF EditorTurn
<1>5. SomeLive' /\ OneLive'
  BY <1>2, <1>3 DEF SomeLive, OneLive
<1> QED
  BY <1>4, <1>5

LEMMA VersionStep ==
    ASSUME MaxVersions \in Nat, VersionInv, [Policies!VersionNext]_Policies!versionVars
    PROVE  VersionInv'
<1>1. CASE UNCHANGED Policies!versionVars
  BY <1>1 DEF Policies!versionVars, VersionInv, VersionShape, SomeLive, OneLive,
     Policies!Publishing, Policies!Live
<1> QED
  BY <1>1, OwnerStep, QuietEdits, ArchiveStep, PublishStep, EditorFailsStep
     DEF Policies!VersionNext

\* The instance's copy of the operator is the operator.
LEMMA VersionCardinality == \A S : Policies!Cardinality(S) = Cardinality(S)
  BY DEF Policies!Cardinality, Cardinality

\* The inductive invariant of the versions: a publication that ends leaves a
\* live version or is known to have failed, and two live versions come only
\* from two publications at once (db/route_groups.py, db/prompt_registry.py).
THEOREM VersionInvariance ==
    ASSUME MaxVersions \in Nat PROVE Policies!VersionSpec => []VersionInv
  BY VersionInitially, VersionStep, PTL DEF Policies!VersionSpec

\* Of a route group or prompt that was published, one version is published
\* whenever no publication is under way, unless a publication failed after its
\* archive or two of them overlapped (db/route_groups.py, db/prompt_registry.py).
THEOREM LiveSafe ==
    ASSUME MaxVersions \in Nat PROVE Policies!VersionSpec => []Policies!LiveVersionKept
<1>1. VersionInv => Policies!LiveVersionKept
  <2> SUFFICES ASSUME VersionInv, owner = "row", everPublished, Policies!Publishing = {}
               PROVE  /\ ~interrupted => Policies!Live # {}
                      /\ ~editsOverlapped => Policies!Cardinality(Policies!Live) <= 1
    BY DEF Policies!LiveVersionKept
  <2>1. ~interrupted => Policies!Live # {}
    BY DEF VersionInv, SomeLive
  <2>2. ASSUME ~editsOverlapped PROVE Policies!Cardinality(Policies!Live) <= 1
    <3>1. Policies!Live = {} \/ \E v : Policies!Live = {v}
      BY <2>2 DEF VersionInv, OneLive
    <3> QED
      BY <3>1, FS_EmptySet, FS_Singleton, VersionCardinality
  <2> QED
    BY <2>1, <2>2
<1> QED
  BY <1>1, VersionInvariance, PTL

-----------------------------------------------------------------------------
(* McpGateway: the calls *)

CallShape ==
    /\ DOMAIN call = Calls
    /\ \A c \in Calls : {"step", "sid", "overtaken"} \subseteq DOMAIN call[c]

\* Only call c goes on.
CallTurn(c) ==
    /\ DOMAIN call' = Calls
    /\ \A d \in Calls \ {c} : call'[d] = call[d]
    /\ {"step", "sid", "overtaken"} \subseteq DOMAIN call'[c]

\* Steps that touch neither the approvals nor the upstream session.
LEMMA QuietCalls ==
    ASSUME CallShape, NEW c \in Calls,
           \/ Mcp!ToolsCall(c) \/ Mcp!PreparePayload(c) \/ Mcp!ChatCall(c)
           \/ Mcp!ForceInitialize(c) \/ Mcp!CheckPolicy(c) \/ Mcp!Acquire(c)
           \/ Mcp!ReadResultCache(c) \/ Mcp!StoreResult(c) \/ Mcp!ReleaseSlot(c)
    PROVE  /\ CallTurn(c)
           /\ call'[c].step \notin {"create", "init", "notify", "sent", "clear"}
           /\ UNCHANGED <<approval, raced, sess, live, opened>>
<1> USE DEF CallShape, CallTurn, Mcp!Goto, Mcp!GiveUp, Mcp!IdleCall, Mcp!approvals, Mcp!transport
<1>1. CASE Mcp!ToolsCall(c)
  BY <1>1 DEF Mcp!ToolsCall
<1>2. CASE Mcp!PreparePayload(c)
  BY <1>2 DEF Mcp!PreparePayload
<1>3. CASE Mcp!ChatCall(c)
  BY <1>3 DEF Mcp!ChatCall
<1>4. CASE Mcp!ForceInitialize(c)
  BY <1>4 DEF Mcp!ForceInitialize
<1>5. CASE Mcp!CheckPolicy(c)
  BY <1>5 DEF Mcp!CheckPolicy
<1>6. CASE Mcp!Acquire(c)
  BY <1>6 DEF Mcp!Acquire
<1>7. CASE Mcp!ReadResultCache(c)
  BY <1>7 DEF Mcp!ReadResultCache
<1>8. CASE Mcp!StoreResult(c)
  BY <1>8 DEF Mcp!StoreResult
<1>9. CASE Mcp!ReleaseSlot(c)
  <2> DEFINE h == call[c].hops + 1
             r == [Mcp!IdleCall EXCEPT !.step = "model", !.kind = "chat", !.hops = h]
  <2>1. \E q \in {Mcp!IdleCall, r} : call' = [call EXCEPT ![c] = q]
    BY <1>9 DEF Mcp!ReleaseSlot
  <2> HIDE DEF h
  <2>2. \A q \in {Mcp!IdleCall, r} :
          {"step", "sid", "overtaken"} \subseteq DOMAIN q /\ q.step \in {"idle", "model"}
    <3>1. DOMAIN r = DOMAIN Mcp!IdleCall /\ r.step = "model"
      OBVIOUS
    <3>2. /\ {"step", "sid", "overtaken"} \subseteq DOMAIN Mcp!IdleCall
          /\ Mcp!IdleCall.step = "idle"
      OBVIOUS
    <3> HIDE DEF r, Mcp!IdleCall
    <3> QED
      BY <3>1, <3>2
  <2> HIDE DEF r, Mcp!IdleCall
  <2>3. CallTurn(c) /\ call'[c].step \in {"idle", "model"}
    BY <2>1, <2>2
  <2> QED
    BY <1>9, <2>3 DEF Mcp!ReleaseSlot
<1> QED
  BY <1>1, <1>2, <1>3, <1>4, <1>5, <1>6, <1>7, <1>8, <1>9

\* Steps on the upstream session.
LEMMA TransportCalls ==
    ASSUME CallShape, NEW c \in Calls,
           \/ Mcp!EnsureInitialized(c) \/ Mcp!ForcedInitialize(c) \/ Mcp!Initialize(c)
           \/ Mcp!NotifyInitialized(c) \/ Mcp!ServerAnswers(c) \/ Mcp!ClearSession(c)
           \/ Mcp!PolicyTimeout(c)
    PROVE  CallTurn(c) /\ call'[c].step # "create" /\ UNCHANGED <<approval, raced>>
<1> USE DEF CallShape, CallTurn, Mcp!Goto, Mcp!GiveUp, Mcp!IdleCall, Mcp!approvals, Mcp!transport,
        Mcp!Sending, Mcp!Finished
<1>1. CASE Mcp!EnsureInitialized(c)
  BY <1>1 DEF Mcp!EnsureInitialized
<1>2. CASE Mcp!ForcedInitialize(c)
  BY <1>2 DEF Mcp!ForcedInitialize
<1>3. CASE Mcp!Initialize(c)
  BY <1>3 DEF Mcp!Initialize
<1>4. CASE Mcp!NotifyInitialized(c)
  BY <1>4 DEF Mcp!NotifyInitialized
<1>5. CASE Mcp!ServerAnswers(c)
  BY <1>5 DEF Mcp!ServerAnswers
<1>6. CASE Mcp!ClearSession(c)
  BY <1>6 DEF Mcp!ClearSession
<1>7. CASE Mcp!PolicyTimeout(c)
  BY <1>7 DEF Mcp!PolicyTimeout
<1> QED
  BY <1>1, <1>2, <1>3, <1>4, <1>5, <1>6, <1>7

\* Steps on the approval rows.
LEMMA ApprovalCalls ==
    ASSUME CallShape, NEW c \in Calls,
           \/ Mcp!ExpireStaleApprovalRequests(c) \/ Mcp!FindActiveApprovalRequest(c)
           \/ Mcp!CreateApprovalRequest(c)
    PROVE  /\ CallShape'
           /\ call'[c].step \in {"idle", "find", "create", "acquire"}
           /\ \A d \in Calls \ {c} : call'[d].step = call[d].step /\ call'[d].sid = call[d].sid
           /\ UNCHANGED <<sess, live, opened>>
<1> USE DEF CallShape, Mcp!Goto, Mcp!GiveUp, Mcp!IdleCall, Mcp!transport
<1>1. CASE Mcp!ExpireStaleApprovalRequests(c)
  BY <1>1 DEF Mcp!ExpireStaleApprovalRequests
<1>2. CASE Mcp!FindActiveApprovalRequest(c)
  BY <1>2 DEF Mcp!FindActiveApprovalRequest
<1>3. CASE Mcp!CreateApprovalRequest(c)
  <2>1. \/ call' = [call EXCEPT ![c] = Mcp!IdleCall]
        \/ call' = [Mcp!Overtaken EXCEPT ![c] = Mcp!IdleCall]
    BY <1>3 DEF Mcp!CreateApprovalRequest
  <2>2. UNCHANGED <<sess, live, opened>>
    BY <1>3 DEF Mcp!CreateApprovalRequest
  <2>3. CASE call' = [call EXCEPT ![c] = Mcp!IdleCall]
    BY <2>2, <2>3
  <2>4. CASE call' = [Mcp!Overtaken EXCEPT ![c] = Mcp!IdleCall]
    BY <2>2, <2>4 DEF Mcp!Overtaken
  <2> QED
    BY <2>1, <2>3, <2>4
<1> QED
  BY <1>1, <1>2, <1>3

\* Requests that need an approval, and the decision of an administrator.
LEMMA DecisionCalls ==
    ASSUME CallShape, NEW r, NEW d, Mcp!DecideApprovalRequest(r, d)
    PROVE  /\ CallShape'
           /\ \A c \in Calls : /\ call'[c].step = call[c].step /\ call'[c].sid = call[c].sid
                               /\ call'[c].overtaken
           /\ UNCHANGED <<raced, sess, live, opened>>
  BY DEF CallShape, Mcp!DecideApprovalRequest, Mcp!Overtaken, Mcp!transport

-----------------------------------------------------------------------------
(* McpGateway: one active approval request *)

ApprovalShape ==
    /\ CallShape
    /\ DOMAIN approval = Mcp!Rows
    /\ \A r \in Mcp!Rows : {"status", "lapsed"} \subseteq DOMAIN approval[r]
    /\ raced \in BOOLEAN

\* The partial unique index keeps one pending row; no row is active while a
\* call that looked and was not overtaken is about to insert; and without an
\* insert across a decision, a pending row excludes every other active one.
ApprovalInv ==
    /\ ApprovalShape
    /\ \A p \in Mcp!Pending, q \in Mcp!Pending : p = q
    /\ \A c \in Calls : call[c].step = "create" /\ ~call[c].overtaken => Mcp!Active = {}
    /\ ~raced => \A p \in Mcp!Pending \cup Mcp!Active, r \in Mcp!Active : p = r

LEMMA ApprovalInit == Mcp!McpInit => ApprovalInv
<1> SUFFICES ASSUME Mcp!McpInit PROVE ApprovalInv
  OBVIOUS
<1>1. ApprovalShape /\ \A c \in Calls : call[c].step = "idle"
  BY DEF Mcp!McpInit, ApprovalShape, CallShape, Mcp!IdleCall, Mcp!NoRow
<1>2. Mcp!Pending = {} /\ Mcp!Active = {}
  BY DEF Mcp!McpInit, Mcp!NoRow, Mcp!Pending, Mcp!Active, Mcp!Decided
<1> QED
  BY <1>1, <1>2 DEF ApprovalInv

\* No row becomes active or pending, and no call comes to insert one.
LEMMA ApprovalQuiet ==
    ASSUME ApprovalInv, CallShape', UNCHANGED raced,
           DOMAIN approval' = Mcp!Rows,
           \A r \in Mcp!Rows : {"status", "lapsed"} \subseteq DOMAIN approval'[r],
           Mcp!Pending' \subseteq Mcp!Pending, Mcp!Active' \subseteq Mcp!Active,
           \A c \in Calls :
              call'[c].step = "create" => call'[c].overtaken \/ call'[c] = call[c]
    PROVE  ApprovalInv'
  BY DEF ApprovalInv, ApprovalShape

LEMMA ExpireStep ==
    ASSUME ApprovalInv, NEW c \in Calls, Mcp!ExpireStaleApprovalRequests(c) PROVE ApprovalInv'
<1>1. /\ CallShape' /\ UNCHANGED raced
      /\ call'[c].step = "find" /\ \A d \in Calls \ {c} : call'[d] = call[d]
  BY DEF ApprovalInv, ApprovalShape, CallShape, Mcp!ExpireStaleApprovalRequests, Mcp!Goto
<1>2. /\ DOMAIN approval' = Mcp!Rows
      /\ \A r \in Mcp!Rows :
           /\ {"status", "lapsed"} \subseteq DOMAIN approval'[r]
           /\ \/ approval'[r] = approval[r]
              \/ approval'[r].status = "expired" /\ approval'[r].lapsed = approval[r].lapsed
  BY DEF ApprovalInv, ApprovalShape, Mcp!ExpireStaleApprovalRequests
<1>3. Mcp!Pending' \subseteq Mcp!Pending /\ Mcp!Active' \subseteq Mcp!Active
  BY <1>2 DEF Mcp!Pending, Mcp!Active, Mcp!Decided
<1> QED
  BY <1>1, <1>2, <1>3, ApprovalQuiet

LEMMA FindStep ==
    ASSUME ApprovalInv, NEW c \in Calls, Mcp!FindActiveApprovalRequest(c) PROVE ApprovalInv'
<1>1. UNCHANGED <<approval, raced>>
  BY DEF Mcp!FindActiveApprovalRequest, Mcp!approvals
<1>2. Mcp!Pending' = Mcp!Pending /\ Mcp!Active' = Mcp!Active
  BY <1>1 DEF Mcp!Pending, Mcp!Active
<1>3. /\ CallShape' /\ \A d \in Calls \ {c} : call'[d] = call[d]
      /\ call'[c].step = "create" => Mcp!Active = {}
  BY DEF ApprovalInv, ApprovalShape, CallShape, Mcp!FindActiveApprovalRequest, Mcp!Goto,
     Mcp!GiveUp, Mcp!IdleCall
<1> QED
  BY <1>1, <1>2, <1>3 DEF ApprovalInv, ApprovalShape

LEMMA CreateStep ==
    ASSUME ApprovalInv, NEW c \in Calls, Mcp!CreateApprovalRequest(c) PROVE ApprovalInv'
<1> USE DEF ApprovalInv, ApprovalShape
<1>1. CASE Mcp!Conflicting # {}
  <2>1. UNCHANGED <<approval, raced>> /\ CallShape' /\ call'[c].step = "idle"
        /\ \A d \in Calls \ {c} : call'[d] = call[d]
    BY <1>1 DEF Mcp!CreateApprovalRequest, CallShape, Mcp!approvals, Mcp!GiveUp,
       Mcp!IdleCall
  <2>2. Mcp!Pending' = Mcp!Pending /\ Mcp!Active' = Mcp!Active
    BY <2>1 DEF Mcp!Pending, Mcp!Active
  <2> QED
    BY <2>1, <2>2, ApprovalQuiet
<1>2. CASE Mcp!Conflicting = {}
  <2>1. PICK n \in Mcp!Rows :
          /\ approval[n].status = "none"
          /\ approval' = [approval EXCEPT ![n] =
                            [status |-> "pending", lapsed |-> FALSE, at |-> clock + 1]]
          /\ raced' = (raced \/ (call[c].overtaken
                                 /\ \E s \in Mcp!Active : approval[s].status \in Mcp!Decided))
          /\ call' = [Mcp!Overtaken EXCEPT ![c] = Mcp!IdleCall]
    BY <1>2 DEF Mcp!CreateApprovalRequest
  <2>2. /\ CallShape' /\ call'[c].step = "idle"
        /\ \A d \in Calls \ {c} : call'[d].overtaken
    BY <2>1 DEF CallShape, Mcp!Overtaken, Mcp!IdleCall
  <2>3. /\ DOMAIN approval' = Mcp!Rows
        /\ \A r \in Mcp!Rows : {"status", "lapsed"} \subseteq DOMAIN approval'[r]
        /\ \A r \in Mcp!Rows \ {n} : approval'[r] = approval[r]
        /\ approval'[n].status = "pending" /\ ~approval'[n].lapsed
    BY <2>1
  <2>4. Mcp!Pending = {}
    BY <1>2 DEF Mcp!Conflicting
  <2>5. Mcp!Pending' = {n} /\ Mcp!Active' = Mcp!Active \cup {n}
    BY <2>3, <2>4 DEF Mcp!Pending, Mcp!Active
  <2>6. raced' \in BOOLEAN
    BY <2>1
  <2>7. ~raced' => Mcp!Active = {}
    <3> SUFFICES ASSUME ~raced', NEW s \in Mcp!Active PROVE FALSE
      OBVIOUS
    <3>1. ~call[c].overtaken \/ approval[s].status \notin Mcp!Decided
      BY <2>1
    <3>2. CASE ~call[c].overtaken
      BY <3>2 DEF Mcp!CreateApprovalRequest, Mcp!At
    <3>3. CASE approval[s].status \notin Mcp!Decided
      BY <3>3, <2>4 DEF Mcp!Pending, Mcp!Active
    <3> QED
      BY <3>1, <3>2, <3>3
  <2> QED
    BY <2>2, <2>3, <2>5, <2>6, <2>7
<1> QED
  BY <1>1, <1>2

LEMMA DecideStep ==
    ASSUME ApprovalInv, NEW r \in Mcp!Rows, NEW d \in Mcp!Decided,
           Mcp!DecideApprovalRequest(r, d)
    PROVE  ApprovalInv'
<1> USE DEF ApprovalInv, ApprovalShape
<1>1. /\ CallShape' /\ UNCHANGED raced
      /\ \A c \in Calls : call'[c].overtaken
  BY DecisionCalls
<1>2. /\ DOMAIN approval' = Mcp!Rows
      /\ \A s \in Mcp!Rows : {"status", "lapsed"} \subseteq DOMAIN approval'[s]
      /\ \A s \in Mcp!Rows \ {r} : approval'[s] = approval[s]
      /\ approval'[r].status = d
  BY DEF Mcp!DecideApprovalRequest
<1>3. r \in Mcp!Pending
  BY DEF Mcp!DecideApprovalRequest, Mcp!Pending
<1>4. Mcp!Pending' = {}
  BY <1>2, <1>3 DEF Mcp!Pending, Mcp!Decided
<1>5. Mcp!Active' \subseteq Mcp!Active \cup {r}
  BY <1>2 DEF Mcp!Active
<1> QED
  BY <1>1, <1>2, <1>3, <1>4, <1>5

LEMMA LapseStep ==
    ASSUME ApprovalInv, NEW r \in Mcp!Rows, Mcp!ApprovalLapses(r) PROVE ApprovalInv'
<1> USE DEF ApprovalInv, ApprovalShape
<1>1. /\ DOMAIN approval' = Mcp!Rows /\ UNCHANGED <<raced, call>>
      /\ \A s \in Mcp!Rows : {"status", "lapsed"} \subseteq DOMAIN approval'[s]
      /\ \A s \in Mcp!Rows \ {r} : approval'[s] = approval[s]
      /\ approval'[r].lapsed /\ approval'[r].status = approval[r].status
  BY DEF Mcp!ApprovalLapses
<1>2. Mcp!Pending' = Mcp!Pending /\ Mcp!Active' \subseteq Mcp!Active
  BY <1>1 DEF Mcp!Pending, Mcp!Active
<1> QED
  BY <1>1, <1>2, ApprovalQuiet DEF CallShape

LEMMA ApprovalStep == ASSUME ApprovalInv, [Mcp!McpNext]_Mcp!mcpVars PROVE ApprovalInv'
<1> USE DEF ApprovalInv, ApprovalShape
<1>1. ASSUME UNCHANGED <<approval, raced>>, CallShape',
             \A d \in Calls : call'[d].step = "create" => call'[d] = call[d]
      PROVE  ApprovalInv'
  BY <1>1, ApprovalQuiet DEF Mcp!Pending, Mcp!Active
<1>2. CASE \/ Mcp!SetPolicy \/ Mcp!CachedResultExpires \/ Mcp!PruneSession
           \/ \E i \in 1..MaxServerSessions : Mcp!ServerForgets(i)
           \/ UNCHANGED Mcp!mcpVars
  <2>1. UNCHANGED <<approval, raced, call>>
    BY <1>2 DEF Mcp!SetPolicy, Mcp!CachedResultExpires, Mcp!PruneSession,
       Mcp!ServerForgets, Mcp!mcpVars, Mcp!approvals
  <2> QED
    BY <2>1, <1>1 DEF CallShape
<1>3. ASSUME NEW c \in Calls,
             \/ Mcp!ToolsCall(c) \/ Mcp!PreparePayload(c) \/ Mcp!ChatCall(c)
             \/ Mcp!ForceInitialize(c) \/ Mcp!CheckPolicy(c) \/ Mcp!Acquire(c)
             \/ Mcp!ReadResultCache(c) \/ Mcp!StoreResult(c) \/ Mcp!ReleaseSlot(c)
             \/ Mcp!EnsureInitialized(c) \/ Mcp!ForcedInitialize(c) \/ Mcp!Initialize(c)
             \/ Mcp!NotifyInitialized(c) \/ Mcp!ServerAnswers(c) \/ Mcp!ClearSession(c)
             \/ Mcp!PolicyTimeout(c)
      PROVE  ApprovalInv'
  <2>1. CallTurn(c) /\ call'[c].step # "create" /\ UNCHANGED <<approval, raced>>
    BY <1>3, QuietCalls, TransportCalls
  <2> QED
    BY <2>1, <1>1 DEF CallTurn, CallShape
<1> QED
  BY <1>2, <1>3, ExpireStep, FindStep, CreateStep, DecideStep, LapseStep DEF Mcp!McpNext

\* The inductive invariant of the approval rows, from the lookup before an
\* insert and the partial unique index on pending rows (mcp/approvals.py).
THEOREM ApprovalInvariance == Mcp!McpSpec => []ApprovalInv
  BY ApprovalInit, ApprovalStep, PTL DEF Mcp!McpSpec

LEMMA McpCardinality == \A S : Mcp!Cardinality(S) = Cardinality(S)
  BY DEF Mcp!Cardinality, Cardinality

\* Calls that need the same approval share one request: a second active row
\* arises only when one was decided between a call's lookup and its insert
\* (mcp/approvals.py, create_approval_request and its partial unique index).
THEOREM ApprovalSafe == Mcp!McpSpec => []Mcp!OneActiveRequest
<1>1. ApprovalInv => Mcp!OneActiveRequest
  <2> SUFFICES ASSUME ApprovalInv, ~raced PROVE Mcp!Cardinality(Mcp!Active) <= 1
    BY DEF Mcp!OneActiveRequest
  <2>1. Mcp!Active = {} \/ \E r : Mcp!Active = {r}
    BY DEF ApprovalInv
  <2>2. Cardinality(Mcp!Active) = 0 \/ Cardinality(Mcp!Active) = 1
    BY <2>1, FS_EmptySet, FS_Singleton
  <2> QED
    BY <2>2, McpCardinality
<1> QED
  BY <1>1, ApprovalInvariance, PTL

-----------------------------------------------------------------------------
(* McpGateway: a session the server knows is kept *)

TransportShape ==
    /\ CallShape
    /\ {"id", "ready", "lock", "gen"} \subseteq DOMAIN sess
    /\ sess.gen \in Nat /\ opened \in Nat
    /\ live \subseteq 1..opened /\ sess.id \in 0..opened

\* A call that initializes holds the lock of a session that is not ready; a
\* call sent or rejected names a session that was opened, and the server has
\* forgotten the rejected one for good, because its numbers are not reused.
TransportInv ==
    /\ TransportShape
    /\ \A c \in Calls :
         /\ call[c].step \in {"init", "notify"} => sess.lock = c /\ ~sess.ready
         /\ call[c].step = "sent" => call[c].sid \in 0..opened
         /\ call[c].step = "clear" => call[c].sid \in (0..opened) \ live

LEMMA TransportInit == Mcp!McpInit => TransportInv
  BY DEF Mcp!McpInit, TransportInv, TransportShape, CallShape, Mcp!IdleCall, Mcp!None

LEMMA TransportQuiet ==
    ASSUME TransportInv, CallShape', UNCHANGED <<sess, opened>>, live' \subseteq live,
           \A c \in Calls :
              call'[c].step \in {"init", "notify", "sent", "clear"}
                 => call'[c].step = call[c].step /\ call'[c].sid = call[c].sid
    PROVE  TransportInv' /\ Mcp!SessionKept
  BY DEF TransportInv, TransportShape, Mcp!SessionKept

\* Nobody is initializing while the lock is free.
LEMMA FreeLock ==
    ASSUME 0 \notin Calls, TransportInv, sess.lock = Mcp!None
    PROVE  \A c \in Calls : call[c].step \notin {"init", "notify"}
  BY DEF TransportInv, Mcp!None

LEMMA EnsureStep ==
    ASSUME 0 \notin Calls, TransportInv, NEW c \in Calls, Mcp!EnsureInitialized(c)
    PROVE  TransportInv' /\ Mcp!SessionKept
<1> USE DEF TransportInv, TransportShape
<1>1. CallTurn(c)
  BY TransportCalls
<1>2. UNCHANGED <<live, opened>>
  BY DEF Mcp!EnsureInitialized
<1>3. CASE sess.ready /\ Mcp!Sending(c, sess) /\ UNCHANGED sess
  <2>1. call'[c].step = "sent" /\ call'[c].sid = sess.id
    BY <1>3 DEF Mcp!Sending, CallShape
  <2> QED
    BY <1>1, <1>2, <1>3, <2>1 DEF CallTurn, CallShape, Mcp!SessionKept
<1>4. CASE /\ ~sess.ready /\ sess.lock = Mcp!None
           /\ sess' = [Mcp!Blank(sess) EXCEPT !.lock = c]
           /\ call' = [call EXCEPT ![c].step = "init", ![c].tries = 0]
  <2>1. call'[c].step = "init"
    BY <1>4 DEF CallShape
  <2>2. /\ {"id", "ready", "lock", "gen"} \subseteq DOMAIN sess'
        /\ sess'.id = 0 /\ ~sess'.ready /\ sess'.lock = c /\ sess'.gen = sess.gen
    BY <1>4 DEF Mcp!Blank, Mcp!None
  <2>3. \A d \in Calls : call[d].step \notin {"init", "notify"}
    BY <1>4, FreeLock
  <2> QED
    BY <1>1, <1>2, <1>4, <2>1, <2>2, <2>3 DEF CallTurn, CallShape, Mcp!SessionKept
<1> QED
  BY <1>3, <1>4 DEF Mcp!EnsureInitialized

LEMMA ForcedStep ==
    ASSUME 0 \notin Calls, TransportInv, NEW c \in Calls, Mcp!ForcedInitialize(c)
    PROVE  TransportInv' /\ Mcp!SessionKept
<1> USE DEF TransportInv, TransportShape
<1>1. CallTurn(c)
  BY TransportCalls
<1>2. UNCHANGED <<live, opened>> /\ call[c].step = "force"
  BY DEF Mcp!ForcedInitialize, Mcp!At
<1>3. call'[c].step = "init"
  BY DEF Mcp!ForcedInitialize, Mcp!Goto, CallShape
<1>4. /\ {"id", "ready", "lock", "gen"} \subseteq DOMAIN sess'
      /\ sess'.id = 0 /\ ~sess'.ready /\ sess'.lock = c /\ sess'.gen = sess.gen
  BY DEF Mcp!ForcedInitialize, Mcp!Blank, Mcp!None
<1>5. \A d \in Calls : call[d].step \notin {"init", "notify"}
  BY FreeLock DEF Mcp!ForcedInitialize
<1> QED
  BY <1>1, <1>2, <1>3, <1>4, <1>5 DEF CallTurn, CallShape, Mcp!SessionKept, Mcp!At

LEMMA InitializeStep ==
    ASSUME TransportInv, NEW c \in Calls, Mcp!Initialize(c)
    PROVE  TransportInv' /\ Mcp!SessionKept
<1> USE DEF TransportInv, TransportShape
<1>1. CallTurn(c)
  BY TransportCalls
<1>2. ~sess.ready /\ sess.lock = c
  BY DEF Mcp!Initialize, Mcp!At
<1>3. \A d \in Calls \ {c} : call[d].step \notin {"init", "notify"}
  BY <1>2
<1>4. CASE /\ opened' = opened + 1 /\ live' = live \cup {opened + 1}
           /\ sess' = [sess EXCEPT !.id = opened + 1]
           /\ Mcp!Goto(c, "notify")
  <2>1. call'[c].step = "notify"
    BY <1>4 DEF Mcp!Goto, CallShape
  <2>2. /\ {"id", "ready", "lock", "gen"} \subseteq DOMAIN sess' /\ sess'.id = opened + 1
        /\ ~sess'.ready /\ sess'.lock = c /\ sess'.gen = sess.gen
    BY <1>2, <1>4
  <2>3. TransportShape'
    BY <1>1, <1>4, <2>2 DEF CallTurn, CallShape
  <2>4. \A d \in Calls \ {c} :
          /\ call[d].step = "sent" => call[d].sid \in 0..opened'
          /\ call[d].step = "clear" => call[d].sid \in (0..opened') \ live'
    BY <1>4
  <2> QED
    BY <1>1, <1>2, <1>3, <2>1, <2>2, <2>3, <2>4 DEF CallTurn, Mcp!SessionKept
<1>5. CASE /\ sess' = [sess EXCEPT !.lock = Mcp!None] /\ Mcp!Finished(c)
           /\ UNCHANGED <<live, opened>>
  <2>1. call'[c].step \in {"idle", "release"}
    BY <1>5 DEF Mcp!Finished, Mcp!Goto, Mcp!GiveUp, Mcp!IdleCall, CallShape
  <2>2. /\ {"id", "ready", "lock", "gen"} \subseteq DOMAIN sess' /\ sess'.id = sess.id
        /\ sess'.gen = sess.gen
    BY <1>5
  <2> QED
    BY <1>1, <1>3, <1>5, <2>1, <2>2 DEF CallTurn, CallShape, Mcp!SessionKept
<1> QED
  BY <1>4, <1>5 DEF Mcp!Initialize

LEMMA NotifyStep ==
    ASSUME TransportInv, NEW c \in Calls, Mcp!NotifyInitialized(c)
    PROVE  TransportInv' /\ Mcp!SessionKept
<1> USE DEF TransportInv, TransportShape
<1>1. CallTurn(c)
  BY TransportCalls
<1>2. ~sess.ready /\ sess.lock = c /\ UNCHANGED <<live, opened>>
  BY DEF Mcp!NotifyInitialized, Mcp!At
<1>3. \A d \in Calls \ {c} : call[d].step \notin {"init", "notify"}
  BY <1>2
<1>4. CASE /\ sess' = [sess EXCEPT !.ready = TRUE, !.lock = Mcp!None]
           /\ IF call[c].kind = "probe" THEN Mcp!GiveUp(c) ELSE Mcp!Sending(c, sess)
  <2>1. \/ call'[c].step = "idle"
        \/ call'[c].step = "sent" /\ call'[c].sid = sess.id
    BY <1>4 DEF Mcp!GiveUp, Mcp!Sending, Mcp!IdleCall, CallShape
  <2>2. /\ {"id", "ready", "lock", "gen"} \subseteq DOMAIN sess' /\ sess'.id = sess.id
        /\ sess'.gen = sess.gen
    BY <1>4
  <2> QED
    BY <1>1, <1>2, <1>3, <2>1, <2>2 DEF CallTurn, CallShape, Mcp!SessionKept
<1>5. CASE /\ sess' = Mcp!Blank(sess)
           /\ call' = [call EXCEPT ![c].step = "init", ![c].tries = 1]
  <2>1. call'[c].step = "init"
    BY <1>5 DEF CallShape
  <2>2. /\ {"id", "ready", "lock", "gen"} \subseteq DOMAIN sess' /\ sess'.id = 0
        /\ ~sess'.ready /\ sess'.lock = c /\ sess'.gen = sess.gen
    BY <1>2, <1>5 DEF Mcp!Blank, Mcp!None
  <2> QED
    BY <1>1, <1>2, <1>3, <2>1, <2>2 DEF CallTurn, CallShape, Mcp!SessionKept
<1>6. CASE sess' = [Mcp!Blank(sess) EXCEPT !.lock = Mcp!None] /\ Mcp!Finished(c)
  <2>1. call'[c].step \in {"idle", "release"}
    BY <1>6 DEF Mcp!Finished, Mcp!Goto, Mcp!GiveUp, Mcp!IdleCall, CallShape
  <2>2. /\ {"id", "ready", "lock", "gen"} \subseteq DOMAIN sess' /\ sess'.id = 0
        /\ sess'.gen = sess.gen
    BY <1>6 DEF Mcp!Blank, Mcp!None
  <2> QED
    BY <1>1, <1>2, <1>3, <2>1, <2>2 DEF CallTurn, CallShape, Mcp!SessionKept
<1> QED
  BY <1>4, <1>5, <1>6 DEF Mcp!NotifyInitialized

LEMMA AnswerStep ==
    ASSUME TransportInv, NEW c \in Calls, Mcp!ServerAnswers(c)
    PROVE  TransportInv' /\ Mcp!SessionKept
<1> USE DEF TransportInv, TransportShape
<1>1. CallTurn(c) /\ UNCHANGED <<sess, live, opened>> /\ call[c].sid \in 0..opened
  BY TransportCalls DEF Mcp!ServerAnswers, Mcp!transport, Mcp!At
<1>2. /\ call'[c].sid = call[c].sid
      /\ \/ call'[c].step \in {"store", "release"}
         \/ call'[c].step = "clear" /\ call[c].sid \notin live
  BY DEF Mcp!ServerAnswers, Mcp!Goto, CallShape
<1> QED
  BY <1>1, <1>2 DEF CallTurn, CallShape, Mcp!SessionKept

LEMMA ClearStep ==
    ASSUME 0 \notin Calls, TransportInv, NEW c \in Calls, Mcp!ClearSession(c)
    PROVE  TransportInv' /\ Mcp!SessionKept
<1> USE DEF TransportInv, TransportShape
<1>1. CallTurn(c) /\ UNCHANGED <<live, opened>> /\ call[c].sid \in (0..opened) \ live
  BY TransportCalls DEF Mcp!ClearSession, Mcp!At
<1>2. call'[c].step \in {"release", "ensure"}
  BY DEF Mcp!ClearSession, CallShape
<1>3. CASE ~Mcp!Stale(c)
  <2>1. UNCHANGED sess
    BY <1>3 DEF Mcp!ClearSession
  <2> QED
    BY <1>1, <1>2, <2>1 DEF CallTurn, CallShape, Mcp!SessionKept
<1>4. CASE Mcp!Stale(c)
  <2>1. /\ sess.lock = Mcp!None /\ sess.id \notin live
        /\ {"id", "ready", "lock", "gen"} \subseteq DOMAIN sess'
        /\ sess'.id = 0 /\ sess'.gen = sess.gen
    BY <1>1, <1>4 DEF Mcp!ClearSession, Mcp!Stale, Mcp!Blank, Mcp!None
  <2>2. \A d \in Calls : call[d].step \notin {"init", "notify"}
    BY <2>1, FreeLock
  <2> QED
    BY <1>1, <1>2, <2>1, <2>2 DEF CallTurn, CallShape, Mcp!SessionKept
<1> QED
  BY <1>3, <1>4

LEMMA PruneStep ==
    ASSUME 0 \notin Calls, TransportInv, Mcp!PruneSession
    PROVE  TransportInv' /\ Mcp!SessionKept
<1> USE DEF TransportInv, TransportShape
<1>1. /\ UNCHANGED <<live, opened, call>>
      /\ {"id", "ready", "lock", "gen"} \subseteq DOMAIN sess'
      /\ sess'.id = 0 /\ sess'.gen = sess.gen + 1
  BY DEF Mcp!PruneSession, Mcp!Blank, Mcp!None
<1>2. \A d \in Calls : call[d].step \notin {"init", "notify"}
  BY FreeLock DEF Mcp!PruneSession
<1> QED
  BY <1>1, <1>2 DEF CallShape, Mcp!SessionKept

LEMMA TimeoutStep ==
    ASSUME TransportInv, NEW c \in Calls, Mcp!PolicyTimeout(c)
    PROVE  TransportInv' /\ Mcp!SessionKept
<1> USE DEF TransportInv, TransportShape
<1>1. CallTurn(c) /\ UNCHANGED <<live, opened>>
  BY TransportCalls DEF Mcp!PolicyTimeout
<1>2. call'[c].step = "release"
  BY DEF Mcp!PolicyTimeout, Mcp!Goto, CallShape
<1>3. /\ {"id", "ready", "lock", "gen"} \subseteq DOMAIN sess'
      /\ sess'.id = sess.id /\ sess'.gen = sess.gen /\ sess'.ready = sess.ready
      /\ sess'.lock = sess.lock \/ sess.lock = c
  BY DEF Mcp!PolicyTimeout
<1> QED
  BY <1>1, <1>2, <1>3 DEF CallTurn, CallShape, Mcp!SessionKept

LEMMA TransportStep ==
    ASSUME 0 \notin Calls, TransportInv, [Mcp!McpNext]_Mcp!mcpVars
    PROVE  TransportInv' /\ Mcp!SessionKept
<1> USE DEF TransportInv, TransportShape
<1>1. CASE \/ Mcp!SetPolicy \/ Mcp!CachedResultExpires
           \/ \E i \in 1..MaxServerSessions : Mcp!ServerForgets(i)
           \/ \E r \in Mcp!Rows : Mcp!ApprovalLapses(r)
           \/ UNCHANGED Mcp!mcpVars
  <2>1. UNCHANGED <<sess, opened, call>> /\ live' \subseteq live
    BY <1>1 DEF Mcp!SetPolicy, Mcp!CachedResultExpires, Mcp!ServerForgets,
       Mcp!ApprovalLapses, Mcp!mcpVars, Mcp!transport
  <2> QED
    BY <2>1, TransportQuiet DEF CallShape
<1>2. ASSUME NEW r \in Mcp!Rows, NEW d \in Mcp!Decided, Mcp!DecideApprovalRequest(r, d)
      PROVE  TransportInv' /\ Mcp!SessionKept
  BY <1>2, DecisionCalls, TransportQuiet
<1>3. ASSUME NEW c \in Calls,
             \/ Mcp!ExpireStaleApprovalRequests(c) \/ Mcp!FindActiveApprovalRequest(c)
             \/ Mcp!CreateApprovalRequest(c)
      PROVE  TransportInv' /\ Mcp!SessionKept
  <2>1. /\ CallShape' /\ call'[c].step \notin {"init", "notify", "sent", "clear"}
        /\ \A d \in Calls \ {c} : call'[d].step = call[d].step /\ call'[d].sid = call[d].sid
        /\ UNCHANGED <<sess, live, opened>>
    <3>1. CallShape
      OBVIOUS
    <3> HIDE DEF TransportInv, TransportShape
    <3>2. /\ CallShape' /\ UNCHANGED <<sess, live, opened>>
          /\ call'[c].step \in {"idle", "find", "create", "acquire"}
      BY <1>3, <3>1, ApprovalCalls
    <3>3. \A d \in Calls \ {c} : call'[d].step = call[d].step /\ call'[d].sid = call[d].sid
      BY <1>3, <3>1, ApprovalCalls
    <3> QED
      BY <3>2, <3>3
  <2> QED
    BY <2>1, TransportQuiet
<1>4. ASSUME NEW c \in Calls,
             \/ Mcp!ToolsCall(c) \/ Mcp!PreparePayload(c) \/ Mcp!ChatCall(c)
             \/ Mcp!ForceInitialize(c) \/ Mcp!CheckPolicy(c) \/ Mcp!Acquire(c)
             \/ Mcp!ReadResultCache(c) \/ Mcp!StoreResult(c) \/ Mcp!ReleaseSlot(c)
      PROVE  TransportInv' /\ Mcp!SessionKept
  <2>1. /\ CallTurn(c) /\ call'[c].step \notin {"init", "notify", "sent", "clear"}
        /\ UNCHANGED <<sess, live, opened>>
    BY <1>4, QuietCalls
  <2> QED
    BY <2>1, TransportQuiet DEF CallTurn, CallShape
<1> QED
  BY <1>1, <1>2, <1>3, <1>4, EnsureStep, ForcedStep, InitializeStep, NotifyStep,
     AnswerStep, ClearStep, PruneStep, TimeoutStep DEF Mcp!McpNext

\* The inductive invariant of the upstream session: the lock of an initialize,
\* and the numbers of sessions that calls remember (mcp/transport_http.py).
THEOREM TransportInvariance ==
    ASSUME 0 \notin Calls PROVE Mcp!McpSpec => []TransportInv
  BY TransportInit, TransportStep, PTL DEF Mcp!McpSpec

\* A call whose old session was rejected late never gives up the session that
\* replaced it: only a forced initialize or pruning drops one the server knows
\* (mcp/transport_http.py, _clear_session compares the rejected id).
THEOREM SessionKeptSafe ==
    ASSUME 0 \notin Calls PROVE Mcp!McpSpec => Mcp!LiveSessionKept
  BY TransportInvariance, TransportStep, PTL DEF Mcp!McpSpec, Mcp!LiveSessionKept

-----------------------------------------------------------------------------
(* Memberships: the statements of a request *)

LEMMA JoinedSequence ==
    ASSUME NEW S, NEW a \in S, NEW b \in S, NEW c \in S
    PROVE  <<a, b>> \o <<c>> = <<a, b, c>>
<1> DEFINE s == <<a, b>>
           u == <<c>>
           t == <<a, b, c>>
           w == s \o u
<1>1. s \in Seq(S) /\ u \in Seq(S) /\ t \in Seq(S)
  OBVIOUS
<1>2. Len(s) = 2 /\ Len(u) = 1 /\ Len(t) = 3
  OBVIOUS
<1>3. s[1] = a /\ s[2] = b /\ u[1] = c /\ t[1] = a /\ t[2] = b /\ t[3] = c
  OBVIOUS
<1> HIDE DEF s, u, t
<1>4. /\ s \o u \in Seq(S) /\ Len(s \o u) = Len(s) + Len(u)
      /\ \A i \in 1..(Len(s) + Len(u)) :
            (s \o u)[i] = IF i <= Len(s) THEN s[i] ELSE u[i - Len(s)]
  BY <1>1, ConcatProperties, Zenon
<1> HIDE DEF w
<1>5. /\ w \in Seq(S) /\ Len(w) = 3
      /\ \A i \in 1..3 : w[i] = IF i <= 2 THEN s[i] ELSE u[i - 2]
  BY <1>2, <1>4 DEF w
<1>6. w[1] = s[1] /\ w[2] = s[2] /\ w[3] = u[1]
  BY <1>5
<1>7. \A i \in 1..3 : i = 1 \/ i = 2 \/ i = 3
  OBVIOUS
<1>8. \A i \in 1..3 : w[i] = t[i]
  BY <1>3, <1>6, <1>7
<1>9. w = t
  BY <1>1, <1>2, <1>5, <1>8, SeqEqual
<1> QED
  BY <1>9 DEF s, u, t, w

\* What a request that does `op` has still to do.
Statements ==
    [add |-> {<<"insertMember">>},
     sso |-> {<<"insertMember", "insertOrgMember">>, <<"insertOrgMember">>},
     revoke |-> {<<"deleteKeys">>},
     remove |-> {<<"deleteMembers", "deleteOrgMember">>, <<"deleteOrgMember">>},
     deleteAccount |-> {<<"deleteMembers", "deleteOrgMember", "deleteAccountRow">>,
                        <<"deleteOrgMember", "deleteAccountRow">>, <<"deleteAccountRow">>},
     deleteTeam |-> {<<"deleteMembers", "deleteTeamRow">>, <<"deleteTeamRow">>},
     mint |-> {<<"insertKey">>}]

Orderly ==
    /\ DOMAIN request = Staff
    /\ \A s \in Staff :
         /\ {"op", "rest", "org", "row"} \subseteq DOMAIN request[s]
         /\ \/ Members!Idle(s)
            \/ /\ request[s].op \in DOMAIN Statements
               /\ request[s].rest \in Statements[request[s].op]

\* Request s goes from the operation and statements op, rest to op, left.
Proceeds(s, op, rest, left) ==
    /\ request[s].op = op /\ request[s].rest = rest
    /\ request'[s].op = op /\ request'[s].rest = left
    /\ request'[s].org = request[s].org /\ request'[s].row = request[s].row

\* Request s ends with the statement `last` of op.
Finishes(s, op, last) ==
    request[s].op = op /\ request[s].rest = <<last>> /\ request'[s] = Members!IdleRequest

Others(s) ==
    /\ DOMAIN request' = Staff
    /\ \A r \in Staff \ {s} : request'[r] = request[r]
    /\ {"op", "rest", "org", "row"} \subseteq DOMAIN request'[s]

LEMMA ContinueFact ==
    ASSUME Orderly, NEW s \in Staff, Members!Continues(s)
    PROVE  /\ Others(s)
           /\ Len(request[s].rest) = 1 => request'[s] = Members!IdleRequest
           /\ Len(request[s].rest) # 1 =>
                 Proceeds(s, request[s].op, request[s].rest, Tail(request[s].rest))
<1> DEFINE r == request[s]
           q == [r EXCEPT !.rest = Tail(r.rest)]
<1>1. request' = [request EXCEPT ![s] = IF Len(r.rest) = 1 THEN Members!IdleRequest ELSE q]
  BY DEF Members!Continues
<1>2. /\ {"op", "rest", "org", "row"} \subseteq DOMAIN q
      /\ q.op = r.op /\ q.rest = Tail(r.rest) /\ q.org = r.org /\ q.row = r.row
  BY DEF Orderly
<1>3. {"op", "rest", "org", "row"} \subseteq DOMAIN Members!IdleRequest
  BY DEF Members!IdleRequest
<1> HIDE DEF q
<1>4. Others(s)
  BY <1>1, <1>2, <1>3 DEF Orderly, Others
<1>5. request'[s] = IF Len(r.rest) = 1 THEN Members!IdleRequest ELSE q
  BY <1>1 DEF Orderly
<1> QED
  BY <1>2, <1>4, <1>5 DEF Proceeds

\* Which statement a request executes, and what is left of it.
LEMMA StatementFact ==
    ASSUME Orderly, NEW s \in Staff, NEW name, Members!NextStatement(s, name),
           Members!Continues(s)
    PROVE  /\ Others(s)
           /\ \/ name = "insertMember" /\ Finishes(s, "add", name)
              \/ /\ name = "insertMember"
                 /\ Proceeds(s, "sso", <<"insertMember", "insertOrgMember">>, <<"insertOrgMember">>)
              \/ name = "insertOrgMember" /\ Finishes(s, "sso", name)
              \/ name = "deleteKeys" /\ Finishes(s, "revoke", name)
              \/ /\ name = "deleteMembers"
                 /\ \/ Proceeds(s, "remove", <<"deleteMembers", "deleteOrgMember">>,
                                <<"deleteOrgMember">>)
                    \/ Proceeds(s, "deleteAccount",
                                <<"deleteMembers", "deleteOrgMember", "deleteAccountRow">>,
                                <<"deleteOrgMember", "deleteAccountRow">>)
                    \/ Proceeds(s, "deleteTeam", <<"deleteMembers", "deleteTeamRow">>,
                                <<"deleteTeamRow">>)
              \/ /\ name = "deleteOrgMember"
                 /\ \/ Finishes(s, "remove", name)
                    \/ Proceeds(s, "deleteAccount", <<"deleteOrgMember", "deleteAccountRow">>,
                                <<"deleteAccountRow">>)
              \/ name = "deleteAccountRow" /\ Finishes(s, "deleteAccount", name)
              \/ name = "deleteTeamRow" /\ Finishes(s, "deleteTeam", name)
              \/ name = "insertKey" /\ Finishes(s, "mint", name)
<1> DEFINE op == request[s].op
           rest == request[s].rest
<1>1. op \in DOMAIN Statements /\ rest \in Statements[op] /\ name = Head(rest)
  BY DEF Orderly, Members!NextStatement
<1>2. DOMAIN Statements =
        {"add", "sso", "revoke", "remove", "deleteAccount", "deleteTeam", "mint"}
  BY DEF Statements
<1>3. /\ Others(s)
      /\ Len(rest) = 1 => request'[s] = Members!IdleRequest
      /\ Len(rest) # 1 => Proceeds(s, op, rest, Tail(rest))
  BY ContinueFact
<1>4. \A a : Len(<<a>>) = 1 /\ Head(<<a>>) = a
  OBVIOUS
<1>5. \A a, b : Len(<<a, b>>) = 2 /\ Head(<<a, b>>) = a /\ Tail(<<a, b>>) = <<b>>
  OBVIOUS
<1>6. \A a, b, c : /\ Len(<<a, b, c>>) = 3 /\ Head(<<a, b, c>>) = a
                   /\ Tail(<<a, b, c>>) = <<b, c>>
  OBVIOUS
<1>7. \A a : rest = <<a>> => name = a /\ Finishes(s, op, a)
  BY <1>1, <1>3, <1>4 DEF Finishes
<1>8. \A a, b : rest = <<a, b>> => name = a /\ Proceeds(s, op, <<a, b>>, <<b>>)
  BY <1>1, <1>3, <1>5
<1>9. \A a, b, c : rest = <<a, b, c>> => name = a /\ Proceeds(s, op, <<a, b, c>>, <<b, c>>)
  BY <1>1, <1>3, <1>6
<1> HIDE DEF op, rest
<1>10. \/ op = "add" /\ rest = <<"insertMember">>
       \/ op = "sso" /\ rest = <<"insertMember", "insertOrgMember">>
       \/ op = "sso" /\ rest = <<"insertOrgMember">>
       \/ op = "revoke" /\ rest = <<"deleteKeys">>
       \/ op = "remove" /\ rest = <<"deleteMembers", "deleteOrgMember">>
       \/ op = "remove" /\ rest = <<"deleteOrgMember">>
       \/ op = "deleteAccount"
          /\ rest = <<"deleteMembers", "deleteOrgMember", "deleteAccountRow">>
       \/ op = "deleteAccount" /\ rest = <<"deleteOrgMember", "deleteAccountRow">>
       \/ op = "deleteAccount" /\ rest = <<"deleteAccountRow">>
       \/ op = "deleteTeam" /\ rest = <<"deleteMembers", "deleteTeamRow">>
       \/ op = "deleteTeam" /\ rest = <<"deleteTeamRow">>
       \/ op = "mint" /\ rest = <<"insertKey">>
  BY <1>1, <1>2 DEF Statements
<1> QED
  BY <1>3, <1>7, <1>8, <1>9, <1>10

-----------------------------------------------------------------------------
(* Memberships: a team member is a member of the team's organization *)

MemberShape ==
    /\ Orderly
    /\ member \in BOOLEAN /\ teamMember \in BOOLEAN /\ excused \in BOOLEAN
    /\ team \in Orgs \cup {Members!NoTeam}
    /\ orgRow \in [Orgs -> Nat] /\ lastRow \in Nat

\* Membership ids are given out once, and a removal remembers the id of the
\* organization it is about.
RowsSound ==
    /\ \A o \in Orgs : orgRow[o] <= lastRow
    /\ \A o \in Orgs, p \in Orgs : orgRow[o] # 0 /\ orgRow[o] = orgRow[p] => o = p
    /\ \A s \in Staff : request[s].op = "remove" =>
         /\ request[s].row \in 1..lastRow
         /\ \A o \in Orgs : orgRow[o] = request[s].row => o = request[s].org

\* What a request under way relies on.
RequestSound(s) ==
    /\ request[s].op = "add" => team # Members!NoTeam /\ orgRow[team] # 0
    /\ request[s].op = "sso" => member /\ team # Members!NoTeam
    /\ request[s].op = "remove" /\ request[s].rest = <<"deleteOrgMember">>
         => ~teamMember \/ team # request[s].org
    /\ request[s].op = "deleteAccount"
         /\ request[s].rest \in {<<"deleteOrgMember", "deleteAccountRow">>, <<"deleteAccountRow">>}
         => ~teamMember
    /\ request[s].op = "deleteTeam" /\ request[s].rest = <<"deleteTeamRow">> => ~teamMember

\* Nothing excused: additions and removals have not met.
Undisturbed ==
    ~excused =>
        /\ \A s \in Staff, r \in Staff :
             ~(request[s].op \in Members!Additions /\ request[r].op \in Members!Removals)
        /\ \A s \in Staff : RequestSound(s)
        /\ team = Members!NoTeam => ~teamMember
        /\ teamMember /\ team # Members!NoTeam /\ (\A s \in Staff : request[s].op # "sso")
             => orgRow[team] # 0

MemberInv == MemberShape /\ RowsSound /\ Undisturbed

LEMMA MemberInitially == Members!MemberInit => MemberInv
<1> SUFFICES ASSUME Members!MemberInit PROVE MemberInv
  OBVIOUS
<1> USE DEF Members!MemberInit
<1>1. MemberShape
  BY DEF MemberShape, Orderly, Members!Idle, Members!IdleRequest
<1>2. \A s \in Staff : request[s].op = "none"
  BY DEF Members!IdleRequest
<1>3. RowsSound
  BY <1>2 DEF RowsSound
<1>4. Undisturbed
  BY <1>2 DEF Undisturbed, RequestSound, Members!Additions
<1> QED
  BY <1>1, <1>3, <1>4 DEF MemberInv

LEMMA OrderlyAfter ==
    ASSUME Orderly, NEW s \in Staff, Others(s),
           \/ request'[s] = Members!IdleRequest
           \/ /\ request'[s].op \in DOMAIN Statements
              /\ request'[s].rest \in Statements[request'[s].op]
    PROVE  Orderly'
  BY DEF Orderly, Others, Members!Idle

\* A request that ends or goes on with its next statement.
LEMMA OrderlyStatement ==
    ASSUME Orderly, NEW s \in Staff, NEW name, Members!NextStatement(s, name),
           Members!Continues(s)
    PROVE  /\ Orderly' /\ request'[s].op \in {request[s].op, "none"}
           /\ request'[s].op = "remove" =>
                 request'[s].org = request[s].org /\ request'[s].row = request[s].row
<1>1. Others(s) /\ \/ request'[s] = Members!IdleRequest
                   \/ \E op, rest, left :
                         /\ Proceeds(s, op, rest, left)
                         /\ op \in DOMAIN Statements /\ left \in Statements[op]
  <2> DEFINE T == {"add", "sso", "revoke", "remove", "deleteAccount", "deleteTeam", "mint"}
  <2>1. DOMAIN Statements = T
    BY DEF Statements
  <2>2. /\ <<"insertOrgMember">> \in Statements["sso"]
        /\ <<"deleteOrgMember">> \in Statements["remove"]
        /\ <<"deleteOrgMember", "deleteAccountRow">> \in Statements["deleteAccount"]
        /\ <<"deleteAccountRow">> \in Statements["deleteAccount"]
        /\ <<"deleteTeamRow">> \in Statements["deleteTeam"]
    BY DEF Statements
  <2> QED
    BY <2>1, <2>2, StatementFact DEF Finishes
<1>2. Members!IdleRequest.op = "none"
  BY DEF Members!IdleRequest
<1> QED
  BY <1>1, <1>2, OrderlyAfter DEF Proceeds

\* The statements of the operations when they start.
LEMMA StartFact ==
    ASSUME Orderly, NEW s \in Staff, NEW op, NEW rest, NEW o, NEW row,
           Members!Starts(s, op, rest, o, row)
    PROVE  /\ Others(s)
           /\ request'[s].op = op /\ request'[s].rest = rest
           /\ request'[s].org = o /\ request'[s].row = row
           /\ op \in DOMAIN Statements /\ rest \in Statements[op] => Orderly'
<1>1. /\ Others(s)
      /\ request'[s].op = op /\ request'[s].rest = rest
      /\ request'[s].org = o /\ request'[s].row = row
  BY DEF Orderly, Members!Starts, Others
<1> QED
  BY <1>1, OrderlyAfter

LEMMA FirstStatements ==
    /\ {"add", "sso", "revoke", "remove", "deleteAccount", "deleteTeam", "mint"}
          \subseteq DOMAIN Statements
    /\ <<"insertMember">> \in Statements["add"]
    /\ <<"insertMember", "insertOrgMember">> \in Statements["sso"]
    /\ <<"deleteKeys">> \in Statements["revoke"]
    /\ Members!RemovalOrder \in Statements["remove"]
    /\ Members!RemovalOrder \o <<"deleteAccountRow">>
          = <<"deleteMembers", "deleteOrgMember", "deleteAccountRow">>
    /\ <<"deleteMembers", "deleteOrgMember", "deleteAccountRow">> \in Statements["deleteAccount"]
    /\ <<"deleteMembers", "deleteTeamRow">> \in Statements["deleteTeam"]
    /\ <<"insertKey">> \in Statements["mint"]
<1> DEFINE S == {"deleteMembers", "deleteOrgMember", "deleteAccountRow"}
<1>1. Members!RemovalOrder \o <<"deleteAccountRow">>
        = <<"deleteMembers", "deleteOrgMember", "deleteAccountRow">>
  <2>1. "deleteMembers" \in S /\ "deleteOrgMember" \in S /\ "deleteAccountRow" \in S
    OBVIOUS
  <2> HIDE DEF S
  <2> QED
    BY <2>1, JoinedSequence DEF Members!RemovalOrder
<1> QED
  BY <1>1 DEF Statements, Members!RemovalOrder

LEMMA AccountStep ==
    ASSUME MemberInv,
           \/ Members!UpsertAccount \/ Members!DeleteKey \/ UNCHANGED Members!memberVars
           \/ \E o \in Orgs : Members!CreateTeam(o) \/ Members!UpdateTeam(o)
    PROVE  MemberInv'
<1> USE DEF MemberInv
<1>1. CASE Members!UpsertAccount \/ Members!DeleteKey \/ UNCHANGED Members!memberVars
  <2>1. /\ UNCHANGED <<team, orgRow, lastRow, teamMember, request, excused>>
        /\ member' \in BOOLEAN /\ (member => member')
    BY <1>1 DEF Members!UpsertAccount, Members!DeleteKey, Members!memberVars, MemberShape
  <2>2. MemberShape' /\ RowsSound'
    BY <2>1 DEF MemberShape, RowsSound, Orderly, Members!Idle
  <2>3. Undisturbed'
    BY <2>1 DEF Undisturbed, RequestSound
  <2> QED
    BY <2>2, <2>3
<1>2. ASSUME NEW o \in Orgs, Members!CreateTeam(o)
      PROVE  MemberInv'
  <2>1. /\ UNCHANGED <<member, orgRow, lastRow, teamMember, request, excused>>
        /\ team = Members!NoTeam /\ team' = o
    BY <1>2 DEF Members!CreateTeam
  <2>2. MemberShape' /\ RowsSound'
    BY <2>1 DEF MemberShape, RowsSound, Orderly, Members!Idle
  <2>3. Undisturbed'
    BY <2>1 DEF Undisturbed, RequestSound
  <2> QED
    BY <2>2, <2>3
<1>3. ASSUME NEW o \in Orgs, Members!UpdateTeam(o)
      PROVE  MemberInv'
  <2>1. /\ UNCHANGED <<member, orgRow, lastRow, teamMember, request>>
        /\ team' = o /\ excused'
    BY <1>3 DEF Members!UpdateTeam
  <2>2. MemberShape' /\ RowsSound'
    BY <1>3, <2>1 DEF MemberShape, RowsSound, Orderly, Members!Idle, Members!UpdateTeam
  <2> QED
    BY <2>1, <2>2 DEF Undisturbed
<1> QED
  BY <1>1, <1>2, <1>3

\* A new membership row.
LEMMA NewRow ==
    ASSUME MemberInv, NEW o \in Orgs, UNCHANGED request,
           orgRow' = [orgRow EXCEPT ![o] = lastRow + 1], lastRow' = lastRow + 1
    PROVE  /\ RowsSound' /\ orgRow' \in [Orgs -> Nat] /\ lastRow' \in Nat
           /\ \A p \in Orgs : orgRow[p] # 0 => orgRow'[p] # 0
           /\ orgRow'[o] # 0
<1>1. /\ orgRow' \in [Orgs -> Nat] /\ lastRow' \in Nat /\ orgRow'[o] = lastRow + 1
      /\ \A p \in Orgs \ {o} : orgRow'[p] = orgRow[p]
  BY DEF MemberInv, MemberShape
<1> QED
  BY <1>1 DEF MemberInv, MemberShape, RowsSound

LEMMA AddStep ==
    ASSUME MemberInv, Members!Provision \/ \E o \in Orgs : Members!AddOrganizationMember(o)
    PROVE  MemberInv'
<1> USE DEF MemberInv
<1>1. CASE Members!Provision
  <2>1. /\ team \in Orgs /\ team # Members!NoTeam
        /\ member' = TRUE /\ teamMember' = TRUE /\ UNCHANGED <<team, request>>
        /\ orgRow' = [orgRow EXCEPT ![team] = lastRow + 1] /\ lastRow' = lastRow + 1
        /\ excused' = (excused \/ Members!Doing(Members!Removals) # {})
    BY <1>1 DEF Members!Provision, MemberShape
  <2>2. /\ RowsSound' /\ orgRow' \in [Orgs -> Nat] /\ lastRow' \in Nat /\ orgRow'[team] # 0
        /\ \A p \in Orgs : orgRow[p] # 0 => orgRow'[p] # 0
    BY <2>1, NewRow
  <2>3. MemberShape'
    BY <2>1, <2>2 DEF MemberShape, Orderly, Members!Idle
  <2>4. ~excused' => ~excused /\ \A s \in Staff : request[s].op \notin Members!Removals
    BY <2>1 DEF Members!Doing, MemberShape
  <2>5. Undisturbed'
    BY <2>1, <2>2, <2>4 DEF Undisturbed, RequestSound, Members!Removals
  <2> QED
    BY <2>2, <2>3, <2>5
<1>2. ASSUME NEW o \in Orgs, Members!AddOrganizationMember(o)
      PROVE  MemberInv'
  <2>1. /\ UNCHANGED <<member, team, teamMember, request, excused>>
        /\ orgRow' = [orgRow EXCEPT ![o] = lastRow + 1] /\ lastRow' = lastRow + 1
    BY <1>2 DEF Members!AddOrganizationMember
  <2>2. /\ RowsSound' /\ orgRow' \in [Orgs -> Nat] /\ lastRow' \in Nat
        /\ \A p \in Orgs : orgRow[p] # 0 => orgRow'[p] # 0
    BY <2>1, NewRow
  <2>3. MemberShape'
    BY <2>1, <2>2 DEF MemberShape, Orderly, Members!Idle
  <2>4. Undisturbed'
    BY <2>1, <2>2 DEF Undisturbed, RequestSound, MemberShape
  <2> QED
    BY <2>2, <2>3, <2>4
<1> QED
  BY <1>1, <1>2

\* A request starts: what it has checked, and whom it meets.
LEMMA StartKeeps ==
    ASSUME MemberInv, NEW s \in Staff, Members!Idle(s), NEW op, NEW rest, NEW o, NEW row,
           Members!Starts(s, op, rest, o, row),
           op \in DOMAIN Statements, rest \in Statements[op],
           UNCHANGED <<team, orgRow, lastRow>>,
           teamMember' \in BOOLEAN, teamMember' => teamMember,
           member' \in BOOLEAN, member => member', excused' \in BOOLEAN,
           ~excused' => /\ ~excused
                        /\ op \in Members!Additions => Members!Doing(Members!Removals) = {}
                        /\ op \in Members!Removals => Members!Doing(Members!Additions) = {},
           op = "add" => team # Members!NoTeam /\ orgRow[team] # 0,
           op = "sso" => member' /\ team # Members!NoTeam,
           op = "remove" => row # 0 /\ o \in Orgs /\ row = orgRow[o],
           op \in Members!Removals =>
              rest \notin {<<"deleteOrgMember">>, <<"deleteOrgMember", "deleteAccountRow">>,
                           <<"deleteAccountRow">>, <<"deleteTeamRow">>}
    PROVE  MemberInv'
<1> USE DEF MemberInv
<1>1. /\ Others(s) /\ Orderly' /\ request[s].op = "none"
      /\ request'[s].op = op /\ request'[s].rest = rest
      /\ request'[s].org = o /\ request'[s].row = row
  BY StartFact DEF MemberShape, Members!Idle, Members!IdleRequest
<1>2. MemberShape'
  BY <1>1 DEF MemberShape
<1>3. RowsSound'
  <2>1. op = "remove" => /\ row \in 1..lastRow
                         /\ \A p \in Orgs : orgRow[p] = row => p = o
    BY DEF RowsSound, MemberShape
  <2> QED
    BY <1>1, <2>1 DEF RowsSound, Others
<1>4. Undisturbed'
  <2> SUFFICES ASSUME ~excused' PROVE Undisturbed'
    BY DEF Undisturbed
  <2>1. \A q \in Staff, r \in Staff :
          ~(request'[q].op \in Members!Additions /\ request'[r].op \in Members!Removals)
    BY <1>1 DEF Undisturbed, Others, Members!Doing, Members!Additions, Members!Removals
  <2>2. \A r \in Staff \ {s} : RequestSound(r)'
    BY <1>1 DEF Undisturbed, RequestSound, Others
  <2>3. RequestSound(s)'
    BY <1>1 DEF RequestSound, Members!Removals
  <2>4. /\ team' = Members!NoTeam => ~teamMember'
        /\ teamMember' /\ team' # Members!NoTeam /\ (\A r \in Staff : request'[r].op # "sso")
             => orgRow'[team'] # 0
    BY <1>1 DEF Undisturbed, Others
  <2> QED
    BY <2>1, <2>2, <2>3, <2>4 DEF Undisturbed
<1> QED
  BY <1>2, <1>3, <1>4

LEMMA StartStep ==
    ASSUME MemberInv, NEW s \in Staff,
           \/ Members!AddTeamMember(s) \/ Members!SsoLogin(s) \/ Members!DeleteRbacAccount(s)
           \/ Members!DeleteTeam(s) \/ Members!CreateKey(s)
           \/ \E revokes \in BOOLEAN : Members!RemoveTeamMember(s, revokes)
           \/ \E o \in Orgs : Members!RemoveOrganizationMember(s, o)
    PROVE  MemberInv'
<1> USE FirstStatements
<1>0. member \in BOOLEAN /\ teamMember \in BOOLEAN /\ excused \in BOOLEAN
  BY DEF MemberInv, MemberShape
<1> USE DEF Members!Additions, Members!Removals
<1>1. CASE Members!AddTeamMember(s)
  <2>1. Members!Starts(s, "add", <<"insertMember">>, team, 0)
    BY <1>1 DEF Members!AddTeamMember
  <2> QED
    BY <1>0, <1>1, <2>1, StartKeeps DEF Members!AddTeamMember
<1>2. CASE Members!SsoLogin(s)
  <2>1. Members!Starts(s, "sso", <<"insertMember", "insertOrgMember">>, Members!NoTeam, 0)
    BY <1>2 DEF Members!SsoLogin
  <2> QED
    BY <1>0, <1>2, <2>1, StartKeeps DEF Members!SsoLogin
<1>3. CASE Members!DeleteRbacAccount(s)
  <2>1. Members!Starts(s, "deleteAccount",
                       <<"deleteMembers", "deleteOrgMember", "deleteAccountRow">>,
                       Members!NoTeam, 0)
    BY <1>3 DEF Members!DeleteRbacAccount
  <2> QED
    BY <1>0, <1>3, <2>1, StartKeeps DEF Members!DeleteRbacAccount
<1>4. CASE Members!DeleteTeam(s)
  <2>1. Members!Starts(s, "deleteTeam", <<"deleteMembers", "deleteTeamRow">>, Members!NoTeam, 0)
    BY <1>4 DEF Members!DeleteTeam
  <2> QED
    BY <1>0, <1>4, <2>1, StartKeeps DEF Members!DeleteTeam
<1>5. CASE Members!CreateKey(s)
  <2>1. Members!Starts(s, "mint", <<"insertKey">>, Members!NoTeam, 0)
    BY <1>5 DEF Members!CreateKey
  <2> QED
    BY <1>0, <1>5, <2>1, StartKeeps DEF Members!CreateKey
<1>6. ASSUME NEW o \in Orgs, Members!RemoveOrganizationMember(s, o)
      PROVE  MemberInv'
  <2>1. Members!Starts(s, "remove", <<"deleteMembers", "deleteOrgMember">>, o, orgRow[o])
    BY <1>6 DEF Members!RemoveOrganizationMember, Members!RemovalOrder
  <2> QED
    BY <1>0, <1>6, <2>1, StartKeeps DEF Members!RemoveOrganizationMember,
       Members!RemovalOrder
<1>7. ASSUME NEW revokes \in BOOLEAN, Members!RemoveTeamMember(s, revokes)
      PROVE  MemberInv'
  <2>1. CASE revokes
    <3>1. Members!Starts(s, "revoke", <<"deleteKeys">>, Members!NoTeam, 0)
      BY <1>7, <2>1 DEF Members!RemoveTeamMember
    <3> QED
      BY <1>0, <1>7, <3>1, StartKeeps DEF Members!RemoveTeamMember
  <2>2. CASE ~revokes
    <3>1. UNCHANGED <<member, team, orgRow, lastRow, request, excused>> /\ teamMember' = FALSE
      BY <1>7, <2>2 DEF Members!RemoveTeamMember
    <3> QED
      BY <3>1 DEF MemberInv, MemberShape, RowsSound, Undisturbed, RequestSound, Orderly,
         Members!Idle
  <2> QED
    BY <2>1, <2>2
<1> QED
  BY <1>1, <1>2, <1>3, <1>4, <1>5, <1>6, <1>7

\* A request executes a statement: nobody's operation becomes another one.
LEMMA StatementKeeps ==
    ASSUME MemberInv, NEW s \in Staff, NEW name, Members!NextStatement(s, name),
           Members!Continues(s)
    PROVE  /\ Orderly' /\ Others(s)
           /\ \A r \in Staff : request'[r].op \in {request[r].op, "none"}
           /\ \A r \in Staff : request'[r].op = "remove" =>
                 /\ request[r].op = "remove"
                 /\ request'[r].org = request[r].org /\ request'[r].row = request[r].row
<1>1. Orderly
  BY DEF MemberInv, MemberShape
<1>2. /\ Orderly' /\ request'[s].op \in {request[s].op, "none"}
      /\ request'[s].op = "remove" =>
            request'[s].org = request[s].org /\ request'[s].row = request[s].row
  BY <1>1, OrderlyStatement
<1>3. Others(s)
  BY <1>1, StatementFact
<1> QED
  BY <1>2, <1>3 DEF Others

\* Rows go, or one is inserted with a new id.
LEMMA RowsAfter ==
    ASSUME MemberInv,
           \A r \in Staff : request'[r].op = "remove" =>
              /\ request[r].op = "remove"
              /\ request'[r].org = request[r].org /\ request'[r].row = request[r].row,
           \/ /\ UNCHANGED lastRow
              /\ orgRow' \in [Orgs -> Nat]
              /\ \A o \in Orgs : orgRow'[o] \in {orgRow[o], 0}
           \/ \E o \in Orgs : /\ orgRow' = [orgRow EXCEPT ![o] = lastRow + 1]
                              /\ lastRow' = lastRow + 1
    PROVE  RowsSound' /\ orgRow' \in [Orgs -> Nat] /\ lastRow' \in Nat
<1>1. RowsSound /\ orgRow \in [Orgs -> Nat] /\ lastRow \in Nat
  BY DEF MemberInv, MemberShape
<1>2. CASE /\ UNCHANGED lastRow /\ orgRow' \in [Orgs -> Nat]
           /\ \A o \in Orgs : orgRow'[o] \in {orgRow[o], 0}
  BY <1>1, <1>2 DEF RowsSound
<1>3. ASSUME NEW o \in Orgs, orgRow' = [orgRow EXCEPT ![o] = lastRow + 1],
             lastRow' = lastRow + 1
      PROVE  RowsSound' /\ orgRow' \in [Orgs -> Nat] /\ lastRow' \in Nat
  <2>1. /\ orgRow' \in [Orgs -> Nat] /\ lastRow' \in Nat /\ orgRow'[o] = lastRow + 1
        /\ \A p \in Orgs \ {o} : orgRow'[p] = orgRow[p]
    BY <1>1, <1>3
  <2> QED
    BY <1>1, <1>3, <2>1 DEF RowsSound
<1> QED
  BY <1>2, <1>3

\* What a request that does not take part relies on, while no row it needs
\* goes and nobody becomes a member next to a removal.
LEMMA BystandersSound ==
    ASSUME MemberInv, ~excused, NEW s \in Staff, Others(s),
           teamMember' => teamMember \/ request[s].op \in Members!Additions,
           request[s].op \in Members!Removals \/
              /\ UNCHANGED <<member, team>>
              /\ \A o \in Orgs : orgRow[o] # 0 => orgRow'[o] # 0,
           UNCHANGED team \/ ~teamMember
    PROVE  \A r \in Staff \ {s} : RequestSound(r)'
<1> SUFFICES ASSUME NEW r \in Staff \ {s} PROVE RequestSound(r)'
  OBVIOUS
<1>1. /\ RequestSound(r) /\ request'[r] = request[r]
      /\ ~(request[s].op \in Members!Additions /\ request[r].op \in Members!Removals)
      /\ ~(request[r].op \in Members!Additions /\ request[s].op \in Members!Removals)
      /\ team \in Orgs \cup {Members!NoTeam}
  BY DEF MemberInv, MemberShape, Undisturbed, Others
<1>2. CASE request[r].op \in Members!Additions
  BY <1>1, <1>2 DEF RequestSound, Members!Additions
<1>3. CASE request[r].op \in Members!Removals
  BY <1>1, <1>3 DEF RequestSound, Members!Removals
<1>4. CASE request[r].op \notin Members!Additions \cup Members!Removals
  BY <1>1, <1>4 DEF RequestSound, Members!Additions, Members!Removals
<1> QED
  BY <1>2, <1>3, <1>4

\* The statement of an addition, of a removal or of neither keeps the
\* invariant when it keeps what its own request and the members rely on.
LEMMA StatementStep ==
    ASSUME MemberInv, NEW s \in Staff, Orderly', Others(s), UNCHANGED excused,
           \A r \in Staff : request'[r].op \in {request[r].op, "none"},
           RowsSound', orgRow' \in [Orgs -> Nat], lastRow' \in Nat,
           member' \in BOOLEAN, teamMember' \in BOOLEAN,
           team' \in Orgs \cup {Members!NoTeam},
           ~excused =>
              /\ teamMember' => teamMember \/ request[s].op \in Members!Additions
              /\ request[s].op \in Members!Removals \/
                    /\ UNCHANGED <<member, team>>
                    /\ \A o \in Orgs : orgRow[o] # 0 => orgRow'[o] # 0
              /\ UNCHANGED team \/ ~teamMember
              /\ RequestSound(s)'
              /\ team' = Members!NoTeam => ~teamMember'
              /\ teamMember' /\ team' # Members!NoTeam
                   /\ (\A r \in Staff : request'[r].op # "sso") => orgRow'[team'] # 0
    PROVE  MemberInv'
<1>1. MemberShape'
  BY DEF MemberInv, MemberShape
<1>2. Undisturbed'
  <2> SUFFICES ASSUME ~excused PROVE Undisturbed'
    BY DEF Undisturbed
  <2>1. \A r \in Staff \ {s} : RequestSound(r)'
    BY BystandersSound
  <2>2. \A q \in Staff, r \in Staff :
          ~(request'[q].op \in Members!Additions /\ request'[r].op \in Members!Removals)
    BY DEF MemberInv, Undisturbed, Members!Additions, Members!Removals
  <2> QED
    BY <2>1, <2>2 DEF Undisturbed
<1> QED
  BY <1>1, <1>2 DEF MemberInv

\* A request that has ended relies on nothing.
LEMMA EndedSound ==
    ASSUME NEW s \in Staff, request'[s] = Members!IdleRequest
    PROVE  RequestSound(s)' /\ request'[s].op = "none"
  BY DEF RequestSound, Members!IdleRequest

LEMMA KeyStatements ==
    ASSUME MemberInv, NEW s \in Staff, Members!DeleteKeys(s) \/ Members!InsertKey(s)
    PROVE  MemberInv'
<1>1. PICK name \in {"deleteKeys", "insertKey"} :
         /\ Members!NextStatement(s, name) /\ Members!Continues(s)
         /\ UNCHANGED <<member, team, orgRow, lastRow, teamMember, excused>>
  BY DEF Members!DeleteKeys, Members!InsertKey
<1>2. /\ Orderly' /\ Others(s)
      /\ \A r \in Staff : request'[r].op \in {request[r].op, "none"}
      /\ \A r \in Staff : request'[r].op = "remove" =>
            /\ request[r].op = "remove"
            /\ request'[r].org = request[r].org /\ request'[r].row = request[r].row
  BY <1>1, StatementKeeps
<1>3. /\ orgRow \in [Orgs -> Nat] /\ member \in BOOLEAN /\ teamMember \in BOOLEAN
      /\ team \in Orgs \cup {Members!NoTeam} /\ Orderly
  BY DEF MemberInv, MemberShape
<1>4. RowsSound' /\ orgRow' \in [Orgs -> Nat] /\ lastRow' \in Nat
  BY <1>1, <1>2, <1>3, RowsAfter
<1>5. Finishes(s, "revoke", name) \/ Finishes(s, "mint", name)
  BY <1>1, <1>3, StatementFact
<1>6. RequestSound(s)' /\ request[s].op \in {"revoke", "mint"}
  BY <1>5, EndedSound DEF Finishes
<1>7. (\A r \in Staff : request'[r].op # "sso") => \A r \in Staff : request[r].op # "sso"
  BY <1>2, <1>6 DEF Others
<1>8. ~excused => /\ team' = Members!NoTeam => ~teamMember'
                  /\ teamMember' /\ team' # Members!NoTeam
                       /\ (\A r \in Staff : request'[r].op # "sso") => orgRow'[team'] # 0
  BY <1>1, <1>7 DEF MemberInv, Undisturbed
<1> QED
  BY <1>1, <1>2, <1>3, <1>4, <1>6, <1>8, StatementStep

LEMMA InsertStatements ==
    ASSUME MemberInv, NEW s \in Staff, Members!InsertMember(s) \/ Members!InsertOrgMember(s)
    PROVE  MemberInv'
<1>1. /\ orgRow \in [Orgs -> Nat] /\ member \in BOOLEAN /\ teamMember \in BOOLEAN
      /\ team \in Orgs \cup {Members!NoTeam} /\ Orderly
  BY DEF MemberInv, MemberShape
<1>2. ~excused => RequestSound(s)
  BY DEF MemberInv, Undisturbed
<1> USE DEF Members!Additions
<1>3. CASE Members!InsertMember(s)
  <2>1. /\ Members!NextStatement(s, "insertMember") /\ Members!Continues(s)
        /\ UNCHANGED <<member, team, orgRow, lastRow, excused>> /\ teamMember' = member
    BY <1>3 DEF Members!InsertMember
  <2>2. /\ Orderly' /\ Others(s)
        /\ \A r \in Staff : request'[r].op \in {request[r].op, "none"}
        /\ \A r \in Staff : request'[r].op = "remove" =>
              /\ request[r].op = "remove"
              /\ request'[r].org = request[r].org /\ request'[r].row = request[r].row
    BY <2>1, StatementKeeps
  <2>3. RowsSound' /\ orgRow' \in [Orgs -> Nat] /\ lastRow' \in Nat
    BY <1>1, <2>1, <2>2, RowsAfter
  <2>4. \/ Finishes(s, "add", "insertMember")
        \/ Proceeds(s, "sso", <<"insertMember", "insertOrgMember">>, <<"insertOrgMember">>)
    BY <1>1, <2>1, StatementFact
  <2>5. ~excused => /\ RequestSound(s)' /\ request[s].op \in Members!Additions
                    /\ team # Members!NoTeam
                    /\ request'[s].op = "sso" \/ orgRow[team] # 0
    <3>1. CASE Finishes(s, "add", "insertMember")
      BY <1>2, <3>1, EndedSound DEF Finishes, RequestSound
    <3>2. CASE Proceeds(s, "sso", <<"insertMember", "insertOrgMember">>, <<"insertOrgMember">>)
      BY <1>2, <2>1, <3>2 DEF Proceeds, RequestSound
    <3> QED
      BY <2>4, <3>1, <3>2
  <2> QED
    BY <1>1, <2>1, <2>2, <2>3, <2>5, StatementStep
<1>4. CASE Members!InsertOrgMember(s)
  <2> DEFINE adds == member /\ team # Members!NoTeam /\ orgRow[team] = 0
  <2>1. /\ Members!NextStatement(s, "insertOrgMember") /\ Members!Continues(s)
        /\ UNCHANGED <<member, team, teamMember, excused>>
        /\ orgRow' = IF adds THEN [orgRow EXCEPT ![team] = lastRow + 1] ELSE orgRow
        /\ lastRow' = IF adds THEN lastRow + 1 ELSE lastRow
    BY <1>4 DEF Members!InsertOrgMember
  <2>2. /\ Orderly' /\ Others(s)
        /\ \A r \in Staff : request'[r].op \in {request[r].op, "none"}
        /\ \A r \in Staff : request'[r].op = "remove" =>
              /\ request[r].op = "remove"
              /\ request'[r].org = request[r].org /\ request'[r].row = request[r].row
    BY <2>1, StatementKeeps
  <2>3. RowsSound' /\ orgRow' \in [Orgs -> Nat] /\ lastRow' \in Nat
    BY <1>1, <2>1, <2>2, RowsAfter
  <2>4. Finishes(s, "sso", "insertOrgMember")
    BY <1>1, <2>1, StatementFact
  <2>5. /\ \A o \in Orgs : orgRow[o] # 0 => orgRow'[o] # 0
        /\ member /\ team # Members!NoTeam => orgRow'[team] # 0
    BY <1>1, <2>1 DEF MemberInv, MemberShape
  <2>6. ~excused => /\ RequestSound(s)' /\ request[s].op \in Members!Additions
                    /\ team # Members!NoTeam /\ orgRow'[team] # 0
    BY <1>2, <2>4, <2>5, EndedSound DEF Finishes, RequestSound
  <2> HIDE DEF adds
  <2> QED
    BY <1>1, <2>1, <2>2, <2>3, <2>5, <2>6, StatementStep
<1> QED
  BY <1>3, <1>4

LEMMA RemovalStatements ==
    ASSUME MemberInv, NEW s \in Staff,
           \/ Members!DeleteMembers(s) \/ Members!DeleteOrgMember(s)
           \/ Members!DeleteAccountRow(s) \/ Members!DeleteTeamRow(s)
    PROVE  MemberInv'
<1>1. /\ orgRow \in [Orgs -> Nat] /\ member \in BOOLEAN /\ teamMember \in BOOLEAN
      /\ team \in Orgs \cup {Members!NoTeam} /\ Orderly
  BY DEF MemberInv, MemberShape
<1>2. ~excused =>
        /\ RequestSound(s)
        /\ team = Members!NoTeam => ~teamMember
        /\ request[s].op \in Members!Removals =>
             /\ \A r \in Staff : request[r].op # "sso"
             /\ teamMember /\ team # Members!NoTeam => orgRow[team] # 0
  BY DEF MemberInv, Undisturbed, Members!Additions
<1> USE DEF Members!Removals
<1>3. CASE Members!DeleteMembers(s)
  <2>1. /\ Members!NextStatement(s, "deleteMembers") /\ Members!Continues(s)
        /\ UNCHANGED <<member, team, orgRow, lastRow, excused>>
        /\ teamMember' = (teamMember /\ request[s].op = "remove" /\ team # request[s].org)
    BY <1>3 DEF Members!DeleteMembers
  <2>2. /\ Orderly' /\ Others(s)
        /\ \A r \in Staff : request'[r].op \in {request[r].op, "none"}
        /\ \A r \in Staff : request'[r].op = "remove" =>
              /\ request[r].op = "remove"
              /\ request'[r].org = request[r].org /\ request'[r].row = request[r].row
    BY <2>1, StatementKeeps
  <2>3. RowsSound' /\ orgRow' \in [Orgs -> Nat] /\ lastRow' \in Nat
    BY <1>1, <2>1, <2>2, RowsAfter
  <2>4. \/ Proceeds(s, "remove", <<"deleteMembers", "deleteOrgMember">>, <<"deleteOrgMember">>)
        \/ Proceeds(s, "deleteAccount",
                    <<"deleteMembers", "deleteOrgMember", "deleteAccountRow">>,
                    <<"deleteOrgMember", "deleteAccountRow">>)
        \/ Proceeds(s, "deleteTeam", <<"deleteMembers", "deleteTeamRow">>, <<"deleteTeamRow">>)
    BY <1>1, <2>1, StatementFact
  <2>5. request[s].op \in Members!Removals /\ teamMember' \in BOOLEAN /\ (teamMember' => teamMember)
    BY <1>1, <2>1, <2>4 DEF Proceeds
  <2>6. RequestSound(s)'
    BY <2>1, <2>4 DEF Proceeds, RequestSound
  <2> QED
    BY <1>1, <1>2, <2>1, <2>2, <2>3, <2>5, <2>6, StatementStep
<1>4. CASE Members!DeleteOrgMember(s)
  <2>1. /\ Members!NextStatement(s, "deleteOrgMember") /\ Members!Continues(s)
        /\ UNCHANGED <<member, team, lastRow, teamMember, excused>>
        /\ orgRow' = [o \in Orgs |->
                        IF request[s].op = "deleteAccount" \/ orgRow[o] = request[s].row
                          THEN 0 ELSE orgRow[o]]
    BY <1>4 DEF Members!DeleteOrgMember
  <2>2. /\ Orderly' /\ Others(s)
        /\ \A r \in Staff : request'[r].op \in {request[r].op, "none"}
        /\ \A r \in Staff : request'[r].op = "remove" =>
              /\ request[r].op = "remove"
              /\ request'[r].org = request[r].org /\ request'[r].row = request[r].row
    BY <2>1, StatementKeeps
  <2>3. /\ orgRow' \in [Orgs -> Nat] /\ \A o \in Orgs : orgRow'[o] \in {orgRow[o], 0}
        /\ \A o \in Orgs : request[s].op # "deleteAccount" /\ orgRow[o] # request[s].row
             => orgRow'[o] = orgRow[o]
    BY <1>1, <2>1
  <2>4. RowsSound' /\ orgRow' \in [Orgs -> Nat] /\ lastRow' \in Nat
    BY <2>1, <2>2, <2>3, RowsAfter
  <2>5. \/ Finishes(s, "remove", "deleteOrgMember")
        \/ Proceeds(s, "deleteAccount", <<"deleteOrgMember", "deleteAccountRow">>,
                    <<"deleteAccountRow">>)
    BY <1>1, <2>1, StatementFact
  <2>6. ~excused => /\ RequestSound(s)' /\ request[s].op \in Members!Removals
                    /\ teamMember /\ team # Members!NoTeam => orgRow'[team] # 0
    <3> SUFFICES ASSUME ~excused
                 PROVE  /\ RequestSound(s)' /\ request[s].op \in Members!Removals
                        /\ teamMember /\ team # Members!NoTeam => orgRow'[team] # 0
      OBVIOUS
    <3>1. CASE Finishes(s, "remove", "deleteOrgMember")
      <4>1. ~teamMember \/ team # request[s].org
        BY <1>2, <3>1 DEF Finishes, RequestSound
      <4>2. \A o \in Orgs : orgRow[o] = request[s].row => o = request[s].org
        BY <3>1 DEF MemberInv, RowsSound, Finishes
      <4>3. teamMember /\ team # Members!NoTeam => team \in Orgs /\ orgRow'[team] = orgRow[team]
        BY <1>1, <2>3, <3>1, <4>1, <4>2 DEF Finishes
      <4> QED
        BY <1>2, <3>1, <4>3, EndedSound DEF Finishes
    <3>2. CASE Proceeds(s, "deleteAccount", <<"deleteOrgMember", "deleteAccountRow">>,
                        <<"deleteAccountRow">>)
      <4>1. ~teamMember /\ request'[s].op = "deleteAccount"
        BY <1>2, <3>2 DEF Proceeds, RequestSound
      <4> QED
        BY <2>1, <3>2, <4>1 DEF Proceeds, RequestSound
    <3> QED
      BY <2>5, <3>1, <3>2
  <2> QED
    BY <1>1, <1>2, <2>1, <2>2, <2>4, <2>6, StatementStep
<1>5. CASE Members!DeleteAccountRow(s)
  <2>1. /\ Members!NextStatement(s, "deleteAccountRow") /\ Members!Continues(s)
        /\ UNCHANGED <<team, lastRow, excused>>
        /\ member' = FALSE /\ teamMember' = FALSE /\ orgRow' = [o \in Orgs |-> 0]
    BY <1>5 DEF Members!DeleteAccountRow
  <2>2. /\ Orderly' /\ Others(s)
        /\ \A r \in Staff : request'[r].op \in {request[r].op, "none"}
        /\ \A r \in Staff : request'[r].op = "remove" =>
              /\ request[r].op = "remove"
              /\ request'[r].org = request[r].org /\ request'[r].row = request[r].row
    BY <2>1, StatementKeeps
  <2>3. orgRow' \in [Orgs -> Nat] /\ \A o \in Orgs : orgRow'[o] \in {orgRow[o], 0}
    BY <1>1, <2>1
  <2>4. RowsSound' /\ orgRow' \in [Orgs -> Nat] /\ lastRow' \in Nat
    BY <2>1, <2>2, <2>3, RowsAfter
  <2>5. Finishes(s, "deleteAccount", "deleteAccountRow")
    BY <1>1, <2>1, StatementFact
  <2>6. RequestSound(s)' /\ request[s].op \in Members!Removals
    BY <2>5, EndedSound DEF Finishes
  <2> QED
    BY <1>1, <2>1, <2>2, <2>4, <2>6, StatementStep
<1>6. CASE Members!DeleteTeamRow(s)
  <2>1. /\ Members!NextStatement(s, "deleteTeamRow") /\ Members!Continues(s)
        /\ UNCHANGED <<member, orgRow, lastRow, teamMember, excused>>
        /\ team' = Members!NoTeam
    BY <1>6 DEF Members!DeleteTeamRow
  <2>2. /\ Orderly' /\ Others(s)
        /\ \A r \in Staff : request'[r].op \in {request[r].op, "none"}
        /\ \A r \in Staff : request'[r].op = "remove" =>
              /\ request[r].op = "remove"
              /\ request'[r].org = request[r].org /\ request'[r].row = request[r].row
    BY <2>1, StatementKeeps
  <2>3. RowsSound' /\ orgRow' \in [Orgs -> Nat] /\ lastRow' \in Nat
    BY <1>1, <2>1, <2>2, RowsAfter
  <2>4. Finishes(s, "deleteTeam", "deleteTeamRow")
    BY <1>1, <2>1, StatementFact
  <2>5. RequestSound(s)' /\ request[s].op \in Members!Removals /\ (~excused => ~teamMember)
    BY <1>2, <2>4, EndedSound DEF Finishes, RequestSound
  <2> QED
    BY <1>1, <2>1, <2>2, <2>3, <2>5, StatementStep
<1> QED
  BY <1>3, <1>4, <1>5, <1>6

LEMMA FailsStep ==
    ASSUME MemberInv, NEW s \in Staff, Members!RequestFails(s)
    PROVE  MemberInv'
<1>1. /\ orgRow \in [Orgs -> Nat] /\ member \in BOOLEAN /\ teamMember \in BOOLEAN
      /\ excused \in BOOLEAN /\ team \in Orgs \cup {Members!NoTeam} /\ Orderly
  BY DEF MemberInv, MemberShape
<1>2. /\ excused' = (excused \/ request[s].op = "sso")
      /\ request' = [request EXCEPT ![s] = Members!IdleRequest]
      /\ UNCHANGED <<member, team, orgRow, lastRow, teamMember>>
  BY DEF Members!RequestFails
<1>3. request'[s] = Members!IdleRequest /\ Others(s)
  BY <1>1, <1>2 DEF Others, Orderly, Members!IdleRequest
<1>4. RequestSound(s)' /\ request'[s].op = "none"
  BY <1>3, EndedSound
<1>5. Orderly'
  BY <1>1, <1>3, OrderlyAfter
<1>6. /\ \A r \in Staff : request'[r].op \in {request[r].op, "none"}
      /\ \A r \in Staff : request'[r].op = "remove" =>
            /\ request[r].op = "remove"
            /\ request'[r].org = request[r].org /\ request'[r].row = request[r].row
  BY <1>3, <1>4 DEF Others
<1>7. RowsSound' /\ orgRow' \in [Orgs -> Nat] /\ lastRow' \in Nat
  BY <1>1, <1>2, <1>6, RowsAfter
<1>8. CASE excused'
  BY <1>1, <1>2, <1>5, <1>7, <1>8 DEF MemberInv, MemberShape, Undisturbed
<1>9. CASE ~excused'
  <2>1. UNCHANGED excused /\ request[s].op # "sso"
    BY <1>1, <1>2, <1>9
  <2>2. (\A r \in Staff : request'[r].op # "sso") => \A r \in Staff : request[r].op # "sso"
    BY <1>3, <2>1 DEF Others
  <2>3. ~excused => /\ team' = Members!NoTeam => ~teamMember'
                    /\ teamMember' /\ team' # Members!NoTeam
                         /\ (\A r \in Staff : request'[r].op # "sso") => orgRow'[team'] # 0
    BY <1>2, <2>2 DEF MemberInv, Undisturbed
  <2> QED
    BY <1>1, <1>2, <1>3, <1>4, <1>5, <1>6, <1>7, <2>1, <2>3, StatementStep
<1> QED
  BY <1>8, <1>9

LEMMA MemberStep == ASSUME MemberInv, [Members!MemberNext]_Members!memberVars PROVE MemberInv'
<1>1. CASE \/ Members!UpsertAccount \/ Members!DeleteKey \/ UNCHANGED Members!memberVars
           \/ \E o \in Orgs : Members!CreateTeam(o) \/ Members!UpdateTeam(o)
  BY <1>1, AccountStep
<1>2. CASE Members!Provision \/ \E o \in Orgs : Members!AddOrganizationMember(o)
  BY <1>2, AddStep
<1>3. ASSUME NEW s \in Staff,
             \/ Members!AddTeamMember(s) \/ Members!SsoLogin(s) \/ Members!DeleteRbacAccount(s)
             \/ Members!DeleteTeam(s) \/ Members!CreateKey(s)
             \/ \E revokes \in BOOLEAN : Members!RemoveTeamMember(s, revokes)
             \/ \E o \in Orgs : Members!RemoveOrganizationMember(s, o)
      PROVE  MemberInv'
  BY <1>3, StartStep
<1>4. ASSUME NEW s \in Staff,
             \/ Members!DeleteKeys(s) \/ Members!InsertKey(s)
             \/ Members!InsertMember(s) \/ Members!InsertOrgMember(s)
             \/ Members!DeleteMembers(s) \/ Members!DeleteOrgMember(s)
             \/ Members!DeleteAccountRow(s) \/ Members!DeleteTeamRow(s)
             \/ Members!RequestFails(s)
      PROVE  MemberInv'
  BY <1>4, KeyStatements, InsertStatements, RemovalStatements, FailsStep
<1> QED
  BY <1>1, <1>2, <1>3, <1>4 DEF Members!MemberNext

(***************************************************************************)
(* The invariant of the membership rows: ids are given out once, a removal *)
(* holds the id of its own organization's row, and as long as nothing is   *)
(* excused additions and removals do not meet, and each request's checks   *)
(* still hold when its next statement runs.                                *)
(***************************************************************************)
THEOREM MemberInvariance == Members!MemberSpec => []MemberInv
<1>1. Members!MemberInit => MemberInv
  BY MemberInitially
<1>2. MemberInv /\ [Members!MemberNext]_Members!memberVars => MemberInv'
  BY MemberStep
<1> QED
  BY <1>1, <1>2, PTL DEF Members!MemberSpec

(***************************************************************************)
(* A member of a team is a member of the team's organization whichever     *)
(* statements of the endpoints interleave and wherever a removal stops,    *)
(* but for the overlaps the property names (remove_organization_member,    *)
(* add_team_member, upsert_sso_account, delete_team).                      *)
(***************************************************************************)
THEOREM BelongSafe == Members!MemberSpec => []Members!MembersBelong
<1>1. MemberInv => Members!MembersBelong
  BY DEF MemberInv, MemberShape, Undisturbed, Members!MembersBelong, Members!Doing
<1> QED
  BY <1>1, MemberInvariance, PTL

-----------------------------------------------------------------------------
(* ResponseCache: recorded answers *)

\* The first m chunks of an answer of n chunks to caller r.
Recorded(r, m, n) == [i \in 1..m |-> <<r, i, n>>]

IsWhole(answer) == \E r \in Callers, n \in 1..StreamLength : answer = Cache!Whole(r, n)

LEMMA RecordedSeq ==
    ASSUME NEW r \in Callers, NEW m \in Nat, NEW n \in Nat
    PROVE  /\ Recorded(r, m, n) \in Seq(Callers \X Nat \X Nat)
           /\ Len(Recorded(r, m, n)) = m
<1> DEFINE s == Recorded(r, m, n)
           S == Callers \X Nat \X Nat
<1>1. s \in [1..m -> S]
  BY DEF Recorded
<1>2. s \in Seq(S)
  BY <1>1
<1>3. DOMAIN s = 1..m
  BY <1>1
<1> QED
  BY <1>2, <1>3, LenProperties

LEMMA RecordedGrows ==
    ASSUME NEW r \in Callers, NEW m \in Nat, NEW n \in Nat
    PROVE  Append(Recorded(r, m, n), <<r, m + 1, n>>) = Recorded(r, m + 1, n)
<1> DEFINE s == Recorded(r, m, n)
           t == Recorded(r, m + 1, n)
           u == Append(s, <<r, m + 1, n>>)
           S == Callers \X Nat \X Nat
<1>1. s \in Seq(S) /\ Len(s) = m /\ t \in Seq(S) /\ Len(t) = m + 1 /\ <<r, m + 1, n>> \in S
  <2>1. m + 1 \in Nat
    OBVIOUS
  <2>2. s \in Seq(S) /\ Len(s) = m /\ t \in Seq(S) /\ Len(t) = m + 1
    BY <2>1, RecordedSeq
  <2> QED
    BY <2>1, <2>2
<1>2. /\ \A i \in 1..m : s[i] = <<r, i, n>>
      /\ \A i \in 1..(m + 1) : t[i] = <<r, i, n>>
  BY DEF Recorded
<1> HIDE DEF s, t, S
<1>3. /\ u \in Seq(S) /\ Len(u) = m + 1
      /\ \A i \in 1..m : u[i] = s[i]
      /\ u[m + 1] = <<r, m + 1, n>>
  BY <1>1, AppendProperties
<1> HIDE DEF u
<1>4. \A i \in 1..(m + 1) : i \in 1..m \/ i = m + 1
  OBVIOUS
<1>5. \A i \in 1..(m + 1) : u[i] = t[i]
  BY <1>2, <1>3, <1>4
<1>6. u = t
  BY <1>1, <1>3, <1>5, SeqEqual
<1> QED
  BY <1>6 DEF u, s, t

-----------------------------------------------------------------------------
(* ResponseCache: the invariant *)

Fields == {"stage", "key", "store", "streams", "length", "sent", "answer"}

CallSound(c) ==
    /\ Fields \subseteq DOMAIN c
    /\ c.store \in BOOLEAN
    /\ c.stage # "idle" =>
         c.key \in CacheKeys /\ c.length \in 1..StreamLength /\ c.sent \in 0..c.length
    /\ c.stage \in {"lookup", "calling", "opening"} => c.sent = 0

\* The recorder of key k has everything its only stream has sent, or nothing
\* that will be stored.
RecorderSound(k) ==
    /\ \A r \in Cache!Recording(k), q \in Cache!Recording(k) : r = q
    /\ \A r \in Cache!Recording(k) :
         accumulators[k].disabled
           \/ accumulators[k].parts = Recorded(r, lookup[r].sent, lookup[r].length)

CacheInv ==
    /\ DOMAIN entries = CacheKeys /\ DOMAIN accumulators = CacheKeys /\ DOMAIN lookup = Callers
    /\ overlapped \subseteq CacheKeys
    /\ \A k \in CacheKeys :
         {"parts", "disabled"} = DOMAIN accumulators[k] /\ accumulators[k].disabled \in BOOLEAN
    /\ \A r \in Callers : CallSound(lookup[r])
    /\ \A k \in CacheKeys \ overlapped :
         /\ entries[k] = Cache!Nothing \/ IsWhole(entries[k])
         /\ RecorderSound(k)
         /\ \A r \in Callers : lookup[r].stage = "storing" /\ lookup[r].key = k
              => IsWhole(lookup[r].answer)

LEMMA CacheInitially == Cache!CacheInit => CacheInv
<1> SUFFICES ASSUME Cache!CacheInit PROVE CacheInv
  OBVIOUS
<1>1. \A r \in Callers : CallSound(lookup[r]) /\ lookup[r].stage = "idle"
  BY DEF Cache!CacheInit, Cache!IdleCall, CallSound, Fields
<1>2. \A k \in CacheKeys : RecorderSound(k)
  BY <1>1 DEF RecorderSound, Cache!Recording
<1> QED
  BY <1>1, <1>2 DEF CacheInv, Cache!CacheInit, Cache!NoAccumulator

\* A step of one call that neither records a chunk nor stores an answer: its
\* new state starts no recording, and an answer it is to store is whole.
LEMMA CallStep ==
    ASSUME CacheInv, NEW r \in Callers, NEW c, lookup' = [lookup EXCEPT ![r] = c],
           UNCHANGED overlapped, CallSound(c), c.stage # "streaming",
           c.stage = "storing" => c.key \in overlapped \/ IsWhole(c.answer),
           DOMAIN entries' = CacheKeys, DOMAIN accumulators' = CacheKeys,
           \A k \in CacheKeys : \/ accumulators'[k] = accumulators[k]
                                \/ accumulators'[k] = Cache!NoAccumulator,
           \A k \in CacheKeys \ overlapped :
              entries'[k] = entries[k] \/ entries'[k] = Cache!Nothing \/ IsWhole(entries'[k])
    PROVE  CacheInv'
<1>1. /\ DOMAIN lookup' = Callers /\ lookup'[r] = c
      /\ \A q \in Callers \ {r} : lookup'[q] = lookup[q]
  BY DEF CacheInv
<1>2. \A k \in CacheKeys : /\ {"parts", "disabled"} = DOMAIN accumulators'[k]
                           /\ accumulators'[k].disabled \in BOOLEAN
  <2>1. /\ {"parts", "disabled"} = DOMAIN Cache!NoAccumulator
        /\ Cache!NoAccumulator.disabled \in BOOLEAN
    BY DEF Cache!NoAccumulator
  <2> QED
    BY <2>1 DEF CacheInv
<1>3. \A k \in CacheKeys \ overlapped : RecorderSound(k)'
  <2> TAKE k \in CacheKeys \ overlapped
  <2>1. Cache!Recording(k)' \subseteq Cache!Recording(k) \ {r}
    BY <1>1 DEF Cache!Recording
  <2>2. RecorderSound(k) /\ Cache!NoAccumulator.disabled
    BY DEF CacheInv, Cache!NoAccumulator
  <2>3. \A q \in Cache!Recording(k)' : q \in Callers \ {r} /\ lookup'[q] = lookup[q]
    BY <1>1, <2>1 DEF Cache!Recording
  <2> QED
    BY <2>1, <2>2, <2>3 DEF RecorderSound
<1>4. \A k \in CacheKeys \ overlapped :
        /\ entries'[k] = Cache!Nothing \/ IsWhole(entries'[k])
        /\ \A q \in Callers : lookup'[q].stage = "storing" /\ lookup'[q].key = k
             => IsWhole(lookup'[q].answer)
  BY <1>1 DEF CacheInv
<1>5. \A q \in Callers : CallSound(lookup'[q])
  BY <1>1 DEF CacheInv
<1> QED
  BY <1>1, <1>2, <1>3, <1>4, <1>5 DEF CacheInv, IsWhole, CallSound

LEMMA IdleSound == CallSound(Cache!IdleCall) /\ Cache!IdleCall.stage = "idle"
  BY DEF CallSound, Fields, Cache!IdleCall

\* The calls of the middleware, and streams that end without an answer.
LEMMA MiddlewareSteps ==
    ASSUME StreamLength \in Nat, CacheInv, NEW r \in Callers,
           \/ \E k \in CacheKeys, control \in Cache!Controls, streams \in BOOLEAN :
                 \E n \in 1..StreamLength : Cache!Dispatch(r, k, control, streams, n)
           \/ Cache!Hit(r) \/ Cache!Miss(r) \/ Cache!OpenFails(r)
           \/ Cache!StreamFails(r) \/ Cache!StreamAbandoned(r)
           \/ \E ok \in BOOLEAN : Cache!Returns(r, ok) \/ Cache!Store(r, ok)
    PROVE  CacheInv'
<1>0. /\ DOMAIN lookup = Callers /\ DOMAIN entries = CacheKeys /\ DOMAIN accumulators = CacheKeys
      /\ CallSound(lookup[r])
      /\ \A k \in CacheKeys : {"parts", "disabled"} = DOMAIN accumulators[k]
  BY DEF CacheInv
<1>1. ASSUME NEW k \in CacheKeys, NEW control \in Cache!Controls, NEW streams \in BOOLEAN,
             NEW n \in 1..StreamLength, Cache!Dispatch(r, k, control, streams, n)
      PROVE  CacheInv'
  <2> DEFINE c == [Cache!IdleCall EXCEPT !.key = k,
                     !.store = control \notin {"no-store", "bypass"},
                     !.stage = IF control \in {"no-cache", "bypass"}
                                 THEN IF streams THEN "opening" ELSE "calling"
                                 ELSE "lookup",
                     !.streams = streams, !.length = n]
  <2>1. lookup' = [lookup EXCEPT ![r] = c] /\ UNCHANGED <<entries, accumulators, overlapped>>
    BY <1>1 DEF Cache!Dispatch
  <2>2. /\ Fields \subseteq DOMAIN c /\ c.key = k /\ c.length = n /\ c.sent = 0
        /\ c.store \in BOOLEAN /\ c.stage \in {"lookup", "calling", "opening"}
    BY DEF Cache!IdleCall, Fields
  <2> HIDE DEF c
  <2>3. CallSound(c)
    BY <2>2 DEF CallSound
  <2> QED
    BY <1>0, <2>1, <2>2, <2>3, CallStep
<1>2. CASE Cache!Hit(r) \/ Cache!OpenFails(r) \/ Cache!StreamAbandoned(r)
  <2>1. /\ lookup' = [lookup EXCEPT ![r] = Cache!IdleCall]
        /\ UNCHANGED <<entries, accumulators, overlapped>>
    BY <1>2 DEF Cache!Hit, Cache!OpenFails, Cache!StreamAbandoned
  <2> QED
    BY <1>0, <2>1, IdleSound, CallStep
<1>3. CASE Cache!Miss(r)
  <2> DEFINE c == [lookup[r] EXCEPT !.stage = IF lookup[r].streams THEN "opening" ELSE "calling"]
  <2>1. /\ lookup' = [lookup EXCEPT ![r] = c] /\ UNCHANGED <<entries, accumulators, overlapped>>
        /\ lookup[r].stage = "lookup"
    BY <1>0, <1>3 DEF Cache!Miss
  <2>2. /\ Fields \subseteq DOMAIN c /\ c.key = lookup[r].key /\ c.length = lookup[r].length
        /\ c.sent = lookup[r].sent /\ c.store = lookup[r].store
        /\ c.stage \in {"calling", "opening"}
    BY <1>0 DEF CallSound, Fields
  <2> HIDE DEF c
  <2>3. CallSound(c)
    BY <1>0, <2>1, <2>2 DEF CallSound
  <2> QED
    BY <1>0, <2>1, <2>2, <2>3, CallStep
<1>4. CASE Cache!StreamFails(r)
  <2>1. /\ lookup' = [lookup EXCEPT ![r] = Cache!IdleCall]
        /\ UNCHANGED <<entries, overlapped>>
        /\ \/ UNCHANGED accumulators
           \/ accumulators' = [accumulators EXCEPT ![lookup[r].key] = Cache!NoAccumulator]
    BY <1>4 DEF Cache!StreamFails
  <2>2. /\ DOMAIN accumulators' = CacheKeys
        /\ \A k \in CacheKeys : \/ accumulators'[k] = accumulators[k]
                                \/ accumulators'[k] = Cache!NoAccumulator
    BY <1>0, <2>1
  <2> QED
    BY <1>0, <2>1, <2>2, IdleSound, CallStep
<1>5. ASSUME NEW ok \in BOOLEAN, Cache!Returns(r, ok)
      PROVE  CacheInv'
  <2> DEFINE c == [lookup[r] EXCEPT !.stage = "storing", !.answer = Cache!Whole(r, lookup[r].length)]
  <2>1. /\ \/ lookup' = [lookup EXCEPT ![r] = Cache!IdleCall]
           \/ lookup' = [lookup EXCEPT ![r] = c]
        /\ UNCHANGED <<entries, accumulators, overlapped>> /\ lookup[r].stage = "calling"
    BY <1>5 DEF Cache!Returns
  <2>2. /\ Fields \subseteq DOMAIN c /\ c.key = lookup[r].key /\ c.length = lookup[r].length
        /\ c.sent = lookup[r].sent /\ c.store = lookup[r].store
        /\ c.stage = "storing" /\ c.answer = Cache!Whole(r, lookup[r].length)
    BY <1>0 DEF CallSound, Fields
  <2> HIDE DEF c
  <2>3. CallSound(c) /\ IsWhole(c.answer)
    BY <1>0, <2>1, <2>2 DEF CallSound, IsWhole
  <2>4. CASE lookup' = [lookup EXCEPT ![r] = Cache!IdleCall]
    BY <1>0, <2>1, <2>4, IdleSound, CallStep
  <2>5. CASE lookup' = [lookup EXCEPT ![r] = c]
    BY <1>0, <2>1, <2>2, <2>3, <2>5, CallStep
  <2> QED
    BY <2>1, <2>4, <2>5
<1>6. ASSUME NEW ok \in BOOLEAN, Cache!Store(r, ok)
      PROVE  CacheInv'
  <2>1. /\ lookup' = [lookup EXCEPT ![r] = Cache!IdleCall] /\ lookup[r].stage = "storing"
        /\ UNCHANGED <<accumulators, overlapped>>
        /\ \/ UNCHANGED entries
           \/ entries' = [entries EXCEPT ![lookup[r].key] = lookup[r].answer]
    BY <1>6 DEF Cache!Store
  <2>2. lookup[r].key \in CacheKeys \ overlapped => IsWhole(lookup[r].answer)
    BY <2>1 DEF CacheInv
  <2>3. /\ DOMAIN entries' = CacheKeys
        /\ \A k \in CacheKeys \ overlapped : entries'[k] = entries[k] \/ IsWhole(entries'[k])
    BY <1>0, <2>1, <2>2
  <2> QED
    BY <1>0, <2>1, <2>3, IdleSound, CallStep
<1> QED
  BY <1>1, <1>2, <1>3, <1>4, <1>5, <1>6

\* A stream is recorded from its start; a second one of the key is known.
LEMMA OpensStep ==
    ASSUME StreamLength \in Nat, CacheInv, NEW r \in Callers, Cache!StreamOpens(r)
    PROVE  CacheInv'
<1> DEFINE k == lookup[r].key
           c == [lookup[r] EXCEPT !.stage = "streaming"]
           a == [parts |-> <<>>, disabled |-> FALSE]
<1>0. /\ DOMAIN lookup = Callers /\ DOMAIN entries = CacheKeys /\ DOMAIN accumulators = CacheKeys
      /\ CallSound(lookup[r])
  BY DEF CacheInv
<1>1. /\ lookup[r].stage = "opening" /\ lookup' = [lookup EXCEPT ![r] = c] /\ UNCHANGED entries
      /\ accumulators' = IF lookup[r].store THEN [accumulators EXCEPT ![k] = a] ELSE accumulators
      /\ overlapped' = IF lookup[r].store /\ Cache!Recording(k) # {} THEN overlapped \cup {k}
                       ELSE overlapped
  BY <1>0 DEF Cache!StreamOpens, Cache!StartingAccumulator
<1>2. /\ Fields \subseteq DOMAIN c /\ c.key = k /\ c.length = lookup[r].length
      /\ c.sent = lookup[r].sent /\ c.store = lookup[r].store /\ c.stage = "streaming"
  BY <1>0 DEF CallSound, Fields
<1>3. {"parts", "disabled"} = DOMAIN a /\ a.parts = <<>> /\ a.disabled = FALSE
  OBVIOUS
<1> HIDE DEF c, a
<1>4. CallSound(c) /\ c.sent = 0 /\ k \in CacheKeys /\ c.length \in Nat
  BY <1>0, <1>1, <1>2 DEF CallSound
<1>5. /\ DOMAIN lookup' = Callers /\ lookup'[r] = c
      /\ \A q \in Callers \ {r} : lookup'[q] = lookup[q]
  BY <1>0, <1>1
<1>6. /\ DOMAIN accumulators' = CacheKeys
      /\ \A l \in CacheKeys : /\ {"parts", "disabled"} = DOMAIN accumulators'[l]
                              /\ accumulators'[l].disabled \in BOOLEAN
  BY <1>0, <1>1, <1>3, <1>4 DEF CacheInv
<1>7. overlapped' \subseteq CacheKeys /\ overlapped \subseteq overlapped'
  BY <1>1, <1>4 DEF CacheInv
<1>8. \A l \in CacheKeys \ overlapped' : RecorderSound(l)'
  <2> TAKE l \in CacheKeys \ overlapped'
  <2>1. RecorderSound(l)
    BY <1>7 DEF CacheInv
  <2>2. CASE l = k /\ c.store
    <3>1. Cache!Recording(k) = {} /\ accumulators'[l] = a
      BY <1>0, <1>1, <1>2, <1>4, <2>2
    <3>2. Cache!Recording(l)' \subseteq {r}
      BY <1>5, <2>2, <3>1 DEF Cache!Recording
    <3>3. a.parts = Recorded(r, lookup'[r].sent, lookup'[r].length)
      BY <1>3, <1>4, <1>5 DEF Recorded
    <3> QED
      BY <3>1, <3>2, <3>3 DEF RecorderSound
  <2>3. CASE l # k \/ ~c.store
    <3>1. Cache!Recording(l)' \subseteq Cache!Recording(l) \ {r} /\ accumulators'[l] = accumulators[l]
      BY <1>0, <1>1, <1>2, <1>5, <2>3 DEF Cache!Recording
    <3>2. \A q \in Cache!Recording(l)' : q \in Callers \ {r} /\ lookup'[q] = lookup[q]
      BY <1>5, <3>1 DEF Cache!Recording
    <3> QED
      BY <2>1, <3>1, <3>2 DEF RecorderSound
  <2> QED
    BY <2>2, <2>3
<1>9. /\ \A q \in Callers : CallSound(lookup'[q])
      /\ \A l \in CacheKeys \ overlapped' :
           /\ entries'[l] = Cache!Nothing \/ IsWhole(entries'[l])
           /\ \A q \in Callers : lookup'[q].stage = "storing" /\ lookup'[q].key = l
                => IsWhole(lookup'[q].answer)
  BY <1>1, <1>2, <1>4, <1>5, <1>7 DEF CacheInv
<1> QED
  BY <1>0, <1>1, <1>5, <1>6, <1>7, <1>8, <1>9 DEF CacheInv, IsWhole, CallSound

\* A chunk reaches the recorder of its own stream, or of nobody's else.
LEMMA ChunkStep ==
    ASSUME StreamLength \in Nat, CacheInv, NEW r \in Callers, NEW valid \in BOOLEAN,
           Cache!StreamChunk(r, valid)
    PROVE  CacheInv'
<1> DEFINE k == lookup[r].key
           i == lookup[r].sent + 1
           n == lookup[r].length
           c == [lookup[r] EXCEPT !.sent = i]
           a == accumulators[k]
           off == [parts |-> <<>>, disabled |-> TRUE]
           more == [a EXCEPT !.parts = Append(a.parts, <<r, i, n>>)]
<1>0. /\ DOMAIN lookup = Callers /\ DOMAIN entries = CacheKeys /\ DOMAIN accumulators = CacheKeys
      /\ CallSound(lookup[r])
  BY DEF CacheInv
<1>1. /\ lookup[r].stage = "streaming" /\ lookup[r].sent < n /\ lookup' = [lookup EXCEPT ![r] = c]
      /\ UNCHANGED <<entries, overlapped>>
      /\ \/ /\ accumulators' \in {accumulators, [accumulators EXCEPT ![k] = a]}
            /\ ~lookup[r].store \/ a.disabled
         \/ accumulators' = [accumulators EXCEPT ![k] = off] /\ lookup[r].store
         \/ accumulators' = [accumulators EXCEPT ![k] = more] /\ lookup[r].store
  <2>1. Cache!NoAccumulator.disabled
    BY DEF Cache!NoAccumulator
  <2>2. \/ Cache!Added(a, <<r, i, n>>) \in {off, more}
        \/ Cache!Added(a, <<r, i, n>>) = a /\ a.disabled
    BY DEF Cache!Added
  <2> QED
    BY <1>0, <2>1, <2>2 DEF Cache!StreamChunk
<1>2. /\ Fields \subseteq DOMAIN c /\ c.key = k /\ c.length = n
      /\ c.sent = i /\ c.store = lookup[r].store /\ c.stage = lookup[r].stage
      /\ c.answer = lookup[r].answer
  BY <1>0 DEF CallSound, Fields
<1>3. k \in CacheKeys /\ n \in Nat /\ lookup[r].sent \in Nat /\ i \in 0..n
  BY <1>0, <1>1 DEF CallSound
<1>4. /\ {"parts", "disabled"} = DOMAIN a /\ a.disabled \in BOOLEAN
      /\ {"parts", "disabled"} = DOMAIN off /\ off.disabled = TRUE
      /\ {"parts", "disabled"} = DOMAIN more /\ more.disabled = a.disabled
      /\ more.parts = Append(a.parts, <<r, i, n>>)
  BY <1>3 DEF CacheInv
<1> HIDE DEF c, off, more
<1>5. /\ DOMAIN lookup' = Callers /\ lookup'[r] = c
      /\ \A q \in Callers \ {r} : lookup'[q] = lookup[q]
  BY <1>0, <1>1
<1>6. CallSound(c)
  BY <1>0, <1>1, <1>2, <1>3 DEF CallSound
<1>7. /\ DOMAIN accumulators' = CacheKeys
      /\ \A l \in CacheKeys : /\ {"parts", "disabled"} = DOMAIN accumulators'[l]
                              /\ accumulators'[l].disabled \in BOOLEAN
  BY <1>0, <1>1, <1>3, <1>4 DEF CacheInv
<1>8. \A l \in CacheKeys \ overlapped : RecorderSound(l)'
  <2> TAKE l \in CacheKeys \ overlapped
  <2>1. RecorderSound(l) /\ Cache!Recording(l)' = Cache!Recording(l)
    BY <1>1, <1>2, <1>5 DEF CacheInv, Cache!Recording
  <2>2. CASE l = k /\ lookup[r].store
    <3>1. r \in Cache!Recording(l) /\ \A q \in Cache!Recording(l) : q = r
      BY <1>1, <2>1, <2>2 DEF Cache!Recording, RecorderSound
    <3>2. accumulators'[l].disabled \/ (~a.disabled /\ accumulators'[l] = more)
      BY <1>0, <1>1, <1>3, <1>4, <2>2
    <3>3. ~a.disabled => more.parts = Recorded(r, i, n)
      <4>1. ~a.disabled => a.parts = Recorded(r, lookup[r].sent, n)
        BY <2>1, <2>2, <3>1 DEF RecorderSound
      <4>2. Append(Recorded(r, lookup[r].sent, n), <<r, i, n>>) = Recorded(r, i, n)
        BY <1>3, RecordedGrows
      <4> QED
        BY <1>4, <4>1, <4>2
    <3> QED
      BY <1>2, <1>5, <2>1, <3>1, <3>2, <3>3 DEF RecorderSound
  <2>3. CASE l # k \/ ~lookup[r].store
    <3>1. r \notin Cache!Recording(l) /\ accumulators'[l] = accumulators[l]
      BY <1>0, <1>1, <2>3 DEF Cache!Recording
    <3>2. \A q \in Cache!Recording(l) : lookup'[q] = lookup[q]
      BY <1>5, <3>1 DEF Cache!Recording
    <3> QED
      BY <2>1, <3>1, <3>2 DEF RecorderSound
  <2> QED
    BY <2>2, <2>3
<1>9. /\ \A q \in Callers : CallSound(lookup'[q])
      /\ \A l \in CacheKeys \ overlapped :
           /\ entries'[l] = Cache!Nothing \/ IsWhole(entries'[l])
           /\ \A q \in Callers : lookup'[q].stage = "storing" /\ lookup'[q].key = l
                => IsWhole(lookup'[q].answer)
  BY <1>1, <1>2, <1>5, <1>6 DEF CacheInv
<1> QED
  BY <1>0, <1>1, <1>5, <1>7, <1>8, <1>9 DEF CacheInv, IsWhole, CallSound

\* What a recorder stores at [DONE] is the whole answer.
LEMMA DoneStep ==
    ASSUME StreamLength \in Nat, CacheInv, NEW r \in Callers, Cache!StreamDone(r)
    PROVE  CacheInv'
<1> DEFINE k == lookup[r].key
           a == accumulators[k]
           c == [lookup[r] EXCEPT !.stage = "storing", !.answer = a.parts]
<1>0. /\ DOMAIN lookup = Callers /\ DOMAIN entries = CacheKeys /\ DOMAIN accumulators = CacheKeys
      /\ CallSound(lookup[r])
  BY DEF CacheInv
<1>1. /\ lookup[r].stage = "streaming" /\ lookup[r].sent = lookup[r].length
      /\ UNCHANGED <<entries, overlapped>>
      /\ \/ UNCHANGED accumulators
         \/ accumulators' = [accumulators EXCEPT ![k] = Cache!NoAccumulator]
      /\ \/ lookup' = [lookup EXCEPT ![r] = Cache!IdleCall]
         \/ lookup' = [lookup EXCEPT ![r] = c] /\ lookup[r].store /\ ~a.disabled
  BY DEF Cache!StreamDone
<1>2. /\ Fields \subseteq DOMAIN c /\ c.key = k /\ c.length = lookup[r].length
      /\ c.sent = lookup[r].sent /\ c.store = lookup[r].store
      /\ c.stage = "storing" /\ c.answer = a.parts
  BY <1>0 DEF CallSound, Fields
<1> HIDE DEF c
<1>3. CallSound(c)
  BY <1>0, <1>1, <1>2 DEF CallSound
<1>4. lookup[r].store /\ ~a.disabled => k \in overlapped \/ IsWhole(a.parts)
  <2> SUFFICES ASSUME lookup[r].store, ~a.disabled, k \notin overlapped PROVE IsWhole(a.parts)
    OBVIOUS
  <2>1. k \in CacheKeys /\ lookup[r].length \in 1..StreamLength
    BY <1>0, <1>1 DEF CallSound
  <2>2. RecorderSound(k) /\ r \in Cache!Recording(k)
    BY <1>1, <2>1 DEF CacheInv, Cache!Recording
  <2>3. a.parts = Cache!Whole(r, lookup[r].length)
    BY <1>1, <2>2 DEF RecorderSound, Recorded, Cache!Whole
  <2> QED
    BY <2>1, <2>3 DEF IsWhole
<1>5. /\ DOMAIN accumulators' = CacheKeys
      /\ \A l \in CacheKeys : \/ accumulators'[l] = accumulators[l]
                              \/ accumulators'[l] = Cache!NoAccumulator
  BY <1>0, <1>1
<1>6. CASE lookup' = [lookup EXCEPT ![r] = Cache!IdleCall]
  BY <1>0, <1>1, <1>5, <1>6, IdleSound, CallStep
<1>7. CASE lookup' = [lookup EXCEPT ![r] = c] /\ lookup[r].store /\ ~a.disabled
  BY <1>0, <1>1, <1>2, <1>3, <1>4, <1>5, <1>7, CallStep
<1> QED
  BY <1>1, <1>6, <1>7

LEMMA CacheStep ==
    ASSUME StreamLength \in Nat, CacheInv, [Cache!CacheNext]_Cache!cacheVars
    PROVE  CacheInv'
<1>1. ASSUME NEW k \in CacheKeys, Cache!EntryExpires(k)
      PROVE  CacheInv'
  <2>1. /\ entries' = [entries EXCEPT ![k] = Cache!Nothing]
        /\ UNCHANGED <<accumulators, lookup, overlapped>>
    BY <1>1 DEF Cache!EntryExpires
  <2>2. /\ DOMAIN entries' = CacheKeys
        /\ \A l \in CacheKeys : entries'[l] = entries[l] \/ entries'[l] = Cache!Nothing
    BY <2>1 DEF CacheInv
  <2> QED
    BY <2>1, <2>2 DEF CacheInv, RecorderSound, Cache!Recording, IsWhole, CallSound
<1>2. CASE UNCHANGED Cache!cacheVars
  BY <1>2 DEF CacheInv, RecorderSound, Cache!Recording, IsWhole, CallSound, Cache!cacheVars
<1> QED
  BY <1>1, <1>2, MiddlewareSteps, OpensStep, ChunkStep, DoneStep DEF Cache!CacheNext

\* The inductive invariant of the recorders: while one stream of a key is
\* recorded at a time, the recorder has exactly the chunks its stream has sent
\* or is disabled (cache/streaming.py, _StreamAccumulator).
THEOREM CacheInvariance ==
    ASSUME StreamLength \in Nat PROVE Cache!CacheSpec => []CacheInv
  BY CacheInitially, CacheStep, PTL DEF Cache!CacheSpec

\* What the cache replays is the whole answer of one call: no failure, no
\* disconnect and no overflow of the recorder leaves a part of one in it
\* (cache/streaming.py, add_chunk, finalize_and_store), unless two recorded
\* streams of the key ran at once.
THEOREM WholeSafe ==
    ASSUME StreamLength \in Nat PROVE Cache!CacheSpec => []Cache!CachedAnswersAreWhole
<1>1. CacheInv => Cache!CachedAnswersAreWhole
  BY DEF CacheInv, Cache!CachedAnswersAreWhole, IsWhole
<1> QED
  BY <1>1, CacheInvariance, PTL

=============================================================================
