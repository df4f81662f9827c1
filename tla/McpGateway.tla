----------------------------- MODULE McpGateway -----------------------------
(***************************************************************************)
(* Calls of one MCP tool with the same arguments and the same key, so one  *)
(* approval fingerprint, one cache key and one upstream session:           *)
(* mcp/gateway.py, approvals.py, policy.py, result_cache.py,               *)
(* orchestrator.py and transport_http.py. A call waits at every statement  *)
(* and every message; the session state is shared, with a lock held only   *)
(* while it is established or cleared.                                     *)
(***************************************************************************)
EXTENDS Integers, FiniteSets

CONSTANTS
    Calls,              \* requests that may run at the same time
    MaxApprovals,       \* bound on the approval rows
    MaxServerSessions,  \* bound on the sessions the server ever opens
    MaxPrunes,          \* bound on the session states pruned
    MaxToolHops,        \* max_mcp_tool_hops
    MaxConcurrency      \* the policy's max_concurrency

VARIABLES
    policy,      \* require_approval of the effective tool policy
    approval,    \* approval rows: status, past their expiry, time of decision
    clock,       \* orders creations and decisions
    slots,       \* calls counted against max_concurrency
    cached,      \* the result cache has an answer
    sess,        \* the shared session state: [id, ready, lock, gen]
    live,        \* sessions the server knows
    opened,      \* sessions the server has opened so far
    call,
    raced        \* history: a row was inserted across a decision

mcpVars == <<policy, approval, clock, slots, cached, sess, live, opened, call, raced>>

None == 0
Rows == 1..MaxApprovals
NoRow == [status |-> "none", lapsed |-> FALSE, at |-> 0]
Decided == {"approved", "rejected"}

\* kind: tools/call, a chat request, or a forced initialize (health probe).
\* sid, gen: the session sent and the state it came from.
IdleCall == [step |-> "idle", kind |-> "call", sid |-> None, gen |-> 0,
             tries |-> 0, again |-> FALSE, hops |-> 0, overtaken |-> FALSE]

CallSteps == {"idle", "model", "policy", "expire", "find", "create", "acquire", "cache",
              "ensure", "force", "init", "notify", "sent", "clear", "store", "release"}

McpTypeOK ==
    /\ policy \in {"never", "manual"}
    /\ approval \in [Rows -> [status : {"none", "pending", "approved", "rejected", "expired"},
                              lapsed : BOOLEAN, at : 0..2*MaxApprovals]]
    /\ slots \in 0..MaxConcurrency /\ cached \in BOOLEAN
    /\ sess \in [id : 0..MaxServerSessions, ready : BOOLEAN, lock : Calls \cup {None}, gen : 0..MaxPrunes]
    /\ live \subseteq 1..opened /\ opened \in 0..MaxServerSessions
    /\ \A c \in Calls : call[c].step \in CallSteps /\ call[c].hops \in 0..MaxToolHops + 1
    /\ raced \in BOOLEAN

McpInit ==
    /\ policy \in {"never", "manual"}
    /\ approval = [r \in Rows |-> NoRow] /\ clock = 0
    /\ slots = 0 /\ cached = FALSE
    /\ sess = [id |-> None, ready |-> FALSE, lock |-> None, gen |-> 0]
    /\ live = {} /\ opened = 0
    /\ call = [c \in Calls |-> IdleCall]
    /\ raced = FALSE

At(c, step) == call[c].step = step
Goto(c, step) == call' = [call EXCEPT ![c].step = step]
GiveUp(c) == call' = [call EXCEPT ![c] = IdleCall]

approvals == <<approval, clock, raced>>
transport == <<sess, live, opened>>

-----------------------------------------------------------------------------
(* Where calls come from *)

\* routers/mcp.py, tools/call on a visible tool.
ToolsCall(c) ==
    /\ At(c, "idle") /\ Goto(c, "policy")
    /\ UNCHANGED <<policy, approvals, slots, cached, transport>>

\* The orchestrator refuses tools that need manual approval.
PreparePayload(c) ==
    /\ At(c, "idle") /\ policy = "never"
    /\ call' = [call EXCEPT ![c] = [IdleCall EXCEPT !.step = "model", !.kind = "chat"]]
    /\ UNCHANGED <<policy, approvals, slots, cached, transport>>

\* The model answers, with a tool call or without one.
ChatCall(c) ==
    /\ At(c, "model") /\ (GiveUp(c) \/ Goto(c, "policy"))
    /\ UNCHANGED <<policy, approvals, slots, cached, transport>>

\* A health probe or a capability refresh initializes whatever is there.
ForceInitialize(c) ==
    /\ At(c, "idle")
    /\ call' = [call EXCEPT ![c] = [IdleCall EXCEPT !.step = "force", !.kind = "probe"]]
    /\ UNCHANGED <<policy, approvals, slots, cached, transport>>

SetPolicy ==
    /\ policy' = IF policy = "never" THEN "manual" ELSE "never"
    /\ UNCHANGED <<approvals, slots, cached, transport, call>>

-----------------------------------------------------------------------------
(* Approval *)

Pending == {r \in Rows : approval[r].status = "pending"}
Active == {r \in Rows : approval[r].status \in Decided \cup {"pending"} /\ ~approval[r].lapsed}
Newest == CHOOSE r \in Active : \A s \in Active : approval[s].at <= approval[r].at

\* call_tool: the effective policy decides whether approval is needed.
CheckPolicy(c) ==
    /\ At(c, "policy")
    /\ Goto(c, IF policy = "manual" THEN "expire" ELSE "acquire")
    /\ UNCHANGED <<policy, approvals, slots, cached, transport>>

ExpireStaleApprovalRequests(c) ==
    /\ At(c, "expire") /\ Goto(c, "find")
    /\ approval' = [r \in Rows |-> IF approval[r].lapsed /\ approval[r].status # "none"
                                   THEN [approval[r] EXCEPT !.status = "expired"] ELSE approval[r]]
    /\ UNCHANGED <<policy, clock, raced, slots, cached, transport>>

\* The newest active row decides; a pending or rejected one ends the call.
FindActiveApprovalRequest(c) ==
    /\ At(c, "find")
    /\ IF Active = {} THEN call' = [call EXCEPT ![c].step = "create", ![c].overtaken = FALSE]
       ELSE IF approval[Newest].status = "approved" THEN Goto(c, "acquire") ELSE GiveUp(c)
    /\ UNCHANGED <<policy, approvals, slots, cached, transport>>

\* ON CONFLICT (request_fingerprint) WHERE status = 'pending'.
\* Faulty variant: the index covers the decided rows instead.
ConflictingDecided == {r \in Rows : approval[r].status \in Decided}
Conflicting == Pending

Overtaken == [c \in Calls |-> [call[c] EXCEPT !.overtaken = TRUE]]

CreateApprovalRequest(c) ==
    /\ At(c, "create")
    /\ IF Conflicting # {} THEN UNCHANGED approvals /\ GiveUp(c)
       ELSE \E r \in Rows :
              /\ approval[r].status = "none" /\ \A s \in 1..(r - 1) : approval[s].status # "none"
              /\ approval' = [approval EXCEPT ![r] =
                                [status |-> "pending", lapsed |-> FALSE, at |-> clock + 1]]
              /\ clock' = clock + 1
              /\ raced' = (raced \/ (call[c].overtaken
                                     /\ \E s \in Active : approval[s].status \in Decided))
              /\ call' = [Overtaken EXCEPT ![c] = IdleCall]
    /\ UNCHANGED <<policy, slots, cached, transport>>

\* An administrator decides a pending row, lapsed or not; the expiry restarts.
DecideApprovalRequest(r, decision) ==
    /\ approval[r].status = "pending"
    /\ approval' = [approval EXCEPT ![r] = [status |-> decision, lapsed |-> FALSE, at |-> clock + 1]]
    /\ clock' = clock + 1 /\ call' = Overtaken
    /\ UNCHANGED <<policy, raced, slots, cached, transport>>

ApprovalLapses(r) ==
    /\ r \in Active /\ approval' = [approval EXCEPT ![r].lapsed = TRUE]
    /\ UNCHANGED <<policy, clock, raced, slots, cached, transport, call>>

-----------------------------------------------------------------------------
(* Limits and the result cache *)

\* policy_enforcer.acquire: a slot, or the call ends with a rate-limit error.
Acquire(c) ==
    /\ At(c, "acquire")
    /\ IF slots < MaxConcurrency THEN slots' = slots + 1 /\ Goto(c, "cache")
                                 ELSE UNCHANGED slots /\ GiveUp(c)
    /\ UNCHANGED <<policy, approvals, cached, transport>>

ReadResultCache(c) ==
    /\ At(c, "cache") /\ Goto(c, IF cached THEN "release" ELSE "ensure")
    /\ UNCHANGED <<policy, approvals, slots, cached, transport>>

\* An answer that is an error is not stored.
StoreResult(c) ==
    /\ At(c, "store") /\ cached' \in {TRUE, cached} /\ Goto(c, "release")
    /\ UNCHANGED <<policy, approvals, slots, transport>>

CachedResultExpires ==
    /\ cached /\ cached' = FALSE
    /\ UNCHANGED <<policy, approvals, slots, transport, call>>

\* call_tool's finally; a chat request goes on unless its hops are used up.
ReleaseSlot(c) ==
    /\ At(c, "release") /\ slots' = slots - 1
    /\ \/ GiveUp(c)
       \/ /\ call[c].kind = "chat" /\ call[c].hops < MaxToolHops
          /\ call' = [call EXCEPT ![c] = [IdleCall EXCEPT !.step = "model", !.kind = "chat",
                                                          !.hops = call[c].hops + 1]]
    /\ UNCHANGED <<policy, approvals, cached, transport>>

-----------------------------------------------------------------------------
(* The upstream session *)

Blank(s) == [s EXCEPT !.id = None, !.ready = FALSE]
Finished(c) == IF call[c].kind = "probe" THEN GiveUp(c) ELSE Goto(c, "release")
Sending(c, s) == call' = [call EXCEPT ![c].step = "sent", ![c].sid = s.id, ![c].gen = s.gen]

\* _ensure_initialized: use the session that is ready, or take the lock and
\* start over from a blank state.
EnsureInitialized(c) ==
    /\ At(c, "ensure")
    /\ \/ sess.ready /\ Sending(c, sess) /\ UNCHANGED sess
       \/ /\ ~sess.ready /\ sess.lock = None
          /\ sess' = [Blank(sess) EXCEPT !.lock = c]
          /\ call' = [call EXCEPT ![c].step = "init", ![c].tries = 0]
    /\ UNCHANGED <<policy, approvals, slots, cached, live, opened>>

ForcedInitialize(c) ==
    /\ At(c, "force") /\ sess.lock = None
    /\ sess' = [Blank(sess) EXCEPT !.lock = c]
    /\ Goto(c, "init")
    /\ UNCHANGED <<policy, approvals, slots, cached, live, opened>>

\* initialize is answered with a new session, or fails.
Initialize(c) ==
    /\ At(c, "init")
    /\ \/ /\ opened < MaxServerSessions
          /\ opened' = opened + 1 /\ live' = live \cup {opened + 1}
          /\ sess' = [sess EXCEPT !.id = opened + 1]
          /\ Goto(c, "notify")
       \/ sess' = [sess EXCEPT !.lock = None] /\ Finished(c) /\ UNCHANGED <<live, opened>>
    /\ UNCHANGED <<policy, approvals, slots, cached>>

\* notifications/initialized: accepted, answered 404 (once more from the
\* start, then an error), or any other failure.
NotifyInitialized(c) ==
    /\ At(c, "notify")
    /\ \/ /\ sess.id \in live
          /\ sess' = [sess EXCEPT !.ready = TRUE, !.lock = None]
          /\ IF call[c].kind = "probe" THEN GiveUp(c) ELSE Sending(c, sess)
       \/ /\ sess.id \notin live /\ call[c].tries = 0
          /\ sess' = Blank(sess)
          /\ call' = [call EXCEPT ![c].step = "init", ![c].tries = 1]
       \/ /\ sess' = [Blank(sess) EXCEPT !.lock = None]
          /\ Finished(c)
    /\ UNCHANGED <<policy, approvals, slots, cached, live, opened>>

\* The server answers tools/call: 404 if it does not know the session.
ServerAnswers(c) ==
    /\ At(c, "sent")
    /\ \/ call[c].sid \in live /\ Goto(c, "store")
       \/ call[c].sid \notin live /\ Goto(c, "clear")
       \/ Goto(c, "release")        \* any other error
    /\ UNCHANGED <<policy, approvals, slots, cached, transport>>

\* _clear_session: under the lock, and only if the state is still the shared
\* one and still holds the rejected session.
\* Faulty variant: the session is not compared.
StaleAny(c) == call[c].gen = sess.gen
Stale(c) == call[c].gen = sess.gen /\ call[c].sid = sess.id

ClearSession(c) ==
    /\ At(c, "clear") /\ (call[c].gen # sess.gen \/ sess.lock = None)
    /\ sess' = IF Stale(c) THEN Blank(sess) ELSE sess
    /\ call' = [call EXCEPT ![c].step = IF call[c].again THEN "release" ELSE "ensure",
                            ![c].again = TRUE]
    /\ UNCHANGED <<policy, approvals, slots, cached, live, opened>>

\* _prune_sessions drops an unlocked state that is old or one too many.
PruneSession ==
    /\ sess.lock = None /\ sess.gen < MaxPrunes
    /\ sess' = [Blank(sess) EXCEPT !.gen = @ + 1]
    /\ UNCHANGED <<policy, approvals, slots, cached, live, opened, call>>

\* The policy's time limit cancels the call wherever it waits: the lock is
\* released and the session state stays as it is.
PolicyTimeout(c) ==
    /\ call[c].step \in {"cache", "ensure", "init", "notify", "sent", "clear", "store"}
    /\ call[c].kind # "probe"
    /\ sess' = IF sess.lock = c THEN [sess EXCEPT !.lock = None] ELSE sess
    /\ Goto(c, "release")
    /\ UNCHANGED <<policy, approvals, slots, cached, live, opened>>

\* External: the MCP server restarts or ends a session.
ServerForgets(i) ==
    /\ i \in live /\ live' = live \ {i}
    /\ UNCHANGED <<policy, approvals, slots, cached, sess, opened, call>>

McpNext ==
    \/ SetPolicy \/ CachedResultExpires \/ PruneSession
    \/ \E i \in 1..MaxServerSessions : ServerForgets(i)
    \/ \E r \in Rows : ApprovalLapses(r) \/ \E d \in Decided : DecideApprovalRequest(r, d)
    \/ \E c \in Calls :
         \/ ToolsCall(c) \/ PreparePayload(c) \/ ChatCall(c) \/ ForceInitialize(c)
         \/ CheckPolicy(c) \/ ExpireStaleApprovalRequests(c)
         \/ FindActiveApprovalRequest(c) \/ CreateApprovalRequest(c)
         \/ Acquire(c) \/ ReadResultCache(c) \/ StoreResult(c) \/ ReleaseSlot(c)
         \/ EnsureInitialized(c) \/ ForcedInitialize(c) \/ Initialize(c) \/ NotifyInitialized(c)
         \/ ServerAnswers(c) \/ ClearSession(c) \/ PolicyTimeout(c)

McpSpec == McpInit /\ [][McpNext]_mcpVars

-----------------------------------------------------------------------------
(* Concurrent calls that need the same approval share one request: two       *)
(* active rows of a fingerprint, of which the newer would hide the older,    *)
(* arise only when a row was decided between a call's lookup and its insert. *)
OneActiveRequest == raced \/ Cardinality(Active) <= 1

\* The step gives up a session the server still knows only by a forced
\* initialize or by pruning.
SessionKept ==
    sess.ready /\ sess.id \in live /\ sess'.id # sess.id
        => sess'.gen # sess.gen \/ \E c \in Calls : At(c, "force") /\ sess'.lock = c

(* A session the server still knows is given up only by a forced initialize  *)
(* or by pruning, never by a call whose older session was rejected late.     *)
LiveSessionKept == [][SessionKept]_mcpVars
=============================================================================
