------------------------------ MODULE Services ------------------------------
(***************************************************************************)
(* The services around the batch pipeline. The components share no state,  *)
(* so a behaviour picks one of them (`focus`), which names the variables   *)
(* as its own; a component whose hard cases need different bounds appears  *)
(* under several focuses. A component with proofs is an instance of its    *)
(* proof module, which brings the module and its theorems: those of        *)
(* AccessProofs are Access!Login, Access!Members and so on.                *)
(***************************************************************************)
EXTENDS Integers, Sequences

CONSTANTS
    Actors,     \* requests, instances, administrators or users at the same time
    Lone        \* one of them

(* Gateway *)
CONSTANTS Scopes, RateLimit, MaxParallel, MaxBudget, MaxPeriods, MaxLost, MaxDrift

(* Routing *)
CONSTANTS Deployments, Group, Fallbacks, ClassifiedFallbacks, NoDeployment, AllowedFails,
          FailureThreshold, NumRetries, MaxFailures, MaxCrashes

(* ResponseCache *)
CONSTANTS CacheKeys, StreamLength, MaxFragments

(* PolicyVersions, Memberships, Invitations, Sessions *)
CONSTANTS MaxVersions, Orgs, MaxRows, SelfServiceKeys, Senders, Cancellers, MaxInvitations,
          MaxTokens, MaxPasswords, MaxSessions, MaxLinks, MaxSecrets

(* McpGateway *)
CONSTANTS MaxApprovals, MaxServerSessions, MaxPrunes, MaxToolHops, MaxConcurrency

\* 0 stands for no call in McpGateway; a key without a positive limit is not
\* limited (rate_limit_policy.py:195).
ASSUME ServicesAssumption ==
    /\ 0 \notin Actors /\ MaxParallel \in Nat \ {0}
    /\ Group \in Seq(Deployments) /\ Fallbacks \in Seq(Deployments)
    /\ ClassifiedFallbacks \in Seq(Deployments) /\ NoDeployment \notin Deployments
    /\ AllowedFails \in Nat /\ FailureThreshold \in Nat \ {0} /\ NumRetries \in Nat
    /\ MaxFailures \in Nat /\ MaxCrashes \in Nat
    /\ StreamLength \in Nat /\ MaxVersions \in Nat /\ MaxInvitations \in Nat

\* The component in focus keeps its state in the first of the variables.
VARIABLES focus, v1, v2, v3, v4, v5, v6, v7, v8, v9, v10,
          v11, v12, v13, v14, v15, v16, v17, v18, v19

vars == <<focus, v1, v2, v3, v4, v5, v6, v7, v8, v9, v10,
          v11, v12, v13, v14, v15, v16, v17, v18, v19>>

(* Gateway *)
redisUp == v1
rate == v2
slots == v3
hasTTL == v4
spend == v5
resetAt == v6
now == v7
req == v8
leaked == v9
drift == v10
untimed == v11
resets == v12
owed == v13

(* Routing *)
health == v1
failures == v2
cooled == v3
active == v4
up == v5
probe == v6
routed == v7
lostCounts == v8
faulted == v9

(* ResponseCache *)
entries == v1
accumulators == v2
lookup == v3
overlapped == v4

(* ControlPlane *)
auth == v1
gone == v2
reader == v3
snap == v4
models == v5
config == v6
registry == v7
groups1 == v8
groups2 == v9
lock == v10
inbox == v11
queued == v12
listening == v13
events == v14
following == v15
task == v16
missed == v17
missedAuth == v18
used == v19

(* PolicyVersions *)
kind == v1
owner == v2
version == v3
editor == v4
everPublished == v5
interrupted == v6
editsOverlapped == v7

(* Memberships *)
member == v1
team == v2
orgRow == v3
lastRow == v4
teamMember == v5
keys == v6
request == v7
excused == v8

(* Invitations *)
invitation == v1
due == v2
token == v3
sender == v4
guest == v5
canceller == v6
granted == v7
cancelled == v8
reopened == v9

(* Sessions *)
account == v1
session == v2
link == v3
ssoState == v4
client == v5
passwords == v6
secrets == v7
lastReset == v8

(* McpGateway *)
policy == v1
approval == v2
clock == v3
toolSlots == v4
cached == v5
sess == v6
live == v7
opened == v8
call == v9
raced == v10

-----------------------------------------------------------------------------
(* GatewayProofs brings a key's limits and budget, and the control plane.    *)
(*                                                                           *)
(* Limits: requests of a key that may run MaxParallel at a time and has a    *)
(* budget.  Administrators change keys and their owners (Limits!Plane).      *)
Limits == INSTANCE GatewayProofs WITH
    Requests <- Actors, FailClosed <- TRUE,
    Instances <- Actors, Families <- {"keys"}, Readers <- Actors,
    Faults <- {"redis"}, MaxHandlers <- 2, MaxFaults <- 1, MaxTimers <- 0

(* Outage: the counters move to the process.  Administrators change what     *)
(* governs access, while a call, a listener or a process fails.              *)
Outage == INSTANCE GatewayProofs WITH
    Scopes <- {}, RateLimit <- [c \in {} |-> 0], Requests <- Actors, FailClosed <- FALSE,
    MaxPeriods <- 0, Instances <- Actors, Families <- {"governance"}, Readers <- {},
    Faults <- {"redis", "database", "listener", "crash"},
    MaxHandlers <- 3, MaxFaults <- 1, MaxTimers <- 0

(* RoutingProofs brings the routing of requests, and what the router is      *)
(* built from.                                                               *)
(*                                                                           *)
(* Router: requests that retry and fall back, and a process that dies.       *)
(* Administrators change models and route groups while the configuration is  *)
(* polled (Router!Plane).                                                    *)
Router == INSTANCE RoutingProofs WITH
    Requests <- Actors, HealthChecks <- TRUE, ClassifiedServerErrors <- FALSE,
    req <- routed, leaked <- lostCounts,
    Instances <- Actors, Families <- {"runtime"}, Readers <- {},
    Faults <- {"redis", "database", "listener"}, MaxHandlers <- 1, MaxFaults <- 1, MaxTimers <- 1

(* Alone: twice on one instance.                                             *)
Alone == INSTANCE RoutingProofs WITH
    Requests <- {}, HealthChecks <- TRUE, ClassifiedServerErrors <- FALSE,
    req <- routed, leaked <- lostCounts,
    Instances <- {Lone}, Families <- {"runtime"}, Readers <- {},
    Faults <- {"redis"}, MaxHandlers <- 2, MaxFaults <- 1, MaxTimers <- 0

(* Logins and resets, invitations, edited versions, memberships, cached      *)
(* answers, and MCP calls that need approval.                                *)
Access == INSTANCE AccessProofs WITH
    Clients <- Actors, MaxSecrets <- 0, Guests <- Actors, Editors <- Actors, Staff <- Actors,
    Callers <- Actors, Calls <- Actors, MaxServerSessions <- 0, MaxPrunes <- 0,
    MaxToolHops <- 0, MaxConcurrency <- 1

(* MCP calls that share an upstream session.                                 *)
Shared == INSTANCE AccessProofs WITH
    Clients <- {}, Guests <- {}, Editors <- {}, Staff <- {}, Callers <- {}, Calls <- Actors,
    MaxApprovals <- 0, MaxToolHops <- 0

(* Chat requests that loop over tools.                                       *)
Chat == INSTANCE McpGateway WITH
    Calls <- Actors, MaxApprovals <- 0, MaxServerSessions <- 1, MaxPrunes <- 0,
    MaxConcurrency <- 1, slots <- toolSlots

(* Logins with a second factor.                                              *)
Mfa == INSTANCE Sessions WITH Clients <- Actors, MaxPasswords <- 1, MaxLinks <- 0

-----------------------------------------------------------------------------
\* The component in focus uses the first n variables.
Unused(n) ==
    /\ (n < 5 => v5 = 0) /\ (n < 6 => v6 = 0)
    /\ (n < 7 => v7 = 0) /\ (n < 8 => v8 = 0)
    /\ (n < 9 => v9 = 0) /\ (n < 10 => v10 = 0)
    /\ (n < 11 => v11 = 0) /\ (n < 12 => v12 = 0)
    /\ (n < 13 => v13 = 0) /\ (n < 14 => v14 = 0)
    /\ (n < 15 => v15 = 0) /\ (n < 16 => v16 = 0)
    /\ (n < 17 => v17 = 0) /\ (n < 18 => v18 = 0)
    /\ (n < 19 => v19 = 0)

Kept19 == UNCHANGED focus
Kept13 == Kept19 /\ UNCHANGED <<v14, v15, v16, v17, v18, v19>>
Kept10 == Kept13 /\ UNCHANGED <<v11, v12, v13>>
Kept9 == Kept10 /\ UNCHANGED v10
Kept8 == Kept9 /\ UNCHANGED v9
Kept7 == Kept8 /\ UNCHANGED v8
Kept4 == Kept7 /\ UNCHANGED <<v5, v6, v7>>

Init ==
    \/ focus = "limits" /\ Limits!Init /\ Unused(13)
    \/ focus = "outage" /\ Outage!Init /\ Unused(13)
    \/ focus = "budget" /\ Limits!Init /\ Unused(13)
    \/ focus = "router" /\ Router!Init /\ Unused(9)
    \/ focus = "cache" /\ Access!Cache!CacheInit /\ Unused(4)
    \/ focus = "keys" /\ Limits!Plane!Init /\ Unused(19)
    \/ focus = "governance" /\ Outage!Plane!Init /\ Unused(19)
    \/ focus = "governance busy" /\ Outage!Plane!Init /\ Unused(19)
    \/ focus = "runtime" /\ Router!Plane!Init /\ Unused(19)
    \/ focus = "runtime polled" /\ Router!Plane!Init /\ Unused(19)
    \/ focus = "runtime alone" /\ Alone!Plane!Init /\ Unused(19)
    \/ focus = "versions" /\ Access!Policies!VersionInit /\ Unused(7)
    \/ focus = "members" /\ Access!Members!MemberInit /\ Unused(8)
    \/ focus = "invitations" /\ Access!Invited!InvitationInit /\ Unused(9)
    \/ focus = "sessions" /\ Access!Login!SessionInit /\ Unused(8)
    \/ focus = "mfa" /\ Mfa!SessionInit /\ Unused(8)
    \/ focus = "approvals" /\ Access!Mcp!McpInit /\ Unused(10)
    \/ focus = "chat" /\ Chat!McpInit /\ Unused(10)
    \/ focus = "tools" /\ Shared!Mcp!McpInit /\ Unused(10)

\* Losses and budget periods, faults and a third administrator, faults and
\* polling are explored apart.
Next ==
    \/ focus = "limits" /\ UNCHANGED now /\ Limits!Next /\ Kept13
    \/ focus = "outage" /\ Outage!Next /\ Kept13
    \/ focus = "budget" /\ UNCHANGED <<leaked, drift>> /\ Limits!Next /\ Kept13
    \/ focus = "router" /\ Router!Next /\ Kept9
    \/ focus = "cache" /\ Access!Cache!CacheNext /\ Kept4
    \/ focus = "keys" /\ Limits!Plane!Next /\ Kept19
    \/ focus = "governance" /\ Outage!Plane!Next /\ used'.handlers < 3 /\ Kept19
    \/ focus = "governance busy" /\ Outage!Plane!Next /\ used'.faults = 0 /\ Kept19
    \/ focus = "runtime" /\ Router!Plane!Next /\ used'.timers = 0 /\ Kept19
    \/ focus = "runtime polled" /\ Router!Plane!Next /\ used'.faults = 0 /\ Kept19
    \/ focus = "runtime alone" /\ Alone!Plane!Next /\ Kept19
    \/ focus = "versions" /\ Access!Policies!VersionNext /\ Kept7
    \/ focus = "members" /\ Access!Members!MemberNext /\ Kept8
    \/ focus = "invitations" /\ Access!Invited!InvitationNext /\ Kept9
    \/ focus = "sessions" /\ Access!Login!SessionNext /\ Kept8
    \/ focus = "mfa" /\ Mfa!SessionNext /\ Kept8
    \/ focus = "approvals" /\ Access!Mcp!McpNext /\ Kept10
    \/ focus = "chat" /\ Chat!McpNext /\ Kept10
    \/ focus = "tools" /\ Shared!Mcp!McpNext /\ Kept10

Spec == Init /\ [][Next]_vars
-----------------------------------------------------------------------------
(* The properties of the components, each under its focus.                   *)

\* A key never has more requests in flight than its max_parallel_requests,
\* whatever is rejected, cancelled or dies (limit_counter.py:145), but for a
\* slot in use that an outage or an expiry hit.
ParallelLimitKept ==
    /\ focus = "limits" => Limits!ParallelLimitKept
    /\ focus = "outage" => Outage!ParallelLimitKept

\* Every slot counted is a request in progress or a known loss; no path keeps
\* one or returns one twice (rate_limit.py:233). The same holds of the active
\* counts of a deployment that two requests share (failover.py:325).
SlotsAccountedFor ==
    /\ focus = "limits" => Limits!SlotsAccountedFor
    /\ focus = "outage" => Outage!SlotsAccountedFor
    /\ focus = "router" => Router!ActiveCounted

\* The counter that holds a lost slot expires (limit_counter.py:161).
LostSlotsExpire == focus = "limits" => Limits!LostSlotsExpire

\* Requests that find the budget period over together reset it once
\* (billing/budget.py:159).
OneResetPerPeriod == focus = "budget" => Limits!OneResetPerPeriod

\* Every answered request is charged once unless its process or its write
\* failed (billing/spend.py:162).
RequestChargedOnce ==
    /\ focus = "limits" => Limits!RequestChargedOnce
    /\ focus = "budget" => Limits!RequestChargedOnce

\* A cached streamed answer is the whole answer of one upstream call, or two
\* streams of the same key overlapped (cache/streaming.py).
CachedAnswersAreWhole == focus = "cache" => Access!Cache!CachedAnswersAreWhole

\* No cached authorization outlives the change of its key or owner, but for
\* the named races and faults (services/key_service.py).
AuthRecordsFollow == focus = "keys" => Limits!Plane!AuthRecordsFollow

\* A governance snapshot that misses a write has its reload ahead, but for
\* the faults named in ControlPlane (services/governance_invalidation.py).
SnapshotsFollow ==
    /\ focus = "governance" => Outage!Plane!SnapshotsFollow
    /\ focus = "governance busy" => Outage!Plane!SnapshotsFollow

\* An instance that runs other models, route groups or settings than the
\* stored ones has their installation ahead, but for the faults and overtaken
\* reloads named in ControlPlane (config_runtime/).
RuntimeFollows ==
    /\ focus = "runtime" => Router!Plane!RuntimeFollows
    /\ focus = "runtime polled" => Router!Plane!RuntimeFollows
    /\ focus = "runtime alone" => Alone!Plane!RuntimeFollows

\* A route group or prompt that was published keeps a published version unless
\* edits raced (db/route_groups.py, db/prompt_registry.py).
LiveVersionKept == focus = "versions" => Access!Policies!LiveVersionKept

\* A team member is a member of the team's organization, but for overlapping
\* additions, broken-off SSO logins and moved teams (teams.py, rbac.py).
MembersBelong == focus = "members" => Access!Members!MembersBelong

\* An invitation is closed once: accepted by one guest or cancelled
\* (services/invitation_service.py).
ClosedOnce == focus = "invitations" => Access!Invited!ClosedOnce

\* No session opened with the old password outlives a password reset, but for
\* a login under way (services/platform_identity_service.py).
SessionsEndWithReset == focus = "sessions" => Access!Login!SessionsEndWithReset

\* At most one approval request of a call is pending or usable, unless one was
\* decided between a lookup and an insert (mcp/approvals.py:60).
OneActiveRequest == focus = "approvals" => Access!Mcp!OneActiveRequest

\* A call whose old session was rejected never gives up the session that
\* replaced it (mcp/transport_http.py).
LiveSessionKept == [][focus = "tools" => Shared!Mcp!SessionKept]_vars
=============================================================================
