--------------------------- MODULE ServicesProofs ---------------------------
(***************************************************************************)
(* The properties of Services for every value of its constants. The focus  *)
(* never changes, and while a component is in focus the variables take its *)
(* steps or none: its specification holds, so the theorems of its proof    *)
(* module apply.                                                           *)
(***************************************************************************)
EXTENDS Services, TLAPS

\* A component is in focus.
In(f) == focus = f

\* The focus never changes.
LEMMA FocusKept ==
    [Next]_vars =>
        /\ (In("limits") <=> In("limits")')
        /\ (In("outage") <=> In("outage")')
        /\ (In("budget") <=> In("budget")')
        /\ (In("keys") <=> In("keys")')
        /\ (In("governance") <=> In("governance")')
        /\ (In("governance busy") <=> In("governance busy")')
        /\ (In("router") <=> In("router")')
        /\ (In("runtime") <=> In("runtime")')
        /\ (In("runtime polled") <=> In("runtime polled")')
        /\ (In("runtime alone") <=> In("runtime alone")')
        /\ (In("cache") <=> In("cache")')
        /\ (In("versions") <=> In("versions")')
        /\ (In("members") <=> In("members")')
        /\ (In("invitations") <=> In("invitations")')
        /\ (In("sessions") <=> In("sessions")')
        /\ (In("approvals") <=> In("approvals")')
        /\ (In("tools") <=> In("tools")')
  BY ZenonT(60) DEF Next, vars, Kept4, Kept7, Kept8, Kept9, Kept10, Kept13, Kept19, In

\* What is true of the initial states of the component in focus.
LEMMA FocusBegins ==
    Init =>
        /\ (In("limits") => Limits!Init)
        /\ (In("outage") => Outage!Init)
        /\ (In("budget") => Limits!Init)
        /\ (In("keys") => Limits!Plane!Init)
        /\ (In("governance") => Outage!Plane!Init)
        /\ (In("governance busy") => Outage!Plane!Init)
        /\ (In("router") => Router!Init)
        /\ (In("runtime") => Router!Plane!Init)
        /\ (In("runtime polled") => Router!Plane!Init)
        /\ (In("runtime alone") => Alone!Plane!Init)
        /\ (In("cache") => Access!Cache!CacheInit)
        /\ (In("versions") => Access!Policies!VersionInit)
        /\ (In("members") => Access!Members!MemberInit)
        /\ (In("invitations") => Access!Invited!InvitationInit)
        /\ (In("sessions") => Access!Login!SessionInit)
        /\ (In("approvals") => Access!Mcp!McpInit)
        /\ (In("tools") => Shared!Mcp!McpInit)
  BY ZenonT(60) DEF In, Init

LEMMA LimitsFocus == Spec => []~In("limits") \/ Limits!Spec
<1>1. [Next]_vars /\ In("limits") => [Limits!Next]_Limits!vars
  BY ZenonT(60) DEF In, Next, vars, Limits!vars, redisUp, rate, slots, hasTTL, spend, resetAt,
     now, req, leaked, drift, untimed, resets, owed
<1> QED
  BY FocusBegins, FocusKept, <1>1, PTL DEF Spec, Limits!Spec

LEMMA OutageFocus == Spec => []~In("outage") \/ Outage!Spec
<1>1. [Next]_vars /\ In("outage") => [Outage!Next]_Outage!vars
  BY ZenonT(60) DEF In, Next, vars, Outage!vars, redisUp, rate, slots, hasTTL, spend, resetAt,
     now, req, leaked, drift, untimed, resets, owed
<1> QED
  BY FocusBegins, FocusKept, <1>1, PTL DEF Spec, Outage!Spec

LEMMA BudgetFocus == Spec => []~In("budget") \/ Limits!Spec
<1>1. [Next]_vars /\ In("budget") => [Limits!Next]_Limits!vars
  BY ZenonT(60) DEF In, Next, vars, Limits!vars, redisUp, rate, slots, hasTTL, spend, resetAt,
     now, req, leaked, drift, untimed, resets, owed
<1> QED
  BY FocusBegins, FocusKept, <1>1, PTL DEF Spec, Limits!Spec

LEMMA KeysFocus == Spec => []~In("keys") \/ Limits!Plane!SafetySpec
<1>1. [Next]_vars /\ In("keys") => [Limits!Plane!Next]_Limits!Plane!vars
  BY ZenonT(60) DEF In, Next, vars, Limits!Plane!vars, auth, gone, reader, snap, models, config,
     registry, groups1, groups2, lock, inbox, queued, listening, events, following, task,
     missed, missedAuth, used
<1> QED
  BY FocusBegins, FocusKept, <1>1, PTL DEF Spec, Limits!Plane!SafetySpec

LEMMA GovernanceFocus == Spec => []~In("governance") \/ Outage!Plane!SafetySpec
<1>1. [Next]_vars /\ In("governance") => [Outage!Plane!Next]_Outage!Plane!vars
  BY ZenonT(60) DEF In, Next, vars, Outage!Plane!vars, auth, gone, reader, snap, models, config,
     registry, groups1, groups2, lock, inbox, queued, listening, events, following, task,
     missed, missedAuth, used
<1> QED
  BY FocusBegins, FocusKept, <1>1, PTL DEF Spec, Outage!Plane!SafetySpec

LEMMA BusyFocus == Spec => []~In("governance busy") \/ Outage!Plane!SafetySpec
<1>1. [Next]_vars /\ In("governance busy") => [Outage!Plane!Next]_Outage!Plane!vars
  BY ZenonT(60) DEF In, Next, vars, Outage!Plane!vars, auth, gone, reader, snap, models, config,
     registry, groups1, groups2, lock, inbox, queued, listening, events, following, task,
     missed, missedAuth, used
<1> QED
  BY FocusBegins, FocusKept, <1>1, PTL DEF Spec, Outage!Plane!SafetySpec

LEMMA RuntimeFocus == Spec => []~In("runtime") \/ Router!Plane!SafetySpec
<1>1. [Next]_vars /\ In("runtime") => [Router!Plane!Next]_Router!Plane!vars
  BY ZenonT(60) DEF In, Next, vars, Router!Plane!vars, auth, gone, reader, snap, models, config,
     registry, groups1, groups2, lock, inbox, queued, listening, events, following, task,
     missed, missedAuth, used
<1> QED
  BY FocusBegins, FocusKept, <1>1, PTL DEF Spec, Router!Plane!SafetySpec

LEMMA PolledFocus == Spec => []~In("runtime polled") \/ Router!Plane!SafetySpec
<1>1. [Next]_vars /\ In("runtime polled") => [Router!Plane!Next]_Router!Plane!vars
  BY ZenonT(60) DEF In, Next, vars, Router!Plane!vars, auth, gone, reader, snap, models, config,
     registry, groups1, groups2, lock, inbox, queued, listening, events, following, task,
     missed, missedAuth, used
<1> QED
  BY FocusBegins, FocusKept, <1>1, PTL DEF Spec, Router!Plane!SafetySpec

LEMMA AloneFocus == Spec => []~In("runtime alone") \/ Alone!Plane!SafetySpec
<1>1. [Next]_vars /\ In("runtime alone") => [Alone!Plane!Next]_Alone!Plane!vars
  BY ZenonT(60) DEF In, Next, vars, Alone!Plane!vars, auth, gone, reader, snap, models, config,
     registry, groups1, groups2, lock, inbox, queued, listening, events, following, task,
     missed, missedAuth, used
<1> QED
  BY FocusBegins, FocusKept, <1>1, PTL DEF Spec, Alone!Plane!SafetySpec

-----------------------------------------------------------------------------
(* The properties *)

\* ParallelLimitKept for every set of requests, every limit and every bound on
\* what is lost: max_parallel_requests holds but for slots in use that an outage
\* or an expiry hit (limit_counter.py:145).
THEOREM ParallelSafe == Spec => []ParallelLimitKept
<1>1. Limits!Spec => []Limits!ParallelLimitKept
  BY SMTT(60), ServicesAssumption, Limits!ParallelSafe
<1>2. Outage!Spec => []Outage!ParallelLimitKept
  BY SMTT(60), ServicesAssumption, Outage!ParallelSafe
<1>3. (In("limits") => Limits!ParallelLimitKept)
     => ((In("outage") => Outage!ParallelLimitKept)
     => ParallelLimitKept)
  BY SMTT(60) DEF In, ParallelLimitKept
<1> QED
  BY LimitsFocus, OutageFocus, <1>1, <1>2, <1>3, PTL DEF Spec

\* SlotsAccountedFor for every set of requests and deployments: every counted slot
\* and every active count is held by a request or a known loss (rate_limit.py:233,
\* failover.py:325).
THEOREM SlotsSafe == Spec => []SlotsAccountedFor
<1>1. [Next]_vars /\ In("router") => [Router!Next]_Router!vars
  BY ZenonT(60) DEF In, Next, vars, Router!vars, health, failures, cooled, active, up, probe,
     routed, lostCounts, faulted
<1>2. Limits!Spec => []Limits!SlotsAccountedFor
  BY SMTT(60), ServicesAssumption, Limits!SlotsSafe
<1>3. Outage!Spec => []Outage!SlotsAccountedFor
  BY SMTT(60), ServicesAssumption, Outage!SlotsSafe
<1>4. Router!SafetySpec => []Router!ActiveCounted
  BY SMTT(60), ServicesAssumption, Router!ActiveAlways
<1>5. (In("limits") => Limits!SlotsAccountedFor)
     => ((In("outage") => Outage!SlotsAccountedFor)
     => ((In("router") => Router!ActiveCounted)
     => SlotsAccountedFor))
  BY SMTT(60) DEF In, SlotsAccountedFor
<1> QED
  BY LimitsFocus, OutageFocus, FocusBegins, FocusKept, <1>1, <1>2, <1>3, <1>4, <1>5, PTL DEF Spec,
     Router!SafetySpec

\* LostSlotsExpire for every set of requests and every limit
\* (limit_counter.py:161).
THEOREM ExpirySafe == Spec => []LostSlotsExpire
<1>1. Limits!Spec => []Limits!LostSlotsExpire
  BY SMTT(60), ServicesAssumption, Limits!ExpirySafe
<1>2. (In("limits") => Limits!LostSlotsExpire)
     => LostSlotsExpire
  BY SMTT(60) DEF In, LostSlotsExpire
<1> QED
  BY LimitsFocus, <1>1, <1>2, PTL DEF Spec

\* OneResetPerPeriod for every set of requests and number of periods
\* (billing/budget.py:159).
THEOREM BudgetSafe == Spec => []OneResetPerPeriod
<1>1. (In("budget") => Limits!OneResetPerPeriod)
     => OneResetPerPeriod
  BY SMTT(60) DEF In, OneResetPerPeriod
<1> QED
  BY BudgetFocus, Limits!BudgetSafe, <1>1, PTL DEF Spec

\* RequestChargedOnce for every set of requests, every limit and budget
\* (billing/spend.py:162).
THEOREM ChargeSafe == Spec => []RequestChargedOnce
<1>1. (In("limits") => Limits!RequestChargedOnce)
     => ((In("budget") => Limits!RequestChargedOnce)
     => RequestChargedOnce)
  BY SMTT(60) DEF In, RequestChargedOnce
<1> QED
  BY LimitsFocus, BudgetFocus, Limits!ChargeSafe, <1>1, PTL DEF Spec

\* CachedAnswersAreWhole for every set of callers and keys and every length of a
\* stream (cache/streaming.py).
THEOREM WholeSafe == Spec => []CachedAnswersAreWhole
<1>1. [Next]_vars /\ In("cache") => [Access!Cache!CacheNext]_Access!Cache!cacheVars
  BY ZenonT(60) DEF In, Next, vars, Access!Cache!cacheVars, entries, accumulators, lookup,
     overlapped
<1>2. Access!Cache!CacheSpec => []Access!Cache!CachedAnswersAreWhole
  BY SMTT(60), ServicesAssumption, Access!WholeSafe
<1>3. (In("cache") => Access!Cache!CachedAnswersAreWhole)
     => CachedAnswersAreWhole
  BY SMTT(60) DEF In, CachedAnswersAreWhole
<1> QED
  BY FocusBegins, FocusKept, <1>1, <1>2, <1>3, PTL DEF Spec, Access!Cache!CacheSpec

\* AuthRecordsFollow for every set of instances: a cached key record that no
\* longer agrees with its rows is about to be dropped by the handler that wrote
\* them, or the loss is on record (services/key_service.py).
THEOREM AuthSafe == Spec => []AuthRecordsFollow
<1>1. Limits!Plane!SafetySpec => []Limits!Plane!AuthRecordsFollow
  BY SMTT(60), Limits!AuthSafe DEF Limits!KnownFamilies
<1>2. (In("keys") => Limits!Plane!AuthRecordsFollow) => AuthRecordsFollow
  BY SMTT(60) DEF In, AuthRecordsFollow
<1> QED
  BY <1>1, <1>2, KeysFocus, PTL

\* SnapshotsFollow for every set of instances: a governance snapshot that misses
\* a committed write has its reload ahead or the message on its way, or a fault
\* took it (services/governance_invalidation.py).
THEOREM SnapshotsSafe == Spec => []SnapshotsFollow
<1>1. Outage!Plane!SafetySpec => []Outage!Plane!SnapshotsFollow
  BY SMTT(60), Outage!SnapshotsSafe DEF Outage!KnownFamilies
<1>2. (In("governance") => Outage!Plane!SnapshotsFollow)
      /\ (In("governance busy") => Outage!Plane!SnapshotsFollow) => SnapshotsFollow
  BY ZenonT(60) DEF In, SnapshotsFollow
<1> QED
  BY <1>1, <1>2, GovernanceFocus, BusyFocus, PTL

\* RuntimeFollows for every set of instances: a router or batch scheduler set up
\* from models, route groups or settings that are no longer in force has its
\* rebuild ahead or the message on its way, or a fault or an overtaken reload
\* took it (config_runtime/models.py, config_runtime/dynamic.py).
THEOREM RuntimeSafe == Spec => []RuntimeFollows
<1>1. Router!Plane!SafetySpec => []Router!Plane!RuntimeFollows
  BY SMTT(60), ServicesAssumption, Router!RuntimeSafe DEF Router!KnownFamilies
<1>2. Alone!Plane!SafetySpec => []Alone!Plane!RuntimeFollows
  BY SMTT(60), ServicesAssumption, Alone!RuntimeSafe DEF Alone!KnownFamilies
<1>3. /\ (In("runtime") => Router!Plane!RuntimeFollows)
      /\ (In("runtime polled") => Router!Plane!RuntimeFollows)
      /\ (In("runtime alone") => Alone!Plane!RuntimeFollows)
      => RuntimeFollows
  BY ZenonT(60) DEF In, RuntimeFollows
<1> QED
  BY <1>1, <1>2, <1>3, RuntimeFocus, PolledFocus, AloneFocus, PTL

\* LiveVersionKept for every set of editors and number of versions
\* (db/route_groups.py, db/prompt_registry.py).
THEOREM LiveSafe == Spec => []LiveVersionKept
<1>1. [Next]_vars /\ In("versions") => [Access!Policies!VersionNext]_Access!Policies!versionVars
  BY ZenonT(60) DEF In, Next, vars, Access!Policies!versionVars, kind, owner, version, editor,
     everPublished, interrupted, editsOverlapped
<1>2. Access!Policies!VersionSpec => []Access!Policies!LiveVersionKept
  BY SMTT(60), ServicesAssumption, Access!LiveSafe
<1>3. (In("versions") => Access!Policies!LiveVersionKept)
     => LiveVersionKept
  BY SMTT(60) DEF In, LiveVersionKept
<1> QED
  BY FocusBegins, FocusKept, <1>1, <1>2, <1>3, PTL DEF Spec, Access!Policies!VersionSpec

\* MembersBelong for every set of administrators and organizations
\* (teams.py, rbac.py, services/access_provisioning_service.py).
THEOREM BelongSafe == Spec => []MembersBelong
<1>1. [Next]_vars /\ In("members") => [Access!Members!MemberNext]_Access!Members!memberVars
  BY ZenonT(60) DEF In, Next, vars, Access!Members!memberVars, member, team, orgRow, lastRow,
     teamMember, keys, request, excused
<1>2. (In("members") => Access!Members!MembersBelong)
     => MembersBelong
  BY SMTT(60) DEF In, MembersBelong
<1> QED
  BY FocusBegins, FocusKept, <1>1, Access!BelongSafe, <1>2, PTL DEF Spec, Access!Members!MemberSpec

\* ClosedOnce for every set of senders, guests and cancellers
\* (services/invitation_service.py).
THEOREM ClosedSafe == Spec => []ClosedOnce
<1>1. [Next]_vars /\ In("invitations") => [Access!Invited!InvitationNext]_Access!Invited!invitationVars
  BY ZenonT(60) DEF In, Next, vars, Access!Invited!invitationVars, invitation, due, token,
     sender, guest, canceller, granted, cancelled, reopened
<1>2. Access!Invited!InvitationSpec => []Access!Invited!ClosedOnce
  BY SMTT(60), ServicesAssumption, Access!ClosedSafe
<1>3. (In("invitations") => Access!Invited!ClosedOnce)
     => ClosedOnce
  BY SMTT(60) DEF In, ClosedOnce
<1> QED
  BY FocusBegins, FocusKept, <1>1, <1>2, <1>3, PTL DEF Spec, Access!Invited!InvitationSpec

\* SessionsEndWithReset for every set of clients and number of passwords and
\* sessions (services/platform_identity_service.py).
THEOREM ResetSafe == Spec => []SessionsEndWithReset
<1>1. [Next]_vars /\ In("sessions") => [Access!Login!SessionNext]_Access!Login!sessionVars
  BY ZenonT(60) DEF In, Next, vars, Access!Login!sessionVars, account, session, link, ssoState,
     client, passwords, secrets, lastReset
<1>2. (In("sessions") => Access!Login!SessionsEndWithReset)
     => SessionsEndWithReset
  BY SMTT(60) DEF In, SessionsEndWithReset
<1> QED
  BY FocusBegins, FocusKept, <1>1, Access!ResetSafe, <1>2, PTL DEF Spec, Access!Login!SessionSpec

\* OneActiveRequest for every set of calls and number of approval requests
\* (mcp/approvals.py:60).
THEOREM ApprovalSafe == Spec => []OneActiveRequest
<1>1. [Next]_vars /\ In("approvals") => [Access!Mcp!McpNext]_Access!Mcp!mcpVars
  BY ZenonT(60) DEF In, Next, vars, Access!Mcp!mcpVars, policy, approval, clock, toolSlots,
     cached, sess, live, opened, call, raced
<1>2. (In("approvals") => Access!Mcp!OneActiveRequest)
     => OneActiveRequest
  BY SMTT(60) DEF In, OneActiveRequest
<1> QED
  BY FocusBegins, FocusKept, <1>1, Access!ApprovalSafe, <1>2, PTL DEF Spec, Access!Mcp!McpSpec

\* LiveSessionKept for every set of calls and number of upstream sessions
\* (mcp/transport_http.py).
THEOREM SessionKeptSafe == Spec => LiveSessionKept
<1>1. [Next]_vars /\ In("tools") => [Shared!Mcp!McpNext]_Shared!Mcp!mcpVars
  BY ZenonT(60) DEF In, Next, vars, Shared!Mcp!mcpVars, policy, approval, clock, toolSlots,
     cached, sess, live, opened, call, raced
<1>2. Shared!Mcp!McpSpec => Shared!Mcp!LiveSessionKept
  BY SMTT(60), ServicesAssumption, Shared!SessionKeptSafe
<1>3. (In("tools") => [Shared!Mcp!SessionKept]_Shared!Mcp!mcpVars)
        => [focus = "tools" => Shared!Mcp!SessionKept]_vars
  BY SMTT(60) DEF In, vars, Shared!Mcp!mcpVars, Shared!Mcp!SessionKept, sess
<1> QED
  BY FocusBegins, FocusKept, <1>1, <1>2, <1>3, PTL DEF Spec, Shared!Mcp!McpSpec, LiveSessionKept,
     Shared!Mcp!LiveSessionKept
=============================================================================
