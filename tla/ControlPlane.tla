---------------------------- MODULE ControlPlane ----------------------------
(***************************************************************************)
(* Administrative writes and the copies the gateway instances serve from:  *)
(* the key validation cache in Redis (services/key_service.py), the        *)
(* callable-target and MCP snapshots of every instance                     *)
(* (services/callable_target_grants.py, mcp/governance.py) with their      *)
(* invalidation channel (services/governance_invalidation.py), and the     *)
(* model registry and settings with theirs (config_runtime/).              *)
(*                                                                         *)
(* A handler of the admin API is the sequence of its awaits that write a   *)
(* table, refresh a copy or tell the other instances; validation, audit    *)
(* and response are one step that may reject. What is kept of a copy is    *)
(* whether it is fresh: a write makes every copy of the table stale, those *)
(* read but not yet installed included.                                    *)
(***************************************************************************)
EXTENDS Integers, Sequences, FiniteSets, SequencesExt

CONSTANTS
    Instances,      \* gateway processes
    Families,       \* the families of admin handlers that run
    Readers,        \* the instances that validate keys
    Faults,         \* what fails: redis and database calls, a listener, a process
    MaxHandlers,    \* bound: handlers that run
    MaxFaults,      \* bound: failures
    MaxTimers       \* bound: polls of the configuration and expired route groups

VARIABLES
    auth,           \* the key's entry in Redis: none, fresh or stale
    gone,           \* the key's row was deleted or renamed
    reader,         \* validate_key on each instance
    snap,           \* [Instances -> [Views -> BOOLEAN]], fresh snapshots
    models,         \* app.state.model_registry
    config,         \* the dynamic configuration in memory
    registry,       \* what the router was built from, and the batch scheduler
    groups1,        \* RouteGroupRuntimeCache, first level
    groups2,        \* and second level, in Redis
    lock,           \* GovernanceInvalidationService._apply_lock
    inbox,          \* governance messages under way to an instance
    queued,         \* _remote_targets
    listening,      \* the governance listener
    events,         \* configuration messages under way
    following,      \* the configuration listener
    task,           \* what each task of an instance has still to do
    missed,         \* history: refreshes that a fault took from an instance
    missedAuth,     \* history: the stale entry's deletion was lost
    used            \* handlers and failures so far, for the bounds

vars == <<auth, gone, reader, snap, models, config, registry, groups1, groups2, lock,
          inbox, queued, listening, events, following, task, missed, missedAuth, used>>
authVars == <<auth, gone, reader, missedAuth>>
runtimeVars == <<models, config, registry, groups1, groups2>>
channelVars == <<inbox, queued, listening, events, following>>

Views == {"targets", "mcp"}
Sources == {"models", "groups", "settings", "scheduler"}
Tasks == {"admin", "flush", "listener", "poll"}

-----------------------------------------------------------------------------
(* Steps.                                                                   *)
(*   check    load, authorize, validate: may reject                        *)
(*   write    commit rows; edit: commit rows whose copies no one refreshes *)
(*   drop     delete the cached key records; an error is raised, or logged *)
(*   lock, read, install   invalidate_local                                *)
(*   notify   tell the other instances; publish: tell every listener       *)
(*   uncache, get, models, groups, query, store, build   a runtime reload  *)
(*   tune     the batch scheduler takes the configuration                  *)
(*   follow   bring the bindings of auto-following organizations in line   *)

Check == <<"check", "request">>
Drop == <<"drop", "raise">>
DropLogged == <<"drop", "log">>
Write(table) == <<"write", table>>
Edit(table) == <<"edit", table>>

\* invalidate_local: one reload at a time on an instance.
InvalidateLocal(view) == <<<<"lock", view>>, <<"read", view>>, <<"install", view>>>>
Notify(view) == <<"notify", view>>

\* reload_callable_target_grants, _reload_runtime_governance
ReloadTargets == InvalidateLocal("targets") \o <<Notify("targets")>>
ReloadRuntimeGovernance == InvalidateLocal("mcp") \o <<Notify("mcp")>>

Uncache == <<"uncache", "groups">>

\* _apply_runtime_config
ApplyRuntimeConfig ==
    <<<<"models", "load">>, <<"groups", "load">>, <<"build", "registry">>>>
        \o InvalidateLocal("targets")

\* ModelHotReloadManager.reload_runtime
ReloadRuntime ==
    <<<<"get", "config">>>> \o ApplyRuntimeConfig
        \o <<<<"follow", "targets">>, <<"publish", "model">>>>

-----------------------------------------------------------------------------
(* The handlers of keys, users, teams and organizations *)

\* Faulty variant: the record is dropped before the row is written.
UpdateKeyDroppedFirst == <<Check, Drop, Write("key")>>

UpdateKey == <<Check, Write("key"), Drop>>
RegenerateKey == <<Check, Write("gone"), DropLogged>>
RevokeKey == <<Check, Write("gone"), DropLogged>>
DeleteKey == <<Check, Write("gone"), DropLogged>>
UpdateUser == <<Check, Write("owner"), Drop>>
UpdateTeam == <<Check, Write("owner"), DropLogged>>
\* The users of the team lose it; their keys are not looked up.
DeleteTeam == <<Check, Edit("owner")>>
RemoveTeamMember == <<Check, Write("gone"), DropLogged>>
\* Guardrails live in the metadata of the key, team or organization.
UpdateScopedGuardrails == <<Check, Edit("owner")>>
DeleteScopedGuardrails == <<Check, Edit("owner")>>
\* The bindings of an organization to route groups and callable targets.
SyncOrgBindings == Write("targets")
\* The insert updates an organization that exists already.
CreateOrganization == <<Check, Edit("owner"), SyncOrgBindings>> \o ReloadTargets
UpdateOrganization ==
    <<Check, Write("owner"), SyncOrgBindings>> \o ReloadTargets \o <<DropLogged>>

\* What is new has no copy yet: an unknown key is not cached.
CreateKey == <<Check>>
CreateTeam == <<Check>>
CreateServiceAccount == <<Check>>

KeyHandlers ==
    {CreateKey, CreateTeam, CreateServiceAccount, UpdateKey, RegenerateKey, RevokeKey,
     DeleteKey, UpdateUser, UpdateTeam, DeleteTeam, RemoveTeamMember, UpdateScopedGuardrails, DeleteScopedGuardrails,
     CreateOrganization, UpdateOrganization}

-----------------------------------------------------------------------------
(* The handlers of callable targets and MCP governance *)

\* The statements of the repositories: each commits by itself.
TargetBindingRow == Write("targets")
RouteGroupBindingRow == Write("targets")    \* the mirror of a target binding
AccessGroupBindingRow == Write("targets")
ScopePolicyRow == Write("targets")
McpServerRow == Write("mcp")
McpServerStatus == Edit("mcp")              \* capabilities and health
McpBindingRow == Write("mcp")
McpScopePolicyRow == Write("mcp")
McpToolPolicyRow == Write("mcp")

\* The bindings, access groups and policy of a scope are brought in line one
\* row after the other, each binding with its route-group mirror.
SyncScopeBindings == <<TargetBindingRow, RouteGroupBindingRow>>
SyncScopeAccessGroupBindings == <<AccessGroupBindingRow>>
SyncScopePolicy == <<ScopePolicyRow>>

SyncScopeAssetAccess ==
    <<Check>> \o SyncScopeBindings \o SyncScopeAccessGroupBindings \o SyncScopePolicy
        \o ReloadTargets

UpdateKeyAssetAccess == SyncScopeAssetAccess
UpdateTeamAssetAccess == SyncScopeAssetAccess
UpdateUserAssetAccess == SyncScopeAssetAccess
\* In one transaction with the organization's auto-follow flag.
UpdateOrganizationAssetAccess == <<Check, Write("targets")>> \o ReloadTargets

UpsertCallableTargetBinding == <<Check, TargetBindingRow, RouteGroupBindingRow>> \o ReloadTargets
DeleteCallableTargetBinding == <<Check, TargetBindingRow, RouteGroupBindingRow>> \o ReloadTargets
UpsertAccessGroupBinding == <<Check, AccessGroupBindingRow>> \o ReloadTargets
DeleteAccessGroupBinding == <<Check, AccessGroupBindingRow>> \o ReloadTargets
UpsertScopePolicy == <<Check, ScopePolicyRow>> \o ReloadTargets
DeleteScopePolicy == <<Check, ScopePolicyRow>> \o ReloadTargets
BackfillCallableTargets == <<Check, TargetBindingRow, RouteGroupBindingRow>> \o ReloadTargets
UpsertRouteGroupBinding == <<Check, RouteGroupBindingRow, TargetBindingRow>> \o ReloadTargets
DeleteRouteGroupBinding == <<Check, RouteGroupBindingRow, TargetBindingRow>> \o ReloadTargets

CreateMcpServer == <<Check, McpServerRow>> \o ReloadRuntimeGovernance
UpdateMcpServer == <<Check, McpServerRow>> \o ReloadRuntimeGovernance
DeleteMcpServer == <<Check, McpServerRow>> \o ReloadRuntimeGovernance
UpsertMcpBinding == <<Check, McpBindingRow>> \o ReloadRuntimeGovernance
DeleteMcpBinding == <<Check, McpBindingRow>> \o ReloadRuntimeGovernance
UpsertMcpScopePolicy == <<Check, McpScopePolicyRow>> \o ReloadRuntimeGovernance
DeleteMcpScopePolicy == <<Check, McpScopePolicyRow>> \o ReloadRuntimeGovernance
UpsertMcpToolPolicy == <<Check, McpToolPolicyRow>> \o ReloadRuntimeGovernance
DeleteMcpToolPolicy == <<Check, McpToolPolicyRow>> \o ReloadRuntimeGovernance
BackfillMcp == <<Check, McpBindingRow, McpScopePolicyRow>> \o ReloadRuntimeGovernance
\* Both change the server's row only; the snapshots keep the old one.
RefreshMcpCapabilities == <<Check, McpServerStatus>>
HealthCheckMcpServer == <<Check, McpServerStatus>>

GovernanceHandlers ==
    {SyncScopeAssetAccess, UpdateOrganizationAssetAccess, UpdateKeyAssetAccess,
     UpdateTeamAssetAccess, UpdateUserAssetAccess,
     UpsertCallableTargetBinding, DeleteCallableTargetBinding, UpsertAccessGroupBinding,
     DeleteAccessGroupBinding, UpsertScopePolicy, DeleteScopePolicy,
     BackfillCallableTargets, UpsertRouteGroupBinding, DeleteRouteGroupBinding,
     CreateMcpServer, UpdateMcpServer, DeleteMcpServer, UpsertMcpBinding,
     DeleteMcpBinding, UpsertMcpScopePolicy, DeleteMcpScopePolicy, UpsertMcpToolPolicy,
     DeleteMcpToolPolicy, BackfillMcp, RefreshMcpCapabilities, HealthCheckMcpServer}

-----------------------------------------------------------------------------
(* The handlers of models, credentials, route groups and settings *)

DeploymentRow == Write("models")
CredentialRow == Write("models")
GroupRow == Write("groups")
GroupMemberRow == Write("groups")

AddModel == <<DeploymentRow, Uncache>> \o ReloadRuntime
ReplaceModel == <<DeploymentRow, Uncache>> \o ReloadRuntime
RemoveModel == <<DeploymentRow, Uncache>> \o ReloadRuntime
CreateModel == <<Check>> \o AddModel
UpdateModel == <<Check>> \o ReplaceModel
DeleteModel == <<Check>> \o RemoveModel

CreateNamedCredential == <<Check>>
UpdateNamedCredential == <<Check, CredentialRow>> \o ReloadRuntime
DeleteNamedCredential == <<Check>>
ConvertInlineGroup == <<Check, Write("models")>> \o ReloadRuntime

CreateRouteGroup == <<Check, GroupRow, Uncache>> \o ReloadRuntime
UpdateRouteGroup == <<Check, GroupRow, Uncache>> \o ReloadRuntime
DeleteRouteGroup ==
    <<Check, GroupRow, TargetBindingRow>> \o ReloadTargets \o <<Uncache>> \o ReloadRuntime
UpsertRouteGroupMember == <<Check, GroupMemberRow, Uncache>> \o ReloadRuntime
DeleteRouteGroupMember == <<Check, GroupMemberRow, Uncache>> \o ReloadRuntime
PublishRouteGroupPolicy == <<Check, Write("groups"), Uncache>> \o ReloadRuntime
PublishRouteGroupPolicyV2 == <<Check, Write("groups"), Uncache>> \o ReloadRuntime
RollbackRouteGroupPolicy == <<Check, Write("groups"), Uncache>> \o ReloadRuntime

\* _on_batch_config_change
Tune == <<"tune", "scheduler">>

\* DynamicConfigManager.update_config: store, apply, tell the subscribers
\* (the model manager, then the batch runtime), publish.
UpdateConfig ==
    <<<<"write", "settings">>, <<"get", "own">>, Uncache>> \o ApplyRuntimeConfig
        \o <<Tune, <<"publish", "config">>>>
UpdateRouting == <<Check>> \o UpdateConfig
UpdateSettings == <<Check>> \o UpdateConfig
UpdateBatchSchedulerMode == <<Check>> \o UpdateConfig

RuntimeHandlers ==
    {CreateModel, UpdateModel, DeleteModel, CreateNamedCredential, UpdateNamedCredential,
     DeleteNamedCredential, ConvertInlineGroup, CreateRouteGroup, UpdateRouteGroup,
     DeleteRouteGroup, UpsertRouteGroupMember, DeleteRouteGroupMember,
     PublishRouteGroupPolicy, PublishRouteGroupPolicyV2, RollbackRouteGroupPolicy,
     UpdateRouting, UpdateSettings, UpdateBatchSchedulerMode}

Programs ==
    UNION {CASE f = "keys" -> KeyHandlers
             [] f = "governance" -> GovernanceHandlers
             [] f = "scope policies" -> {UpsertScopePolicy, DeleteScopePolicy}
             [] f = "runtime" -> RuntimeHandlers : f \in Families}

-----------------------------------------------------------------------------
\* A task: its remaining steps, and whether what it has read is still fresh.
IdleTask ==
    [todo |-> <<>>, snap |-> FALSE, models |-> FALSE, groups |-> FALSE, config |-> FALSE]

Cell == {"none", "fresh", "stale"}

TypeOK ==
    /\ auth \in Cell /\ gone \in BOOLEAN /\ missedAuth \in BOOLEAN
    /\ used \in [handlers : 0..MaxHandlers, faults : 0..MaxFaults, timers : 0..MaxTimers]
    /\ reader \in [Instances -> {"idle", "read", "fresh", "stale"}]
    /\ snap \in [Instances -> [Views -> BOOLEAN]]
    /\ models \in [Instances -> BOOLEAN] /\ config \in [Instances -> BOOLEAN]
    /\ registry \in [Instances -> [Sources -> BOOLEAN]]
    /\ groups1 \in [Instances -> Cell] /\ groups2 \in Cell
    /\ lock \in [Instances -> Tasks \cup {"none"}]
    /\ inbox \in [Instances -> SUBSET Views] /\ queued \in [Instances -> SUBSET Views]
    /\ listening \in [Instances -> BOOLEAN] /\ following \in [Instances -> BOOLEAN]
    /\ events \in [Instances -> SUBSET {"model", "config"}]
    /\ \A i \in Instances, t \in Tasks : DOMAIN task[i][t] = DOMAIN IdleTask
    /\ missed \in [Instances -> SUBSET (Views \cup {"runtime"})]

Init ==
    /\ auth = "none" /\ gone = FALSE /\ missedAuth = FALSE
    /\ used = [handlers |-> 0, faults |-> 0, timers |-> 0]
    /\ reader = [i \in Instances |-> "idle"]
    /\ snap = [i \in Instances |-> [v \in Views |-> TRUE]]
    /\ models = [i \in Instances |-> TRUE] /\ config = [i \in Instances |-> TRUE]
    /\ registry = [i \in Instances |-> [s \in Sources |-> TRUE]]
    /\ groups1 = [i \in Instances |-> "none"] /\ groups2 = "none"
    /\ lock = [i \in Instances |-> "none"]
    /\ inbox = [i \in Instances |-> {}] /\ queued = [i \in Instances |-> {}]
    /\ listening = [i \in Instances |-> TRUE]
    /\ events = [i \in Instances |-> {}] /\ following = [i \in Instances |-> TRUE]
    /\ task = [i \in Instances |-> [t \in Tasks |-> IdleTask]]
    /\ missed = [i \in Instances |-> {}]

\* Task t of i is about to take a step of this kind.
At(i, t, op) == task[i][t].todo # <<>> /\ Head(task[i][t].todo)[1] = op
What(i, t) == Head(task[i][t].todo)[2]
Idle(i, t) == task[i][t].todo = <<>>

Continue(q) == IF Len(q.todo) = 1 THEN IdleTask ELSE [q EXCEPT !.todo = Tail(q.todo)]
Done(i, t) == task' = [task EXCEPT ![i][t] = Continue(@)]
Ahead(i, t, step) == step \in ToSet(task[i][t].todo)

\* What an instance does not hear of when task t of i goes no further.
Unheard(i, t, j) ==
    {v \in Views : IF i = j THEN Ahead(i, t, <<"install", v>>) ELSE Ahead(i, t, <<"notify", v>>)}
        \cup {s \in {"runtime"} : i = j /\ \E step \in ToSet(task[i][t].todo) :
                                            step[1] \in {"load", "apply", "build", "tune"}}
        \cup {s \in {"runtime"} : Ahead(i, t, <<"publish", "model">>) \/ Ahead(i, t, <<"publish", "config">>)}

\* An exception ends the task. A subscriber of the configuration that fails is
\* logged: the next one runs, and the change is still published.
Fail(i, t) ==
    LET rest == (IF Ahead(i, t, Tune) THEN <<Tune>> ELSE <<>>)
                    \o (IF Ahead(i, t, <<"publish", "config">>) THEN <<<<"publish", "config">>>> ELSE <<>>) IN
    /\ task' = [task EXCEPT ![i][t] = IF rest = <<>> \/ At(i, t, "write") THEN IdleTask
                                      ELSE [IdleTask EXCEPT !.todo = rest]]
    /\ missed' = [j \in Instances |-> missed[j] \cup Unheard(i, t, j)]
    /\ missedAuth' = (missedAuth \/ Ahead(i, t, Drop) \/ Ahead(i, t, DropLogged))
    /\ lock' = [lock EXCEPT ![i] = IF @ = t THEN "none" ELSE @]

-----------------------------------------------------------------------------
(* Validating a key *)

\* A cached record answers by itself; otherwise the key's row is read ...
ValidateKey(i) ==
    /\ reader[i] = "idle" /\ auth = "none"
    /\ reader' = [reader EXCEPT ![i] = "read"]
    /\ UNCHANGED <<auth, gone, missedAuth, snap, runtimeVars, lock, channelVars, task, missed>>

\* ... with its user, team and organization in one query ...
GetByToken(i) ==
    /\ reader[i] = "read"
    /\ reader' = [reader EXCEPT ![i] = IF gone THEN "idle" ELSE "fresh"]
    /\ UNCHANGED <<auth, gone, missedAuth, snap, runtimeVars, lock, channelVars, task, missed>>

\* ... and cached, whatever was written or dropped meanwhile.
CacheRecord(i) ==
    /\ reader[i] \in {"fresh", "stale"}
    /\ auth' = reader[i]
    /\ missedAuth' = (reader[i] = "stale")
    /\ reader' = [reader EXCEPT ![i] = "idle"]
    /\ UNCHANGED <<gone, snap, runtimeVars, lock, channelVars, task, missed>>

\* api_key_auth_cache_ttl_seconds
RecordExpires ==
    /\ auth # "none"
    /\ auth' = "none" /\ missedAuth' = FALSE
    /\ UNCHANGED <<gone, reader, snap, runtimeVars, lock, channelVars, task, missed>>

-----------------------------------------------------------------------------
(* Steps of a handler *)

StartHandler(i) ==
    /\ Idle(i, "admin")
    /\ used.handlers < MaxHandlers
    /\ used' = [used EXCEPT !.handlers = @ + 1]
    /\ \E program \in Programs : task' = [task EXCEPT ![i]["admin"].todo = program]
    /\ UNCHANGED <<authVars, snap, runtimeVars, lock, channelVars, missed>>

\* Nothing was written yet.
Rejects(i) ==
    /\ At(i, "admin", "check")
    /\ task' = [task EXCEPT ![i]["admin"] = IdleTask]
    /\ UNCHANGED <<authVars, snap, runtimeVars, lock, channelVars, missed>>

Accepts(i) ==
    /\ At(i, "admin", "check")
    /\ Done(i, "admin")
    /\ UNCHANGED <<authVars, snap, runtimeVars, lock, channelVars, missed>>

Spoil(cell) == IF cell = "fresh" THEN "stale" ELSE cell

\* The task's own configuration is the one it just stored.
SpoilTask(q, table, own) ==
    [q EXCEPT !.snap = @ /\ ~(table \in Views /\ q.todo # <<>> /\ Head(q.todo)[2] = table),
              !.models = @ /\ table # "models",
              !.groups = @ /\ table # "groups",
              !.config = own \/ (@ /\ table # "settings")]

\* The router and the batch scheduler are set up from the settings.
BuiltFrom(table) == IF table = "settings" THEN {"settings", "scheduler"} ELSE {table}

\* The rows of a table are written: every copy of them is stale now.
Commit(i, t, table) ==
    LET keyed == table \in {"key", "owner", "gone"} IN
    /\ auth' = IF keyed THEN Spoil(auth) ELSE auth
    /\ reader' = IF keyed THEN [j \in Instances |-> Spoil(reader[j])] ELSE reader
    /\ gone' = (gone \/ table = "gone")
    /\ snap' = [j \in Instances |-> [v \in Views |-> snap[j][v] /\ v # table]]
    /\ models' = [j \in Instances |-> models[j] /\ table # "models"]
    /\ config' = [j \in Instances |-> config[j] /\ table # "settings"]
    /\ registry' = [j \in Instances |-> [s \in Sources |-> registry[j][s] /\ s \notin BuiltFrom(table)]]
    /\ groups1' = [j \in Instances |-> IF table = "groups" THEN Spoil(groups1[j]) ELSE groups1[j]]
    /\ groups2' = IF table = "groups" THEN Spoil(groups2) ELSE groups2
    /\ task' = [j \in Instances |-> [u \in Tasks |->
                  LET mine == <<j, u>> = <<i, t>>
                      q    == SpoilTask(task[j][u], table, mine /\ table = "settings") IN
                  IF mine THEN Continue(q) ELSE q]]
    /\ UNCHANGED <<lock, channelVars>>

WriteRows(i) ==
    /\ At(i, "admin", "write")
    /\ Commit(i, "admin", What(i, "admin"))
    /\ UNCHANGED <<missedAuth, missed>>

\* The copies are left to expire, or to the next handler that reloads.
EditRows(i) ==
    LET table == What(i, "admin") IN
    /\ At(i, "admin", "edit")
    /\ Commit(i, "admin", table)
    /\ missedAuth' = (missedAuth \/ table \in {"key", "owner"})
    /\ missed' = [j \in Instances |-> missed[j] \cup ({table} \cap Views)]

DropRecords(i) ==
    /\ At(i, "admin", "drop")
    /\ auth' = "none" /\ missedAuth' = FALSE
    /\ Done(i, "admin")
    /\ UNCHANGED <<gone, reader, snap, runtimeVars, lock, channelVars, missed>>

\* Redis fails: the handler answers 500 after the write, or logs and goes on.
DropFails(i) ==
    /\ At(i, "admin", "drop")
    /\ "redis" \in Faults
    /\ IF What(i, "admin") = "raise"
          THEN Fail(i, "admin")
          ELSE /\ Done(i, "admin") /\ missedAuth' = TRUE
               /\ UNCHANGED <<missed, lock>>
    /\ UNCHANGED <<auth, gone, reader, snap, runtimeVars, channelVars>>

-----------------------------------------------------------------------------
(* Snapshots: steps of whichever task reloads *)

TakeLock(i, t) ==
    /\ At(i, t, "lock")
    /\ lock[i] = "none"
    /\ lock' = [lock EXCEPT ![i] = t]
    /\ Done(i, t)
    /\ UNCHANGED <<authVars, snap, runtimeVars, channelVars, missed>>

\* The tables are paged through; what is written from here on may be missing.
ReadTables(i, t) ==
    /\ At(i, t, "read")
    /\ task' = [task EXCEPT ![i][t] = [Continue(@) EXCEPT !.snap = TRUE]]
    /\ UNCHANGED <<authVars, snap, runtimeVars, lock, channelVars, missed>>

InstallSnapshot(i, t) ==
    LET v == What(i, t) IN
    /\ At(i, t, "install")
    /\ snap' = [snap EXCEPT ![i][v] = task[i][t].snap]
    /\ missed' = [missed EXCEPT ![i] = IF task[i][t].snap THEN @ \ {v} ELSE @]
    /\ lock' = [lock EXCEPT ![i] = IF Ahead(i, t, <<"read", "mcp">>) /\ t = "flush" THEN @ ELSE "none"]
    /\ task' = [task EXCEPT ![i][t] = Continue([@ EXCEPT !.snap = FALSE])]
    /\ UNCHANGED <<authVars, runtimeVars, channelVars>>

\* Faulty variant: the message goes to the instance that sends it only.
ToldOnlySelf(i) == {i}

\* A message carries its sender, which ignores it.
Told(i) == Instances \ {i}

\* publish: instances that listen get the message, the others never will.
NotifyOthers(i, t) ==
    LET v == What(i, t) IN
    /\ At(i, t, "notify")
    /\ inbox' = [j \in Instances |->
                   IF j \in Told(i) /\ listening[j] THEN inbox[j] \cup {v} ELSE inbox[j]]
    /\ missed' = [j \in Instances |->
                    IF j # i /\ ~listening[j] THEN missed[j] \cup {v} ELSE missed[j]]
    /\ Done(i, t)
    /\ UNCHANGED <<authVars, snap, runtimeVars, lock, queued, listening, events, following>>

\* A failed publish is logged.
NotifyFails(i, t) ==
    LET v == What(i, t) IN
    /\ "redis" \in Faults
    /\ At(i, t, "notify")
    /\ missed' = [j \in Instances |-> IF j # i THEN missed[j] \cup {v} ELSE missed[j]]
    /\ Done(i, t)
    /\ UNCHANGED <<authVars, snap, runtimeVars, lock, channelVars>>

\* _queue_remote_targets starts a flush unless one is under way.
ReceiveInvalidation(i, v) ==
    /\ v \in inbox[i] /\ listening[i]
    /\ inbox' = [inbox EXCEPT ![i] = @ \ {v}]
    /\ queued' = [queued EXCEPT ![i] = @ \cup {v}]
    /\ task' = IF Idle(i, "flush")
                  THEN [task EXCEPT ![i]["flush"].todo = <<<<"take", "queued">>>>] ELSE task
    /\ UNCHANGED <<authVars, snap, runtimeVars, lock, listening, events, following, missed>>

\* After the delay the flush takes what is queued; what is queued from here on
\* waits for the next message.
FlushRemoteTargets(i) ==
    /\ At(i, "flush", "take")
    /\ queued' = [queued EXCEPT ![i] = {}]
    /\ task' = [task EXCEPT ![i]["flush"].todo =
                  CASE queued[i] = Views -> InvalidateLocal("targets") \o Tail(InvalidateLocal("mcp"))
                    [] queued[i] = {"targets"} -> InvalidateLocal("targets")
                    [] queued[i] = {"mcp"} -> InvalidateLocal("mcp")]
    /\ UNCHANGED <<authVars, snap, runtimeVars, lock, inbox, listening, events, following, missed>>

\* A pub/sub error ends the listener for good.
ListenerStops(i) ==
    /\ "listener" \in Faults /\ listening[i]
    /\ listening' = [listening EXCEPT ![i] = FALSE]
    /\ inbox' = [inbox EXCEPT ![i] = {}]
    /\ missed' = [missed EXCEPT ![i] = @ \cup inbox[i]]
    /\ UNCHANGED <<authVars, snap, runtimeVars, lock, queued, events, following, task>>

-----------------------------------------------------------------------------
(* The model registry and the settings *)

\* The cached groups go, in the instance and in Redis; a failing Redis is logged,
\* and a reload that nobody is told of afterwards finds what it did not delete.
UncacheGroups(i, t, ok) ==
    /\ At(i, t, "uncache")
    /\ ok \/ "redis" \in Faults
    /\ groups1' = [groups1 EXCEPT ![i] = "none"]
    /\ groups2' = IF ok THEN "none" ELSE groups2
    /\ missed' = [missed EXCEPT ![i] = IF ~ok /\ t # "admin" /\ groups2 = "stale"
                                          THEN @ \cup {"runtime"} ELSE @]
    /\ Done(i, t)
    /\ UNCHANGED <<authVars, snap, models, config, registry, lock, channelVars>>

\* The configuration a reload goes by: the one just loaded or stored, which
\* becomes the instance's, or the instance's own.
GetConfig(i, t) ==
    /\ At(i, t, "get")
    /\ IF What(i, t) = "own"
          THEN /\ config' = [config EXCEPT ![i] = task[i][t].config]
               /\ Done(i, t)
          ELSE /\ task' = [task EXCEPT ![i][t] = [Continue(@) EXCEPT !.config = config[i]]]
               /\ UNCHANGED config
    /\ UNCHANGED <<authVars, snap, models, registry, groups1, groups2, lock, channelVars, missed>>

\* load_model_registry: deployments, then their credentials.
LoadModels(i, t) ==
    /\ At(i, t, "models")
    /\ task' = [task EXCEPT ![i][t] = [Continue(@) EXCEPT !.models = TRUE]]
    /\ UNCHANGED <<authVars, snap, runtimeVars, lock, channelVars, missed>>

\* The models are the instance's; RouteGroupRuntimeCache.get_groups asks the
\* first level, the second level, the database.
GetGroups(i, t) ==
    LET cell == IF groups1[i] # "none" THEN groups1[i] ELSE groups2
        q    == task[i][t] IN
    /\ At(i, t, "groups")
    /\ models' = [models EXCEPT ![i] = q.models]
    /\ groups1' = [groups1 EXCEPT ![i] = cell]
    /\ task' = [task EXCEPT ![i][t] =
          IF cell = "none" THEN [q EXCEPT !.todo = <<<<"query", "groups">>>> \o Tail(q.todo)]
          ELSE [Continue(q) EXCEPT !.groups = (cell = "fresh")]]
    /\ missed' = [missed EXCEPT ![i] = IF models[i] /\ ~q.models THEN @ \cup {"runtime"} ELSE @]
    /\ UNCHANGED <<authVars, snap, config, registry, groups2, lock, channelVars>>

ListRuntimeGroups(i, t) ==
    /\ At(i, t, "query")
    /\ task' = [task EXCEPT ![i][t].todo = <<<<"store", "groups">>>> \o Tail(@),
                            ![i][t].groups = TRUE]
    /\ UNCHANGED <<authVars, snap, runtimeVars, lock, channelVars, missed>>

\* Both levels take what was read, whatever was uncached meanwhile.
StoreGroups(i, t, ok) ==
    LET cell == IF task[i][t].groups THEN "fresh" ELSE "stale" IN
    /\ At(i, t, "store")
    /\ ok \/ "redis" \in Faults
    /\ groups1' = [groups1 EXCEPT ![i] = cell]
    /\ groups2' = IF ok THEN cell ELSE groups2
    /\ missed' = [j \in Instances |-> IF cell = "fresh" THEN missed[j] ELSE missed[j] \cup {"runtime"}]
    /\ Done(i, t)
    /\ UNCHANGED <<authVars, snap, models, config, registry, lock, channelVars>>

\* l1_ttl_seconds, l2_ttl_seconds
GroupsExpire(i, level) ==
    /\ IF level = 1
          THEN /\ groups1[i] # "none"
               /\ groups1' = [groups1 EXCEPT ![i] = "none"] /\ UNCHANGED groups2
          ELSE groups2 # "none" /\ groups2' = "none" /\ UNCHANGED groups1
    /\ UNCHANGED <<authVars, snap, models, config, registry, lock, channelVars, task, missed>>

Install(i, built) ==
    /\ registry' = [registry EXCEPT ![i] = built]
    /\ missed' = [missed EXCEPT ![i] =
                    IF \A s \in Sources : built[s] THEN @ \ {"runtime"}
                    ELSE IF \E s \in Sources : registry[i][s] /\ ~built[s] THEN @ \cup {"runtime"}
                    ELSE @]

\* The deployments are built from the instance's model registry, whoever
\* loaded it last, and this task's route groups and configuration. Nothing
\* orders two reloads: an overtaken one puts back what it read.
BuildRegistry(i, t) ==
    LET built == [s \in Sources |-> CASE s = "models" -> models[i]
                                      [] s = "groups" -> task[i][t].groups
                                      [] s = "settings" -> task[i][t].config
                                      [] s = "scheduler" -> registry[i][s]] IN
    /\ At(i, t, "build")
    /\ Install(i, built)
    /\ task' = [task EXCEPT ![i][t] =
                  Continue([@ EXCEPT !.models = FALSE, !.groups = FALSE, !.config = FALSE])]
    /\ UNCHANGED <<authVars, snap, models, config, groups1, groups2, lock, channelVars>>

\* The scheduler is given the instance's configuration, not the task's.
TuneScheduler(i, t) ==
    /\ At(i, t, "tune")
    /\ Install(i, [registry[i] EXCEPT !["scheduler"] = config[i]])
    /\ Done(i, t)
    /\ UNCHANGED <<authVars, snap, models, config, groups1, groups2, lock, channelVars>>

\* The catalog changed: organizations that follow it get its bindings.
FollowCatalog(i, t) ==
    /\ At(i, t, "follow")
    /\ \/ Done(i, t) /\ UNCHANGED <<authVars, snap, runtimeVars, lock, channelVars>>
       \/ LET q == task[i][t]
              more == <<<<"write", "targets">>>> \o ReloadTargets \o Tail(q.todo) IN
          /\ task' = [task EXCEPT ![i][t].todo = more]
          /\ UNCHANGED <<authVars, snap, runtimeVars, lock, channelVars>>
    /\ UNCHANGED missed

\* Every listener hears of it, the sender's too.
PublishEvent(i, t) ==
    /\ At(i, t, "publish")
    /\ events' = [j \in Instances |-> IF following[j] THEN events[j] \cup {What(i, t)} ELSE events[j]]
    /\ missed' = [j \in Instances |-> IF following[j] THEN missed[j] ELSE missed[j] \cup {"runtime"}]
    /\ Done(i, t)
    /\ UNCHANGED <<authVars, snap, runtimeVars, lock, inbox, queued, listening, following>>

PublishFails(i, t) ==
    /\ "redis" \in Faults
    /\ At(i, t, "publish")
    /\ missed' = [j \in Instances |-> missed[j] \cup {"runtime"}]
    /\ Done(i, t)
    /\ UNCHANGED <<authVars, snap, runtimeVars, lock, channelVars>>

\* The listener deals with one message after the other; the poll comes by
\* itself.
StartReload(i, t, event) ==
    /\ Idle(i, t)
    /\ \/ t = "listener" /\ following[i] /\ event \in events[i]
          /\ events' = [events EXCEPT ![i] = @ \ {event}]
       \/ t = "poll" /\ event = "config" /\ UNCHANGED events
    /\ task' = [task EXCEPT ![i][t].todo = <<<<"load", event>>>>]
    /\ UNCHANGED <<authVars, snap, runtimeVars, lock, inbox, queued, listening, following, missed>>

LoadConfig(i, t) ==
    /\ At(i, t, "load")
    /\ task' = [task EXCEPT ![i][t] = [@ EXCEPT !.todo = <<<<"apply", What(i, t)>>>>, !.config = TRUE]]
    /\ UNCHANGED <<authVars, snap, runtimeVars, lock, channelVars, missed>>

\* Faulty variant: a model event that changes no setting is ignored.
ForcedNever(event) == FALSE

\* model_updated forces the subscribers to run though no setting changed.
Forced(event) == event = "model"

\* _apply_db_config: the subscribers run when a setting differs; the scheduler
\* ignores a change that is only forced. Two stale configurations may be equal
\* or not.
ApplyConfig(i, t) ==
    LET q == task[i][t] IN
    /\ At(i, t, "apply")
    /\ config' = [config EXCEPT ![i] = q.config]
    /\ \E changed \in BOOLEAN :
         /\ (config[i] # q.config) => changed
         /\ (config[i] /\ q.config) => ~changed
         /\ task' = [task EXCEPT ![i][t] =
              IF Forced(What(i, t)) \/ changed
                 THEN [q EXCEPT !.todo = <<Uncache>> \o ApplyRuntimeConfig
                                            \o IF changed THEN <<Tune>> ELSE <<>>]
                 ELSE IdleTask]
    /\ missed' = [missed EXCEPT ![i] = IF config[i] /\ ~q.config THEN @ \cup {"runtime"} ELSE @]
    /\ UNCHANGED <<authVars, snap, models, registry, groups1, groups2, lock, channelVars>>

FollowerStops(i) ==
    /\ "listener" \in Faults /\ following[i]
    /\ following' = [following EXCEPT ![i] = FALSE]
    /\ events' = [events EXCEPT ![i] = {}]
    /\ missed' = [missed EXCEPT ![i] = IF events[i] = {} THEN @ ELSE @ \cup {"runtime"}]
    /\ UNCHANGED <<authVars, snap, runtimeVars, lock, inbox, queued, listening, task>>

-----------------------------------------------------------------------------
(* Failures *)

\* A database call of a task fails. What the flush had taken is not queued
\* again; a reload that a message or the poll asked for is only logged.
TaskFails(i, t) ==
    /\ "database" \in Faults
    /\ ~Idle(i, t) /\ \A op \in {"check", "notify", "tune", "publish"} : ~At(i, t, op)
    /\ Fail(i, t)
    /\ UNCHANGED <<auth, gone, reader, snap, runtimeVars, channelVars>>

\* A process dies with its tasks and starts again: it loads everything, and
\* subscribes to the channels only then.
Restart(i) ==
    /\ "crash" \in Faults /\ listening[i]
    /\ snap' = [snap EXCEPT ![i] = [v \in Views |-> TRUE]]
    /\ models' = [models EXCEPT ![i] = TRUE] /\ config' = [config EXCEPT ![i] = TRUE]
    /\ groups1' = [groups1 EXCEPT ![i] = "none"]
    /\ registry' = [registry EXCEPT ![i] = [s \in Sources |-> s = "groups" => groups2 # "stale"]]
    /\ task' = [task EXCEPT ![i] = [t \in Tasks |-> IdleTask]]
    /\ missed' = [j \in Instances |->
                    IF j # i THEN missed[j] \cup UNION {Unheard(i, t, j) : t \in Tasks}
                    ELSE {"runtime"} \cap {x \in {"runtime"} : groups2 = "stale"}]
    /\ missedAuth' = (missedAuth \/ \E t \in Tasks : Ahead(i, t, Drop) \/ Ahead(i, t, DropLogged))
    /\ reader' = [reader EXCEPT ![i] = "idle"]
    /\ lock' = [lock EXCEPT ![i] = "none"]
    /\ inbox' = [inbox EXCEPT ![i] = {}] /\ queued' = [queued EXCEPT ![i] = {}]
    /\ events' = [events EXCEPT ![i] = {}]
    /\ listening' = [listening EXCEPT ![i] = FALSE] /\ following' = [following EXCEPT ![i] = FALSE]
    /\ UNCHANGED <<auth, gone, groups2>>

Subscribe(i) ==
    /\ ~listening[i]
    /\ listening' = [listening EXCEPT ![i] = TRUE] /\ following' = [following EXCEPT ![i] = TRUE]
    /\ UNCHANGED <<authVars, snap, runtimeVars, lock, inbox, queued, events, task, missed>>

-----------------------------------------------------------------------------
\* One step of a task that has one to take.
TaskStep(i, t) ==
    /\ ~Idle(i, t)
    /\ \/ TakeLock(i, t) \/ ReadTables(i, t) \/ InstallSnapshot(i, t) \/ NotifyOthers(i, t)
       \/ UncacheGroups(i, t, TRUE) \/ GetConfig(i, t) \/ LoadModels(i, t) \/ GetGroups(i, t)
       \/ ListRuntimeGroups(i, t) \/ StoreGroups(i, t, TRUE) \/ BuildRegistry(i, t)
       \/ TuneScheduler(i, t) \/ FollowCatalog(i, t) \/ PublishEvent(i, t)
       \/ LoadConfig(i, t) \/ ApplyConfig(i, t)

AdminStep(i) == Accepts(i) \/ Rejects(i) \/ WriteRows(i) \/ EditRows(i) \/ DropRecords(i)

Fault(i) ==
    /\ used.faults < MaxFaults
    /\ used' = [used EXCEPT !.faults = @ + 1]
    /\ \/ DropFails(i) \/ ListenerStops(i) \/ FollowerStops(i) \/ Restart(i)
       \/ \E t \in Tasks : \/ NotifyFails(i, t) \/ UncacheGroups(i, t, FALSE)
                           \/ StoreGroups(i, t, FALSE) \/ PublishFails(i, t) \/ TaskFails(i, t)

TimerFires(i) ==
    /\ used.timers < MaxTimers
    /\ used' = [used EXCEPT !.timers = @ + 1]
    /\ StartReload(i, "poll", "config") \/ \E level \in {1, 2} : GroupsExpire(i, level)

Next ==
    \/ \E i \in Instances : StartHandler(i) \/ Fault(i) \/ TimerFires(i)
    \/ UNCHANGED used /\ RecordExpires
    \/ \E i \in Readers : UNCHANGED used /\ (ValidateKey(i) \/ GetByToken(i) \/ CacheRecord(i))
    \/ \E i \in Instances :
         /\ UNCHANGED used
         /\ \/ AdminStep(i) \/ FlushRemoteTargets(i) \/ Subscribe(i)
            \/ \E v \in Views : ReceiveInvalidation(i, v)
            \/ \E event \in {"model", "config"} : StartReload(i, "listener", event)
            \/ \E t \in Tasks : TaskStep(i, t)

\* The event loop runs every task that can run; Redis delivers what a
\* listener is subscribed to. Nothing makes an administrator act.
Fairness ==
    \A i \in Instances :
        /\ WF_vars(AdminStep(i) /\ UNCHANGED used)
        /\ WF_vars(FlushRemoteTargets(i) /\ UNCHANGED used)
        /\ \A v \in Views : WF_vars(ReceiveInvalidation(i, v) /\ UNCHANGED used)
        /\ \A t \in Tasks : WF_vars(TaskStep(i, t) /\ UNCHANGED used)
        /\ WF_vars(\E event \in {"model", "config"} : StartReload(i, "listener", event) /\ UNCHANGED used)

SafetySpec == Init /\ [][Next]_vars

Spec == SafetySpec /\ Fairness

-----------------------------------------------------------------------------
(* Properties *)

\* A cached key record that no longer agrees with the rows behind it is about
\* to be dropped by the handler that wrote them, unless a drop was lost, the
\* handler drops nothing, or a reader put back what it had read before the
\* write (key_service.validate_key and the handlers of keys and owners).
AuthRecordsFollow ==
    auth = "stale" => \/ missedAuth
                      \/ \E i \in Instances : Ahead(i, "admin", Drop) \/ Ahead(i, "admin", DropLogged)

\* An instance whose snapshot misses a committed write will reload it: its own
\* handler has the reload ahead, or the message is on its way, unless a fault
\* took it (governance_invalidation.py and every handler that writes).
SnapshotsFollow ==
    \A i \in Instances, v \in Views :
        ~snap[i][v] => \/ v \in missed[i] \cup inbox[i] \cup queued[i]
                       \/ \E t \in Tasks : \/ Ahead(i, t, <<"read", v>>)
                                           \/ Ahead(i, t, <<"install", v>>) /\ task[i][t].snap
                       \/ \E j \in Instances \ {i} : Ahead(j, "admin", <<"notify", v>>)

\* A router or batch scheduler set up from rows or settings no longer in force
\* will be set up again, unless a fault took the message or the deletion of the
\* cached groups, or an overtaken reload put back what it had read
\* (config_runtime/models.py, dynamic.py, services/route_groups.py).
RuntimeFollows ==
    \A i \in Instances :
        (\E s \in Sources : ~registry[i][s])
            => \/ "runtime" \in missed[i]
               \/ events[i] # {}
               \/ \E t \in Tasks : ~Idle(i, t)
               \/ \E j \in Instances : \E e \in {"model", "config"} : Ahead(j, "admin", <<"publish", e>>)

\* A snapshot that misses a write is eventually reloaded.
SnapshotsCatchUp ==
    \A i \in Instances, v \in Views : ~snap[i][v] ~> snap[i][v]
=============================================================================
