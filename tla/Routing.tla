------------------------------ MODULE Routing ------------------------------
(***************************************************************************)
(* Routing of a request over the deployments of a model group: selection   *)
(* (router/router.py), failover (router/failover.py), cooldown             *)
(* (router/cooldown.py), health checks and the passive tracker             *)
(* (router/health.py), over the shared state of router/state.py.           *)
(*                                                                         *)
(* A request is a coroutine: every await of the code that writes shared    *)
(* state is a step of its own, so the steps of concurrent requests, of the *)
(* health checker and of expiring keys interleave.                         *)
(***************************************************************************)
EXTENDS Integers, Sequences, FiniteSets, SequencesExt

CONSTANTS
    Deployments,            \* every deployment of the registry
    Requests,               \* request coroutines
    Group,                  \* the model group asked for, in registry order
    Fallbacks,              \* deployments of its configured fallback groups
    ClassifiedFallbacks,    \* those of its context-window/content-policy groups
    AllowedFails,           \* router_settings.allowed_fails
    FailureThreshold,       \* the passive tracker's threshold (3 in the code)
    NumRetries,             \* router_settings.num_retries
    HealthChecks,           \* general_settings.background_health_checks
    ClassifiedServerErrors, \* a 5xx may carry a context-window message
    NoDeployment,
    MaxFailures,            \* bound on the failure counter
    MaxCrashes              \* bound on the counts lost with processes

VARIABLES
    health,     \* health:<id> "healthy" field, no expiry
    failures,   \* failures:<id>, expires after 300 s
    cooled,     \* cooldown:<id> exists
    active,     \* active_requests:<id>, no expiry
    up,         \* whether the provider behind the deployment answers
    probe,      \* the health check of a deployment: result not yet applied
    req,        \* the request coroutines
    leaked,     \* history: active counts lost with a dead process
    faulted     \* history: deployments that failed a call or a probe

vars == <<health, failures, cooled, active, up, probe, req, leaked, faulted>>
deploymentVars == <<health, failures, cooled, active>>

ASSUME RoutingAssumption ==
    /\ AllowedFails \in Nat /\ FailureThreshold \in Nat \ {0}
    /\ NumRetries \in Nat /\ MaxFailures \in Nat /\ MaxCrashes \in Nat
    /\ HealthChecks \in BOOLEAN /\ ClassifiedServerErrors \in BOOLEAN
    /\ Group \in Seq(Deployments) /\ Fallbacks \in Seq(Deployments)
    /\ ClassifiedFallbacks \in Seq(Deployments)
    /\ NoDeployment \notin Deployments

Stages == {"idle", "next", "calling", "cooling", "sicken", "decide", "extra",
           "served", "failed", "mark"}

\* A coroutine that runs no request.
IdleRequest ==
    [stage |-> "idle", chain |-> <<>>, extra |-> <<>>, cur |-> NoDeployment,
     outer |-> NoDeployment, last |-> NoDeployment, attempt |-> 0,
     affects |-> FALSE, classified |-> FALSE, outerAffects |-> FALSE]

TypeOK ==
    /\ health \in [Deployments -> BOOLEAN]
    /\ failures \in [Deployments -> 0..MaxFailures]
    /\ cooled \in [Deployments -> BOOLEAN]
    /\ active \in [Deployments -> Nat]
    /\ up \in [Deployments -> BOOLEAN]
    /\ probe \in [Deployments -> {"none", "ok", "bad", "clear"}]
    /\ DOMAIN req = Requests
    /\ \A r \in Requests :
          /\ req[r].stage \in Stages
          /\ req[r].attempt \in 0..NumRetries
          /\ {req[r].cur, req[r].outer, req[r].last} \subseteq Deployments \cup {NoDeployment}
    /\ leaked \in [Deployments -> Nat]
    /\ faulted \subseteq Deployments

Init ==
    /\ health = [d \in Deployments |-> TRUE]
    /\ failures = [d \in Deployments |-> 0]
    /\ cooled = [d \in Deployments |-> FALSE]
    /\ active = [d \in Deployments |-> 0]
    /\ up = [d \in Deployments |-> TRUE]
    /\ probe = [d \in Deployments |-> "none"]
    /\ req = [r \in Requests |-> IdleRequest]
    /\ leaked = [d \in Deployments |-> 0]
    /\ faulted = {}

-----------------------------------------------------------------------------
(* The shared state of router/state.py *)

\* A deployment is in rotation when it is neither cooled down nor unhealthy.
FilterHealthy(ds) == {d \in ds : ~cooled[d] /\ health[d]}

\* One more failure in the window; the counter is capped by MaxFailures.
FailuresAfter(d) == IF failures[d] < MaxFailures THEN failures[d] + 1 ELSE failures[d]

RecordSuccess(d) ==
    /\ failures' = [failures EXCEPT ![d] = 0]
    /\ health' = [health EXCEPT ![d] = TRUE]

RecordFailure(d) ==
    failures' = [failures EXCEPT ![d] = FailuresAfter(d)]

\* How many of the active counts of d request r holds: the attempt in
\* progress and, during classified fallbacks, the attempt that led to them.
Held(q, d) ==
    (IF q.stage \in {"calling", "cooling", "sicken", "decide"} /\ q.cur = d THEN 1 ELSE 0)
        + (IF q.outer = d THEN 1 ELSE 0)

\* decrement_active of every count the request holds.
ReleaseAll(q) == active' = [d \in Deployments |-> active[d] - Held(q, d)]

IncrementActive(d) == active' = [active EXCEPT ![d] = @ + 1]

\* Faulty variant: the failed attempt leaves its count behind.
KeepActive(d) == UNCHANGED active

\* DECR, put back to 0 when it went below.
DecrementActive(d) == active' = [active EXCEPT ![d] = IF @ > 0 THEN @ - 1 ELSE 0]

-----------------------------------------------------------------------------
(* Selection and failover *)

\* The primary, the rest of its group, then the fallback groups.
BuildFallbackChain(primary) ==
    <<primary>> \o SelectSeq(Group \o Fallbacks, LAMBDA d : d # primary)

\* Tags, usage limits and the strategy (weights, load, latency, cost, priority)
\* decide between the healthy deployments; any of them may come first.
StrategyChoices(ds) == FilterHealthy(ds)

SelectDeployment(r) ==
    /\ req[r].stage = "idle"
    /\ \E primary \in StrategyChoices(ToSet(Group)) :
          req' = [req EXCEPT ![r] = [IdleRequest EXCEPT !.stage = "next",
                                        !.chain = BuildFallbackChain(primary)]]
    /\ UNCHANGED <<deploymentVars, up, probe, leaked, faulted>>

\* The next deployment of the chain went out of rotation meanwhile.
SkipDeployment(r) ==
    LET q == req[r] IN
    /\ q.stage = "next" /\ q.chain # <<>>
    /\ FilterHealthy({Head(q.chain)}) = {}
    /\ req' = [req EXCEPT ![r].chain = Tail(@)]
    /\ UNCHANGED <<deploymentVars, up, probe, leaked, faulted>>

StartAttempt(r) ==
    LET q == req[r] IN
    /\ q.stage = "next" /\ q.chain # <<>>
    /\ FilterHealthy({Head(q.chain)}) # {}
    /\ IncrementActive(Head(q.chain))
    /\ req' = [req EXCEPT ![r] = [q EXCEPT !.stage = "calling", !.chain = Tail(q.chain),
                                     !.cur = Head(q.chain), !.last = Head(q.chain),
                                     !.attempt = 0]]
    /\ UNCHANGED <<health, failures, cooled, up, probe, leaked, faulted>>

\* The chain is used up: the last error is raised. The passive tracker hears
\* of it unless no deployment was tried at all.
Exhausted(r) ==
    LET q == req[r] IN
    /\ q.stage = "next" /\ q.chain = <<>>
    /\ req' = [req EXCEPT ![r] = IF q.last = NoDeployment THEN IdleRequest
                                 ELSE [q EXCEPT !.stage = "failed"]]
    /\ UNCHANGED <<deploymentVars, up, probe, leaked, faulted>>

\* The call answers: record_success, then every active count is returned.
CallSucceeds(r) ==
    LET q == req[r] IN
    /\ q.stage = "calling" /\ up[q.cur]
    /\ RecordSuccess(q.cur)
    /\ ReleaseAll(q)
    /\ req' = [req EXCEPT ![r] = [IdleRequest EXCEPT !.stage = "served", !.last = q.cur]]
    /\ UNCHANGED <<cooled, up, probe, leaked, faulted>>

\* The router's passive tracker records the success a second time, later.
EmitSuccess(r) ==
    /\ req[r].stage = "served"
    /\ RecordSuccess(req[r].last)
    /\ req' = [req EXCEPT ![r] = IdleRequest]
    /\ UNCHANGED <<cooled, active, up, probe, leaked, faulted>>

\* Faulty variant: every error counts against the deployment.
CountsAlways(affects) == TRUE

\* affects_deployment_health: timeouts, transport errors, 429 and 5xx count
\* against the deployment, the caller's own 4xx do not.
CountsAgainst(affects) == affects

\* The call fails; a failure that affects health is counted, and more than
\* AllowedFails of them start a cooldown.
CallFails(r, affects, classified) ==
    LET q == req[r] IN
    /\ q.stage = "calling"
    /\ affects => ~up[q.cur]
    /\ (affects /\ classified) => ClassifiedServerErrors
    /\ IF CountsAgainst(affects)
          THEN RecordFailure(q.cur)
          ELSE UNCHANGED failures
    /\ faulted' = IF affects THEN faulted \cup {q.cur} ELSE faulted
    /\ req' = [req EXCEPT ![r] = [q EXCEPT
                  !.stage = IF CountsAgainst(affects) /\ FailuresAfter(q.cur) > AllowedFails
                               THEN "cooling" ELSE "decide",
                  !.affects = affects, !.classified = classified]]
    /\ UNCHANGED <<health, cooled, active, up, probe, leaked>>

\* _enter_cooldown: two writes, set_cooldown and then set_health(False).
SetCooldown(r) ==
    /\ req[r].stage = "cooling"
    /\ cooled' = [cooled EXCEPT ![req[r].cur] = TRUE]
    /\ req' = [req EXCEPT ![r].stage = "sicken"]
    /\ UNCHANGED <<health, failures, active, up, probe, leaked, faulted>>

SetUnhealthy(r) ==
    /\ req[r].stage = "sicken"
    /\ health' = [health EXCEPT ![req[r].cur] = FALSE]
    /\ req' = [req EXCEPT ![r].stage = "decide"]
    /\ UNCHANGED <<failures, cooled, active, up, probe, leaked, faulted>>

Classified(q) == q.classified /\ ClassifiedFallbacks # <<>>

\* A context-window or content-policy error: each classified fallback gets
\* one attempt, while the failed attempt keeps its active count.
TryClassified(r) ==
    LET q == req[r] IN
    /\ q.stage = "decide" /\ q.outer = NoDeployment /\ Classified(q)
    /\ req' = [req EXCEPT ![r] = [q EXCEPT !.stage = "extra", !.outer = q.cur,
                                     !.extra = ClassifiedFallbacks,
                                     !.outerAffects = q.affects]]
    /\ UNCHANGED <<deploymentVars, up, probe, leaked, faulted>>

\* A request-side error is raised at once.
RaiseClientError(r) ==
    LET q == req[r] IN
    /\ q.stage = "decide" /\ q.outer = NoDeployment
    /\ ~Classified(q) /\ ~q.affects
    /\ ReleaseAll(q)
    /\ req' = [req EXCEPT ![r] = IdleRequest]
    /\ UNCHANGED <<health, failures, cooled, up, probe, leaked, faulted>>

\* A retryable failure with attempts left: the same deployment again, without
\* another look at its cooldown or health.
Retry(r) ==
    LET q == req[r] IN
    /\ q.stage = "decide" /\ q.outer = NoDeployment
    /\ ~Classified(q) /\ q.affects /\ q.attempt < NumRetries
    /\ req' = [req EXCEPT ![r].stage = "calling", ![r].attempt = @ + 1]
    /\ UNCHANGED <<deploymentVars, up, probe, leaked, faulted>>

\* No retry left (or not a retryable class): on to the next deployment.
NextDeployment(r) ==
    LET q == req[r] IN
    /\ q.stage = "decide" /\ q.outer = NoDeployment
    /\ ~Classified(q) /\ q.affects
    /\ DecrementActive(q.cur)
    /\ req' = [req EXCEPT ![r].stage = "next"]
    /\ UNCHANGED <<health, failures, cooled, up, probe, leaked, faulted>>

\* _try_classified_fallbacks: skip, start, give up, move on, raise.
SkipExtra(r) ==
    LET q == req[r] IN
    /\ q.stage = "extra" /\ q.extra # <<>>
    /\ FilterHealthy({Head(q.extra)}) = {}
    /\ req' = [req EXCEPT ![r].extra = Tail(@)]
    /\ UNCHANGED <<deploymentVars, up, probe, leaked, faulted>>

StartExtra(r) ==
    LET q == req[r] IN
    /\ q.stage = "extra" /\ q.extra # <<>>
    /\ FilterHealthy({Head(q.extra)}) # {}
    /\ IncrementActive(Head(q.extra))
    /\ req' = [req EXCEPT ![r] = [q EXCEPT !.stage = "calling", !.extra = Tail(q.extra),
                                     !.cur = Head(q.extra), !.last = Head(q.extra)]]
    /\ UNCHANGED <<health, failures, cooled, up, probe, leaked, faulted>>

\* Faulty variant: the attempt is still taken for an unhandled classified error.
AfterExtraAgain(q) ==
    [q EXCEPT !.stage = "decide", !.cur = q.outer, !.outer = NoDeployment,
              !.classified = TRUE, !.affects = q.outerAffects]

\* No classified fallback served: the failed attempt is dealt with as any other.
AfterExtra(q) ==
    [q EXCEPT !.stage = "decide", !.cur = q.outer, !.outer = NoDeployment,
              !.classified = FALSE, !.affects = q.outerAffects]

ExtraExhausted(r) ==
    /\ req[r].stage = "extra" /\ req[r].extra = <<>>
    /\ req' = [req EXCEPT ![r] = AfterExtra(@)]
    /\ UNCHANGED <<deploymentVars, up, probe, leaked, faulted>>

ExtraFailed(r) ==
    LET q == req[r] IN
    /\ q.stage = "decide" /\ q.outer # NoDeployment
    /\ q.affects \/ q.classified
    /\ DecrementActive(q.cur)
    /\ req' = [req EXCEPT ![r].stage = "extra"]
    /\ UNCHANGED <<health, failures, cooled, up, probe, leaked, faulted>>

ExtraRaises(r) ==
    LET q == req[r] IN
    /\ q.stage = "decide" /\ q.outer # NoDeployment
    /\ ~q.affects /\ ~q.classified
    /\ ReleaseAll(q)
    /\ req' = [req EXCEPT ![r] = IdleRequest]
    /\ UNCHANGED <<health, failures, cooled, up, probe, leaked, faulted>>

\* The router reports the raised error to the passive tracker, which blames
\* the deployment attempted last and counts the failure once more.
ReportFailure(r) ==
    LET q == req[r] IN
    /\ q.stage = "failed"
    /\ RecordFailure(q.last)
    /\ req' = [req EXCEPT ![r] = IF FailuresAfter(q.last) >= FailureThreshold
                                    THEN [q EXCEPT !.stage = "mark"] ELSE IdleRequest]
    /\ UNCHANGED <<health, cooled, active, up, probe, leaked, faulted>>

MarkUnhealthy(r) ==
    /\ req[r].stage = "mark"
    /\ health' = [health EXCEPT ![req[r].last] = FALSE]
    /\ req' = [req EXCEPT ![r] = IdleRequest]
    /\ UNCHANGED <<failures, cooled, active, up, probe, leaked, faulted>>

\* The caller goes away during the call: cancellation runs the finally blocks
\* only, nothing is recorded.
Disconnect(r) ==
    /\ req[r].stage = "calling"
    /\ ReleaseAll(req[r])
    /\ req' = [req EXCEPT ![r] = IdleRequest]
    /\ UNCHANGED <<health, failures, cooled, up, probe, leaked, faulted>>

\* The process dies: its active counts stay in Redis for good.
Crash(r) ==
    /\ \E d \in Deployments : Held(req[r], d) > 0
    /\ leaked' = [d \in Deployments |-> leaked[d] + Held(req[r], d)]
    /\ FoldFunction(+, 0, leaked') <= MaxCrashes
    /\ req' = [req EXCEPT ![r] = IdleRequest]
    /\ UNCHANGED <<deploymentVars, up, probe, faulted>>

-----------------------------------------------------------------------------
(* Health checks, expiring keys and the providers *)

StartProbe(d) ==
    /\ probe[d] = "none"
    /\ probe' = [probe EXCEPT ![d] = IF up[d] THEN "ok" ELSE "bad"]
    /\ UNCHANGED <<deploymentVars, up, req, leaked, faulted>>

\* The background checker probes every deployment, round after round.
RunHealthCheck(d) == HealthChecks /\ StartProbe(d)

\* An administrator asks for one check (POST /models/{id}/health-check).
CheckDeploymentOnce(d) == StartProbe(d)

\* Faulty variant: a healthy result leaves the health field as it was.
HealthAfterProbeKept(d) == health[d]

\* What a healthy result restores.
HealthAfterProbe(d) == TRUE

\* The result is applied later, whatever happened to the deployment since.
ApplyHealthyResult(d) ==
    /\ probe[d] = "ok"
    /\ failures' = [failures EXCEPT ![d] = 0]
    /\ health' = [health EXCEPT ![d] = HealthAfterProbe(d)]
    /\ probe' = [probe EXCEPT ![d] = "clear"]
    /\ UNCHANGED <<cooled, active, up, req, leaked, faulted>>

ClearCooldown(d) ==
    /\ probe[d] = "clear"
    /\ cooled' = [cooled EXCEPT ![d] = FALSE]
    /\ probe' = [probe EXCEPT ![d] = "none"]
    /\ UNCHANGED <<health, failures, active, up, req, leaked, faulted>>

ApplyUnhealthyResult(d) ==
    /\ probe[d] = "bad"
    /\ health' = [health EXCEPT ![d] = FALSE]
    /\ RecordFailure(d)
    /\ faulted' = faulted \cup {d}
    /\ probe' = [probe EXCEPT ![d] = "none"]
    /\ UNCHANGED <<cooled, active, up, req, leaked>>

CooldownExpires(d) ==
    /\ cooled[d]
    /\ cooled' = [cooled EXCEPT ![d] = FALSE]
    /\ UNCHANGED <<health, failures, active, up, probe, req, leaked, faulted>>

FailuresExpire(d) ==
    /\ failures[d] > 0
    /\ failures' = [failures EXCEPT ![d] = 0]
    /\ UNCHANGED <<health, cooled, active, up, probe, req, leaked, faulted>>

ProviderChanges(d) ==
    /\ up' = [up EXCEPT ![d] = ~@]
    /\ UNCHANGED <<deploymentVars, probe, req, leaked, faulted>>

-----------------------------------------------------------------------------
\* What the coroutine of r does once the request was accepted; the call ends
\* one way or another because every attempt has a timeout.
RequestStep(r) ==
    \/ SkipDeployment(r) \/ StartAttempt(r) \/ Exhausted(r)
    \/ CallSucceeds(r) \/ EmitSuccess(r)
    \/ \E affects, classified \in BOOLEAN : CallFails(r, affects, classified)
    \/ SetCooldown(r) \/ SetUnhealthy(r)
    \/ TryClassified(r) \/ RaiseClientError(r) \/ Retry(r) \/ NextDeployment(r)
    \/ SkipExtra(r) \/ StartExtra(r) \/ ExtraExhausted(r) \/ ExtraFailed(r) \/ ExtraRaises(r)
    \/ ReportFailure(r) \/ MarkUnhealthy(r)

CheckerStep(d) ==
    RunHealthCheck(d) \/ ApplyHealthyResult(d) \/ ClearCooldown(d) \/ ApplyUnhealthyResult(d)

Next ==
    \/ \E r \in Requests :
          SelectDeployment(r) \/ RequestStep(r) \/ Disconnect(r) \/ Crash(r)
    \/ \E d \in Deployments :
          \/ CheckerStep(d) \/ CheckDeploymentOnce(d)
          \/ CooldownExpires(d) \/ FailuresExpire(d) \/ ProviderChanges(d)

\* A coroutine and the health checker keep running, and keys expire.
Fairness ==
    /\ \A r \in Requests : WF_vars(RequestStep(r))
    /\ \A d \in Deployments : WF_vars(CheckerStep(d)) /\ WF_vars(CooldownExpires(d))

SafetySpec == Init /\ [][Next]_vars

Spec == SafetySpec /\ Fairness

-----------------------------------------------------------------------------
(* Properties *)

\* The active counter of a deployment, which the least-busy strategy reads, is
\* exactly the attempts in progress, over every retry, fallback, cancellation
\* and error path (failover.py:325), but for the counts of a process that died.
ActiveCounted ==
    \A d \in Deployments :
        active[d] = leaked[d] + Cardinality({r \in Requests : Held(req[r], d) > 0})
                      + Cardinality({r \in Requests : Held(req[r], d) > 1})

\* A deployment leaves rotation only if a call to it or a probe of it failed
\* in a way that affects its health: a caller's bad requests, however many,
\* and another deployment's failures never take it out (health_policy.py:31).
OnlyFaultyLeaveRotation ==
    \A d \in Deployments : FilterHealthy({d}) = {} => d \in faulted

\* With health checks, a deployment whose provider stays up is in rotation for
\* good in the end, whatever cooldowns, stale probes and late failure reports
\* are still under way (health.py:85).
RecoversWhenUp ==
    \A d \in Deployments : <>[](up[d]) => <>[](FilterHealthy({d}) # {})

\* Every accepted request comes to an end (failover.py:325).
EveryRequestEnds ==
    \A r \in Requests : req[r].stage # "idle" ~> req[r].stage = "idle"

\* A cooled-down deployment is back in rotation after its cooldown time
\* (docs/configuration/router.md:31 "Seconds a failing deployment stays out of
\* rotation").
CooldownEnds ==
    \A d \in Deployments : cooled[d] ~> FilterHealthy({d}) # {}
=============================================================================
