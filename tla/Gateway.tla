------------------------------ MODULE Gateway ------------------------------
(***************************************************************************)
(* The life of a request of one API key through the gateway: rate limits   *)
(* and the parallel-request slot (services/limit_counter.py,               *)
(* middleware/rate_limit.py), the budget check with its periodic reset     *)
(* (billing/budget.py), the endpoint handler (routers/, chat/), and the    *)
(* spend event and ledger written after the answer (billing/spend.py,      *)
(* billing/ledger.py). Batch units take the same limits and budget         *)
(* (batch/policy.py). What happens inside the upstream call is in Routing. *)
(*                                                                         *)
(* Every await on Redis or the database is a step. Redis may fail: in      *)
(* fail_open mode the counters then live in the process.                   *)
(***************************************************************************)
EXTENDS Integers, Sequences, FiniteSets

CONSTANTS
    Requests,       \* coroutines serving requests of the key
    Scopes,         \* rate-limit scopes checked together
    RateLimit,      \* [Scopes -> Nat], requests per window
    MaxParallel,    \* max_parallel_requests of the key
    MaxBudget,      \* max_budget of the key, in requests
    FailClosed,     \* degraded_mode = "fail_closed"
    MaxPeriods,     \* bound on elapsed budget periods
    MaxLost,        \* bound on slots lost in a store
    MaxDrift        \* bound on slots in use hit by an outage or an expiry

Stores == {"redis", "local"}

VARIABLES
    redisUp,    \* whether Redis answers
    rate,       \* [Stores -> [Scopes -> Nat]], this window's counters
    slots,      \* [Stores -> Int], parallel-request counters
    hasTTL,     \* the Redis slot counter will expire
    spend,      \* spend column of the key
    resetAt,    \* budget_reset_at, as a period number
    now,        \* the current budget period
    req,        \* the coroutines
    leaked,     \* history: slots nobody will return
    drift,      \* history: slots in use that a counter no longer shows
    untimed,    \* history: the first acquire died before its EXPIRE
    resets,     \* history: budget resets
    owed        \* history: chargeable answers neither charged nor lost

vars == <<redisUp, rate, slots, hasTTL, spend, resetAt, now, req, leaked,
          drift, untimed, resets, owed>>
limitVars == <<rate, slots, hasTTL, leaked, untimed>>
budgetVars == <<spend, resetAt, now, resets>>

-----------------------------------------------------------------------------
(* The endpoint handlers, as the steps they take that concern limits, money *)
(* or rejection; health reports, metrics, callbacks and audit have no part.  *)
(*   check   the model is not allowed, a hook, a guardrail or the prompt     *)
(*           registry rejects, or no deployment is eligible                  *)
(*   cache   the response cache may answer instead                           *)
(*   respond the streaming response goes back through the cache middleware   *)
(*   charge  the task that writes the spend event and the ledger is started  *)
(*   event   a failure is logged as a spend event of cost 0                  *)

\* The cache middleware: limits and budget come before the lookup, and the
\* handler's own budget check is then skipped.
Cached == <<"limits", "budget", "cache">>
CacheHit == <<"charge">>

\* run_text_preflight after the budget: prompt, hooks, guardrails.
TextPreflight == <<"check">>
ChatSuccess == <<"charge", "check">>
ChatFailure == <<"event">>
ChatCompletion ==
    [before |-> Cached \o TextPreflight \o <<"call">>, success |-> ChatSuccess,
     failure |-> ChatFailure, batch |-> FALSE]

\* A streamed chat completion: the body runs after the response was returned
\* through the cache middleware, and its success starts no charge.
StreamSuccess == <<"check">>
StreamFailure == <<"event">>
ChatStream ==
    [before |-> Cached \o TextPreflight \o <<"respond", "call">>,
     success |-> StreamSuccess, failure |-> StreamFailure, batch |-> FALSE]

\* /v1/completions and /v1/responses are adapters of the chat handler.
Completions == ChatCompletion
Responses == ChatCompletion

EmbeddingsBefore == Cached \o <<"check", "call">>
EmbeddingsSuccess == <<"charge", "check">>
EmbeddingsFailure == <<"event">>
Embeddings ==
    [before |-> EmbeddingsBefore, success |-> EmbeddingsSuccess,
     failure |-> EmbeddingsFailure, batch |-> FALSE]

\* The endpoints without cache, hooks and guardrails.
ImagesBefore == <<"limits", "check", "budget", "check", "call">>
ImagesSuccess == <<"charge">>
ImagesFailure == <<"event">>
Images ==
    [before |-> ImagesBefore, success |-> ImagesSuccess, failure |-> ImagesFailure,
     batch |-> FALSE]

AudioSpeechBefore == <<"limits", "check", "budget", "check", "call">>
AudioSpeechSuccess == <<"charge">>
AudioSpeechFailure == <<"event">>
AudioSpeech ==
    [before |-> AudioSpeechBefore, success |-> AudioSpeechSuccess,
     failure |-> AudioSpeechFailure, batch |-> FALSE]

AudioTranscriptionBefore == <<"limits", "check", "budget", "check", "call">>
AudioTranscriptionSuccess == <<"charge">>
AudioTranscriptionFailure == <<"event">>
AudioTranscription ==
    [before |-> AudioTranscriptionBefore, success |-> AudioTranscriptionSuccess,
     failure |-> AudioTranscriptionFailure, batch |-> FALSE]

RerankBefore == <<"limits", "check", "budget", "check", "call">>
RerankSuccess == <<"charge">>
RerankFailure == <<"event">>
Rerank ==
    [before |-> RerankBefore, success |-> RerankSuccess, failure |-> RerankFailure,
     batch |-> FALSE]

\* A batch execution unit: budget first, then limits; charged by the
\* completion outbox.
BatchUnit ==
    [before |-> <<"check", "budget", "limits", "call">>, success |-> <<>>,
     failure |-> <<>>, batch |-> TRUE]

Handlers == {ChatCompletion, ChatStream, Completions, Responses, Embeddings, Images,
             AudioSpeech, AudioTranscription, Rerank, BatchUnit}

Steps == {"limits", "check", "budget", "cache", "respond", "call", "charge", "event"}

\* "run" is about to take the first step of todo; the others are the awaits
\* inside the limits and budget steps, and the return of the slot.
Stages == {"idle", "run", "acquire", "expire", "over", "reset", "release"}

IdleRequest == [stage |-> "idle", todo |-> <<>>, success |-> <<>>, failure |-> <<>>,
                batch |-> FALSE, slot |-> "none", snap |-> 0, seen |-> 0, charge |-> "none"]

TypeOK ==
    /\ redisUp \in BOOLEAN /\ hasTTL \in BOOLEAN
    /\ rate \in [Stores -> [Scopes -> Nat]]
    /\ slots \in [Stores -> Int]
    /\ leaked \in [Stores -> Nat]
    /\ spend \in Nat /\ resetAt \in Nat /\ now \in 0..MaxPeriods
    /\ req \in [Requests -> [stage : Stages, todo : Seq(Steps), success : Seq(Steps),
                             failure : Seq(Steps), batch : BOOLEAN,
                             slot : Stores \cup {"none"}, snap : Nat, seen : Nat,
                             charge : {"none", "ledger"}]]
    /\ drift \in [Stores -> Int] /\ untimed \in BOOLEAN
    /\ resets \in Nat
    /\ owed \in Int

Init ==
    /\ redisUp = TRUE /\ hasTTL = FALSE
    /\ rate = [s \in Stores |-> [c \in Scopes |-> 0]]
    /\ slots = [s \in Stores |-> 0]
    /\ spend = 0 /\ resetAt = 1 /\ now = 0
    /\ req = [r \in Requests |-> IdleRequest]
    /\ leaked = [s \in Stores |-> 0]
    /\ drift = [s \in Stores |-> 0] /\ untimed = FALSE
    /\ resets = 0
    /\ owed = 0

-----------------------------------------------------------------------------
(* Rate limits and the parallel slot *)

\* n counts of store s are left behind; MaxLost bounds them.
Lose(s, n) ==
    /\ leaked[s] + n <= MaxLost
    /\ leaked' = [leaked EXCEPT ![s] = @ + n]

\* Where the limiter counts: Redis, or the process while Redis fails.
Store == IF redisUp THEN "redis" ELSE "local"

\* fail_closed turns a failing Redis into a 503.
Refused == FailClosed /\ ~redisUp

Goto(r, stage) == req' = [req EXCEPT ![r].stage = stage]

\* r is about to take the step.
At(r, step) ==
    req[r].stage = "run" /\ req[r].todo # <<>> /\ Head(req[r].todo) = step

\* The handler returns or raises: what is left is to return the slot.
Leave(q) == [q EXCEPT !.stage = "release", !.todo = <<>>, !.success = <<>>,
                      !.failure = <<>>, !.snap = 0, !.seen = 0]

\* The step is done.
Advance(q) ==
    IF Len(q.todo) = 1 THEN Leave(q)
    ELSE [q EXCEPT !.stage = "run", !.todo = Tail(q.todo), !.snap = 0, !.seen = 0]

\* The call is over: its success or failure steps follow.
Answer(q, steps) ==
    IF steps = <<>> THEN Leave(q)
    ELSE [q EXCEPT !.todo = steps, !.success = <<>>, !.failure = <<>>]

\* The request ends; its spend task, if any, goes on by itself.
Finished(q) == [IdleRequest EXCEPT !.charge = q.charge]

\* Requests that count in the slot counter of store s.
Holders(s) == {r \in Requests : req[r].slot = s}

\* Authentication; the handler is chosen by the path.
AuthenticateRequest(r) ==
    /\ req[r].stage = "idle" /\ req[r].charge = "none"
    /\ \E h \in Handlers :
          req' = [req EXCEPT ![r] = [IdleRequest EXCEPT
                     !.stage = "run", !.todo = h.before, !.success = h.success,
                     !.failure = h.failure, !.batch = h.batch]]
    /\ UNCHANGED <<redisUp, limitVars, budgetVars, drift, owed>>

\* The counters after an admitted request.
Counted(s) ==
    IF \A c \in Scopes : rate[s][c] < RateLimit[c]
       THEN [c \in Scopes |-> rate[s][c] + 1]
       ELSE rate[s]

\* All scopes are checked and then all counted, in one script.
CheckRateLimits(r) ==
    LET s == Store IN
    /\ At(r, "limits")
    /\ rate' = IF Refused THEN rate ELSE [rate EXCEPT ![s] = Counted(s)]
    /\ IF Refused \/ \E c \in Scopes : rate[s][c] >= RateLimit[c]
          THEN req' = [req EXCEPT ![r] = Finished(@)]
          ELSE Goto(r, "acquire")
    /\ UNCHANGED <<redisUp, slots, hasTTL, leaked, untimed, budgetVars,
                   drift, owed>>

\* Faulty variant: one request too many is let through.
OverOffByOne(n) == n > MaxParallel + 1

\* The counter value that rejects the request that caused it.
Over(n) == n > MaxParallel

\* INCR; only the request that created the counter sets its expiry.
AcquireParallel(r) ==
    LET s == Store
        n == slots[s] + 1 IN
    /\ req[r].stage = "acquire"
    /\ IF Refused
          THEN /\ req' = [req EXCEPT ![r] = Finished(@)]
               /\ UNCHANGED slots
          ELSE /\ slots' = [slots EXCEPT ![s] = n]
               /\ LET q == [req[r] EXCEPT !.slot = s] IN
                  req' = [req EXCEPT ![r] =
                             IF s = "redis" /\ n = 1 THEN [q EXCEPT !.stage = "expire"]
                             ELSE IF Over(n) THEN [q EXCEPT !.stage = "over"] ELSE Advance(q)]
    /\ UNCHANGED <<redisUp, rate, hasTTL, leaked, untimed, budgetVars,
                   drift, owed>>

\* Faulty variant: the counter never expires.
NoExpiry(r) == FALSE

\* EXPIRE key 300
Expiry(r) == TRUE

ExpireSlot(r) ==
    /\ req[r].stage = "expire"
    /\ IF redisUp
          THEN /\ hasTTL' = Expiry(r)
               /\ req' = [req EXCEPT ![r] = Advance(@)]
               /\ UNCHANGED <<leaked, untimed>>
          ELSE /\ untimed' = TRUE
               /\ UNCHANGED hasTTL
               /\ IF FailClosed
                     THEN /\ req' = [req EXCEPT ![r] = Finished(@)]
                          /\ Lose("redis", 1)
                     ELSE req' = [req EXCEPT ![r] = Advance(@)] /\ UNCHANGED leaked
    /\ UNCHANGED <<redisUp, rate, slots, budgetVars, drift, owed>>

\* Faulty variant: a rejected request keeps its count.
KeptAfterReject(s, n) == n

\* DECR without a floor in Redis; the process counter stops at 0.
Decremented(s, n) == IF s = "redis" \/ n > 0 THEN n - 1 ELSE 0

\* 1 when the floor swallows a decrement.
AtFloor(s) == IF s = "local" /\ slots[s] = 0 THEN 1 ELSE 0

\* What a rejected request leaves.
AfterReject(s, n) == Decremented(s, n)

\* Over the limit: the count is taken back and 429 raised. A DECR that fails
\* leaves the count behind.
RejectOver(r) ==
    LET s == req[r].slot IN
    /\ req[r].stage = "over"
    /\ IF s = "local" \/ redisUp
          THEN /\ slots' = [slots EXCEPT ![s] = AfterReject(s, @)]
               /\ drift' = [drift EXCEPT ![s] = @ - AtFloor(s)]
               /\ UNCHANGED leaked
          ELSE /\ Lose(s, 1)
               /\ UNCHANGED <<slots, drift>>
    /\ req' = [req EXCEPT ![r] = Finished(@)]
    /\ UNCHANGED <<redisUp, rate, hasTTL, untimed, budgetVars, owed>>

\* The slot goes back to the store in use now, which need not be the one it
\* came from; in fail_closed mode a failing release loses it.
ReturnSlot(r) ==
    LET own == req[r].slot
        s   == Store IN
    CASE own = "none" -> UNCHANGED <<slots, leaked, drift>>
      [] own # "none" /\ Refused -> Lose(own, 1) /\ UNCHANGED <<slots, drift>>
      [] own = s /\ ~Refused ->
            /\ slots' = [slots EXCEPT ![s] = Decremented(s, @)]
            /\ drift' = [drift EXCEPT ![s] = @ - AtFloor(s)]
            /\ UNCHANGED leaked
      [] own \notin {"none", s} /\ ~Refused ->
            /\ slots' = [slots EXCEPT ![s] = Decremented(s, @)]
            /\ drift' = [drift EXCEPT ![s] = @ + 1 - AtFloor(s)]
            /\ drift'[s] <= MaxDrift
            /\ Lose(own, 1)

ReleaseParallel(r) ==
    /\ req[r].stage = "release"
    /\ ReturnSlot(r)
    /\ req' = [req EXCEPT ![r] = Finished(@)]
    /\ UNCHANGED <<redisUp, rate, hasTTL, untimed, budgetVars, owed>>

-----------------------------------------------------------------------------
(* The budget *)

\* spend >= max_budget
Exceeds(amount) == amount >= MaxBudget

Admit(r, amount) ==
    req' = [req EXCEPT ![r] = IF Exceeds(amount) THEN Leave(@) ELSE Advance(@)]

\* Read the row; when the period is over, remember what was read and reset.
CheckBudget(r) ==
    /\ At(r, "budget")
    /\ IF resetAt > now
          THEN Admit(r, spend)
          ELSE req' = [req EXCEPT ![r].stage = "reset", ![r].snap = resetAt, ![r].seen = spend]
    /\ UNCHANGED <<redisUp, limitVars, budgetVars, drift, owed>>

\* Faulty variant: the reset does not compare the reset time it read.
ResetWinsAlways(r) == TRUE

\* budget_reset_at IS NOT DISTINCT FROM the one read
ResetWins(r) == resetAt = req[r].snap

\* The conditional UPDATE: the winner starts a new period, a loser reads the
\* row again and checks what it finds.
ResetBudget(r) ==
    /\ req[r].stage = "reset"
    /\ IF ResetWins(r)
          THEN /\ spend' = 0 /\ resetAt' = now + 1 /\ resets' = resets + 1
               /\ Admit(r, 0)
          ELSE /\ UNCHANGED <<spend, resetAt, resets>>
               /\ Admit(r, spend)
    /\ UNCHANGED <<redisUp, limitVars, now, drift, owed>>

\* The UPDATE fails: the row as read is checked.
ResetFails(r) ==
    /\ req[r].stage = "reset"
    /\ Admit(r, req[r].seen)
    /\ UNCHANGED <<redisUp, limitVars, budgetVars, drift, owed>>

-----------------------------------------------------------------------------
(* The handler, the answer and the spend *)

\* A check lets the request pass, or raises.
Check(r) ==
    /\ At(r, "check")
    /\ \/ req' = [req EXCEPT ![r] = Advance(@)]
       \/ req' = [req EXCEPT ![r] = Leave(@)]
    /\ UNCHANGED <<redisUp, limitVars, budgetVars, drift, owed>>

\* The cache answers, or the handler goes on.
LookupCache(r) ==
    /\ At(r, "cache")
    /\ \/ req' = [req EXCEPT ![r] = Advance(@)]
       \/ req' = [req EXCEPT ![r] = Answer(@, CacheHit)]
    /\ UNCHANGED <<redisUp, limitVars, budgetVars, drift, owed>>

\* The cache middleware returns the streaming response and, with it, the slot;
\* the upstream call starts when the body is iterated.
StartStream(r) ==
    /\ At(r, "respond")
    /\ ReturnSlot(r)
    /\ req' = [req EXCEPT ![r] = Advance([@ EXCEPT !.slot = "none"])]
    /\ UNCHANGED <<redisUp, rate, hasTTL, untimed, budgetVars, owed>>

CallSucceeds(r) ==
    /\ At(r, "call")
    /\ req' = [req EXCEPT ![r] = Answer(@, @.success)]
    /\ UNCHANGED <<redisUp, limitVars, budgetVars, drift, owed>>

CallFails(r) ==
    /\ At(r, "call")
    /\ req' = [req EXCEPT ![r] = Answer(@, @.failure)]
    /\ UNCHANGED <<redisUp, limitVars, budgetVars, drift, owed>>

\* fire_and_forget(log_spend): a later check that raises leaves it running.
Charge(r) ==
    /\ At(r, "charge")
    /\ req' = [req EXCEPT ![r] = [Advance(@) EXCEPT !.charge = "ledger"]]
    /\ owed' = owed + 1
    /\ UNCHANGED <<redisUp, limitVars, budgetVars, drift>>

\* Faulty variant: a failed request is written to the ledger too.
FailureCharge == "ledger"

\* log_request_failure writes an event of cost 0 and leaves the ledger alone.
FailureTask == "none"

LogRequestFailure(r) ==
    /\ At(r, "event")
    /\ req' = [req EXCEPT ![r] = [Advance(@) EXCEPT !.charge = FailureTask]]
    /\ UNCHANGED <<redisUp, limitVars, budgetVars, drift, owed>>

\* log_spend in its task: the event is written, then the ledger.
IncrementSpend(r) ==
    /\ req[r].charge = "ledger"
    /\ spend' = spend + 1
    /\ owed' = owed - 1
    /\ req' = [req EXCEPT ![r].charge = "none"]
    /\ UNCHANGED <<redisUp, limitVars, resetAt, now, resets, drift>>

\* A failing increment is logged and forgotten.
IncrementFails(r) ==
    /\ req[r].charge = "ledger"
    /\ owed' = owed - 1
    /\ req' = [req EXCEPT ![r].charge = "none"]
    /\ UNCHANGED <<redisUp, limitVars, budgetVars, drift>>

\* A batch unit that lost its item lease returns without its policy lease.
BatchLeaseLost(r) ==
    /\ At(r, "call") /\ req[r].batch
    /\ req[r].slot # "none"
    /\ Lose(req[r].slot, 1)
    /\ req' = [req EXCEPT ![r] = Finished(@)]
    /\ UNCHANGED <<redisUp, rate, slots, hasTTL, untimed, budgetVars, drift, owed>>

\* The caller goes away: a request that has its lease returns it; one still
\* inside acquire_parallel leaves its count behind.
Disconnect(r) ==
    LET q == req[r] IN
    /\ ~q.batch
    /\ q.stage \in {"expire", "over", "reset"} \/ At(r, "budget") \/ At(r, "call")
    /\ IF q.stage \in {"expire", "over"}
          THEN /\ Lose(q.slot, 1)
               /\ untimed' = (untimed \/ q.stage = "expire")
               /\ UNCHANGED <<slots, drift>>
          ELSE ReturnSlot(r) /\ UNCHANGED untimed
    /\ req' = [req EXCEPT ![r] = Finished(@)]
    /\ UNCHANGED <<redisUp, rate, hasTTL, budgetVars, owed>>

-----------------------------------------------------------------------------
(* The environment *)

\* The process dies: its counters and spend tasks go, its Redis counts stay.
Crash ==
    /\ \E r \in Requests : req[r] # IdleRequest
    /\ leaked["redis"] + Cardinality(Holders("redis")) <= MaxLost
    /\ leaked' = [leaked EXCEPT !["redis"] = @ + Cardinality(Holders("redis")), !["local"] = 0]
    /\ slots' = [slots EXCEPT !["local"] = 0]
    /\ drift' = [drift EXCEPT !["local"] = 0]
    /\ rate' = [rate EXCEPT !["local"] = [c \in Scopes |-> 0]]
    /\ untimed' = (untimed \/ \E r \in Requests : req[r].stage = "expire")
    /\ owed' = owed - Cardinality({r \in Requests : req[r].charge # "none"})
    /\ req' = [r \in Requests |-> IdleRequest]
    /\ UNCHANGED <<redisUp, hasTTL, budgetVars>>

\* 300 s after the first acquire the counter is gone, in use or not.
SlotsExpire ==
    /\ hasTTL
    /\ slots' = [slots EXCEPT !["redis"] = 0]
    /\ leaked' = [leaked EXCEPT !["redis"] = 0]
    /\ hasTTL' = FALSE
    /\ Cardinality(Holders("redis")) <= MaxDrift
    /\ drift' = [drift EXCEPT !["redis"] = Cardinality(Holders("redis"))]
    /\ UNCHANGED <<redisUp, rate, untimed, budgetVars, req, owed>>

RedisChanges ==
    /\ redisUp' = ~redisUp
    /\ UNCHANGED <<limitVars, budgetVars, req, drift, owed>>

WindowRolls ==
    /\ rate' = [s \in Stores |-> [c \in Scopes |-> 0]]
    /\ UNCHANGED <<redisUp, slots, hasTTL, leaked, untimed, budgetVars, req,
                   drift, owed>>

PeriodEnds ==
    /\ now < MaxPeriods
    /\ now' = now + 1
    /\ UNCHANGED <<redisUp, limitVars, spend, resetAt, resets, req, drift, owed>>

RequestStep(r) ==
    \/ AuthenticateRequest(r) \/ CheckRateLimits(r) \/ AcquireParallel(r) \/ ExpireSlot(r)
    \/ RejectOver(r) \/ CheckBudget(r) \/ ResetBudget(r) \/ ResetFails(r)
    \/ Check(r) \/ LookupCache(r) \/ StartStream(r) \/ CallSucceeds(r) \/ CallFails(r)
    \/ Charge(r) \/ LogRequestFailure(r) \/ IncrementSpend(r) \/ IncrementFails(r)
    \/ ReleaseParallel(r) \/ BatchLeaseLost(r) \/ Disconnect(r)

Next ==
    \/ \E r \in Requests : RequestStep(r)
    \/ Crash \/ SlotsExpire \/ RedisChanges \/ WindowRolls \/ PeriodEnds

Spec == Init /\ [][Next]_vars

-----------------------------------------------------------------------------
(* Properties *)

\* At most MaxParallel requests of a key hold a slot in a store, whatever is
\* rejected, cancelled or dies meanwhile (limit_counter.py:145); only a slot
\* that an outage or an expiry hit while in use lets one more through.
ParallelLimitKept ==
    \A s \in Stores :
        Cardinality({r \in Holders(s) : req[r].stage \notin {"expire", "over"}})
            <= MaxParallel + drift[s]

\* Every count is a request in progress or a known loss (a dead process, a
\* cancelled acquire, an outage, a batch unit without its item lease): no
\* other path keeps a slot or returns one twice (rate_limit.py:233).
SlotsAccountedFor ==
    \A s \in Stores : slots[s] = Cardinality(Holders(s)) + leaked[s] - drift[s]

\* A lost slot comes back: the counter that holds it expires, unless the very
\* request that should have set the expiry was lost (limit_counter.py:161) or
\* an earlier expiry hit slots in use.
LostSlotsExpire ==
    (drift["redis"] = 0 /\ ~untimed /\ leaked["redis"] > 0)
        => hasTTL \/ \E r \in Requests : req[r].stage = "expire"

\* A budget period is reset once, however many requests find it over
\* (budget.py:159): no second reset wipes what was spent since.
OneResetPerPeriod == resets <= now

\* Every answered request is charged once, and nothing else is: what is not
\* charged was lost with its process or a failed write (spend.py:162).
RequestChargedOnce ==
    owed = Cardinality({r \in Requests : req[r].charge # "none"})
=============================================================================
