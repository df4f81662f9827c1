---------------------------- MODULE GatewayProofs ----------------------------
(***************************************************************************)
(* Proofs about Gateway for every number of requests, every set of scopes  *)
(* and their limits, every parallel limit and budget.                      *)
(*                                                                         *)
(* The handlers are lists of steps, so what may be lost depends on what is *)
(* still to do: RequestInv says that the limits are taken once, that no    *)
(* step that could forget a slot or a charge is ahead of a request that    *)
(* holds one.  RequestMoves then sums up every step of a request as what   *)
(* it does to its slot, the expiry, its charge and the budget row (Move);  *)
(* the invariants BudgetInv, ChargeInv and SlotInv are kept by every Move. *)
(* The last part is about the control plane (module ControlPlane), whose   *)
(* handlers are lists of steps as well.                                    *)
(***************************************************************************)
EXTENDS Gateway, FiniteSetTheorems, SequenceTheorems, TLAPS

\* A coroutine's record.
Request == [stage : Stages, todo : Seq(Steps), success : Seq(Steps), failure : Seq(Steps),
            batch : BOOLEAN, slot : Stores \cup {"none"}, snap : Nat, seen : Nat,
            charge : {"none", "ledger"}]

\* What is said of a list of steps still to take.
Lacks(steps, S) == \A i \in 1..Len(steps) : steps[i] \notin S

LimitsOnce(steps) ==
    \A i, j \in 1..Len(steps) : steps[i] = "limits" /\ steps[j] = "limits" => i = j

\* Steps that start, drop or presuppose the absence of a charge.
Billing == {"cache", "call", "charge", "event"}

\* Nothing after a charge starts or drops another.
ChargesLast(steps) ==
    \A i, j \in 1..Len(steps) : i < j /\ steps[i] = "charge" => steps[j] \notin Billing

\* The stages inside acquire_parallel.
Taking == {"acquire", "expire", "over"}

\* What is ahead of a request fits what it holds.
QueueOK(q) ==
    /\ LimitsOnce(q.todo) /\ Lacks(q.success, {"limits"}) /\ Lacks(q.failure, {"limits"})
    /\ ChargesLast(q.todo) /\ ChargesLast(q.success) /\ ChargesLast(q.failure)
    /\ (q.slot # "none" /\ q.stage \notin Taking) => Lacks(q.todo, {"limits"})
    /\ q.stage \in Taking => q.todo # <<>> /\ Head(q.todo) = "limits"
    /\ q.stage = "reset" => q.todo # <<>>
    /\ q.charge # "none" => Lacks(q.todo, Billing)

\* Where a request has a slot, and where it cannot have one.
SlotOK(q) ==
    /\ q.stage \in {"idle", "acquire"} => q.slot = "none"
    /\ q.stage = "over" => q.slot \in Stores
    /\ q.stage = "expire" => q.slot = "redis"

Good(q) == q \in Request /\ QueueOK(q) /\ SlotOK(q)

LEMMA TailSteps ==
    ASSUME NEW s \in Seq(Steps), s # <<>>
    PROVE  /\ Tail(s) \in Seq(Steps)
           /\ Len(s) \in Nat \ {0} /\ Len(Tail(s)) = Len(s) - 1
           /\ \A i \in 1..Len(Tail(s)) : i + 1 \in 2..Len(s) /\ Tail(s)[i] = s[i + 1]
           /\ Head(s) = s[1]
OBVIOUS

LEMMA TailKeeps ==
    ASSUME NEW s \in Seq(Steps), s # <<>>
    PROVE  /\ LimitsOnce(s) => LimitsOnce(Tail(s))
           /\ ChargesLast(s) => ChargesLast(Tail(s))
           /\ \A S : Lacks(s, S) => Lacks(Tail(s), S)
           /\ LimitsOnce(s) /\ Head(s) = "limits" => Lacks(Tail(s), {"limits"})
           /\ ChargesLast(s) /\ Head(s) = "charge" => Lacks(Tail(s), Billing)
<1> DEFINE t == Tail(s)
<1>1. /\ Len(s) \in Nat \ {0} /\ Len(t) = Len(s) - 1 /\ Head(s) = s[1]
      /\ \A i \in 1..Len(t) : i + 1 \in 2..Len(s) /\ t[i] = s[i + 1]
  BY TailSteps
<1> HIDE DEF t
<1>2. LimitsOnce(s) => LimitsOnce(t)
  BY <1>1 DEF LimitsOnce
<1>3. ChargesLast(s) => ChargesLast(t)
  BY <1>1 DEF ChargesLast
<1>4. \A S : Lacks(s, S) => Lacks(t, S)
  BY <1>1 DEF Lacks
<1>5. LimitsOnce(s) /\ Head(s) = "limits" => Lacks(t, {"limits"})
  BY <1>1 DEF LimitsOnce, Lacks
<1>6. ChargesLast(s) /\ Head(s) = "charge" => Lacks(t, Billing)
  BY <1>1 DEF ChargesLast, Lacks
<1> QED BY <1>2, <1>3, <1>4, <1>5, <1>6 DEF t

LEMMA EmptySteps ==
    /\ <<>> \in Seq(Steps) /\ LimitsOnce(<<>>) /\ ChargesLast(<<>>)
    /\ \A S : Lacks(<<>>, S)
BY DEF LimitsOnce, ChargesLast, Lacks

\* The operators that change a record keep it well formed.
LEMMA LeaveGood ==
    ASSUME NEW q, Good(q), q.stage # "idle"
    PROVE  /\ Good(Leave(q)) /\ Leave(q).stage = "release"
           /\ Leave(q).slot = q.slot /\ Leave(q).charge = q.charge
<1>1. /\ Leave(q) \in Request /\ Leave(q).stage = "release" /\ Leave(q).todo = <<>>
      /\ Leave(q).success = <<>> /\ Leave(q).failure = <<>>
      /\ Leave(q).slot = q.slot /\ Leave(q).charge = q.charge
  BY EmptySteps DEF Good, Request, Leave, Stages
<1> HIDE DEF Request
<1> QED BY <1>1, EmptySteps DEF Good, QueueOK, SlotOK, Taking

LEMMA AdvanceGood ==
    ASSUME NEW q \in Request, QueueOK(q), q.todo # <<>>,
           q.slot # "none" => Lacks(Tail(q.todo), {"limits"})
    PROVE  /\ Good(Advance(q)) /\ Advance(q).stage \in {"run", "release"}
           /\ Advance(q).slot = q.slot /\ Advance(q).charge = q.charge
           /\ Lacks(Tail(q.todo), Billing) => Lacks(Advance(q).todo, Billing)
<1>1. q \in Request /\ Tail(q.todo) \in Seq(Steps)
  BY TailSteps DEF Request
<1>2. CASE Len(q.todo) = 1
  <2>1. /\ Leave(q) \in Request /\ Leave(q).stage = "release" /\ Leave(q).todo = <<>>
        /\ Leave(q).success = <<>> /\ Leave(q).failure = <<>>
        /\ Leave(q).slot = q.slot /\ Leave(q).charge = q.charge /\ Advance(q) = Leave(q)
    BY <1>1, <1>2, EmptySteps DEF Request, Leave, Stages, Advance
  <2> HIDE DEF Request
  <2> QED BY <2>1, EmptySteps DEF Good, QueueOK, SlotOK, Taking
<1>3. CASE Len(q.todo) # 1
  <2>1. /\ Advance(q) \in Request /\ Advance(q).stage = "run" /\ Advance(q).todo = Tail(q.todo)
        /\ Advance(q).success = q.success /\ Advance(q).failure = q.failure
        /\ Advance(q).slot = q.slot /\ Advance(q).charge = q.charge
    BY <1>1, <1>3 DEF Request, Stages, Advance
  <2>2. q.todo \in Seq(Steps)
    BY <1>1 DEF Request
  <2>3. /\ LimitsOnce(q.todo) => LimitsOnce(Tail(q.todo))
        /\ ChargesLast(q.todo) => ChargesLast(Tail(q.todo))
        /\ \A S : Lacks(q.todo, S) => Lacks(Tail(q.todo), S)
    BY <2>2, TailKeeps
  <2> QED BY <2>1, <2>3 DEF Good, QueueOK, SlotOK, Taking
<1> QED BY <1>2, <1>3

LEMMA AnswerGood ==
    ASSUME NEW q, Good(q), q.stage = "run", q.charge = "none", NEW steps \in Seq(Steps),
           Lacks(steps, {"limits"}), ChargesLast(steps)
    PROVE  /\ Good(Answer(q, steps)) /\ Answer(q, steps).stage \in {"run", "release"}
           /\ Answer(q, steps).slot = q.slot /\ Answer(q, steps).charge = q.charge
<1>1. CASE steps = <<>>
  BY <1>1, LeaveGood DEF Answer
<1>2. CASE steps # <<>>
  <2> DEFINE p == Answer(q, steps)
  <2>1. /\ p \in Request /\ p.stage = "run" /\ p.todo = steps /\ p.success = <<>>
        /\ p.failure = <<>> /\ p.slot = q.slot /\ p.charge = q.charge
    BY <1>2, EmptySteps DEF Good, Request, Answer
  <2>2. LimitsOnce(steps)
    BY DEF LimitsOnce, Lacks
  <2> HIDE DEF p
  <2>3. Good(p)
    BY <2>1, <2>2, EmptySteps DEF Good, QueueOK, SlotOK, Taking
  <2> QED BY <2>1, <2>3 DEF p
<1> QED BY <1>1, <1>2

LEMMA FinishedGood ==
    ASSUME NEW q, Good(q)
    PROVE  /\ Good(Finished(q)) /\ Finished(q).stage = "idle"
           /\ Finished(q).slot = "none" /\ Finished(q).charge = q.charge
<1>1. /\ Finished(q) \in Request /\ Finished(q).stage = "idle" /\ Finished(q).todo = <<>>
      /\ Finished(q).success = <<>> /\ Finished(q).failure = <<>>
      /\ Finished(q).slot = "none" /\ Finished(q).charge = q.charge
  BY EmptySteps DEF Good, Request, Finished, IdleRequest, Stages
<1> HIDE DEF Request
<1> QED BY <1>1, EmptySteps DEF Good, QueueOK, SlotOK, Taking

\* Steps that take the limits once at most and charge nothing.
Opening(steps) == steps \in Seq(Steps) /\ LimitsOnce(steps) /\ Lacks(steps, {"charge"})

LEMMA JoinedOpening ==
    ASSUME NEW s, Opening(s), NEW t \in Seq(Steps), Lacks(t, {"limits", "charge"})
    PROVE  Opening(s \o t)
<1> DEFINE u == s \o t
<1>1. /\ s \in Seq(Steps) /\ u \in Seq(Steps) /\ Len(s) \in Nat /\ Len(t) \in Nat
      /\ Len(u) = Len(s) + Len(t)
      /\ \A i \in 1..Len(u) : u[i] = IF i <= Len(s) THEN s[i] ELSE t[i - Len(s)]
  BY DEF Opening
<1> HIDE DEF u
<1>2. \A i \in 1..Len(u) :
         IF i <= Len(s) THEN i \in 1..Len(s) /\ u[i] = s[i]
                        ELSE u[i] \notin {"limits", "charge"}
  <2> TAKE i \in 1..Len(u)
  <2>1. CASE i <= Len(s)
    BY <1>1, <2>1
  <2>2. CASE ~(i <= Len(s))
    <3>1. i - Len(s) \in 1..Len(t) /\ u[i] = t[i - Len(s)]
      BY <1>1, <2>2
    <3> QED BY <2>2, <3>1 DEF Lacks
  <2> QED BY <2>1, <2>2
<1>3. LimitsOnce(u)
  BY <1>1, <1>2 DEF LimitsOnce, Opening
<1>4. Lacks(u, {"charge"})
  BY <1>1, <1>2 DEF Lacks, Opening
<1> QED BY <1>1, <1>3, <1>4 DEF Opening, u

\* Every handler takes the limits once and charges last.
LEMMA HandlersGood ==
    ASSUME NEW h \in Handlers
    PROVE  /\ h.before \in Seq(Steps) /\ h.success \in Seq(Steps) /\ h.failure \in Seq(Steps)
           /\ h.batch \in BOOLEAN
           /\ LimitsOnce(h.before) /\ ChargesLast(h.before)
           /\ Lacks(h.success, {"limits"}) /\ Lacks(h.failure, {"limits"})
           /\ ChargesLast(h.success) /\ ChargesLast(h.failure)
<1> DEFINE Closing(s) == s \in Seq(Steps) /\ Lacks(s, {"limits"}) /\ ChargesLast(s)
<1>1. Opening(Cached \o TextPreflight)
  <2>1. Opening(Cached)
    BY DEF Cached, Opening, Steps, LimitsOnce, Lacks
  <2>2. TextPreflight \in Seq(Steps) /\ Lacks(TextPreflight, {"limits", "charge"})
    BY DEF TextPreflight, Steps, Lacks
  <2> QED BY <2>1, <2>2, JoinedOpening
<1>2. /\ Opening(Cached)
      /\ Opening(<<"limits", "check", "budget", "check", "call">>)
      /\ Opening(<<"check", "budget", "limits", "call">>)
  BY DEF Cached, Opening, Steps, LimitsOnce, Lacks
<1>3. /\ <<"call">> \in Seq(Steps) /\ Lacks(<<"call">>, {"limits", "charge"})
      /\ <<"respond", "call">> \in Seq(Steps) /\ Lacks(<<"respond", "call">>, {"limits", "charge"})
      /\ <<"check", "call">> \in Seq(Steps) /\ Lacks(<<"check", "call">>, {"limits", "charge"})
  BY DEF Steps, Lacks
<1>4. /\ Opening(Cached \o TextPreflight \o <<"call">>)
      /\ Opening(Cached \o TextPreflight \o <<"respond", "call">>)
      /\ Opening(Cached \o <<"check", "call">>)
  BY <1>1, <1>2, <1>3, JoinedOpening
<1>5. \A s : Opening(s) => s \in Seq(Steps) /\ LimitsOnce(s) /\ ChargesLast(s)
  BY DEF Opening, Lacks, ChargesLast
<1>6. Closing(<<"charge", "check">>) /\ Closing(<<"charge">>) /\ Closing(<<"check">>)
  BY DEF Steps, Lacks, ChargesLast, Billing
<1>7. Closing(<<"event">>) /\ Closing(<<>>)
  BY DEF Steps, Lacks, ChargesLast
<1> DEFINE Fine(g) == Opening(g.before) /\ Closing(g.success) /\ Closing(g.failure)
                        /\ g.batch \in BOOLEAN
<1> HIDE DEF Closing
<1>8. Fine(ChatCompletion) /\ Fine(Completions) /\ Fine(Responses)
  BY <1>4, <1>6, <1>7 DEF ChatCompletion, Completions, Responses, ChatSuccess, ChatFailure
<1>9. Fine(ChatStream)
  BY <1>4, <1>6, <1>7 DEF ChatStream, StreamSuccess, StreamFailure
<1>10. Fine(Embeddings)
  BY <1>4, <1>6, <1>7 DEF Embeddings, EmbeddingsBefore, EmbeddingsSuccess, EmbeddingsFailure
<1>11. Fine(Images) /\ Fine(AudioSpeech)
  BY <1>2, <1>6, <1>7 DEF Images, ImagesBefore, ImagesSuccess, ImagesFailure, AudioSpeech,
     AudioSpeechBefore, AudioSpeechSuccess, AudioSpeechFailure
<1>12. Fine(AudioTranscription) /\ Fine(Rerank)
  BY <1>2, <1>6, <1>7 DEF AudioTranscription, AudioTranscriptionBefore,
     AudioTranscriptionSuccess, AudioTranscriptionFailure, Rerank, RerankBefore,
     RerankSuccess, RerankFailure
<1>13. Fine(BatchUnit)
  BY <1>2, <1>7 DEF BatchUnit
<1> HIDE DEF Fine
<1>14. Fine(h)
  BY <1>8, <1>9, <1>10, <1>11, <1>12, <1>13 DEF Handlers
<1> QED BY <1>5, <1>14 DEF Fine, Closing

-----------------------------------------------------------------------------
(* What a step of a request does to its record, its slot, its charge and the *)
(* budget row.                                                               *)

\* The records are well formed, and the budget row holds numbers.
RequestInv ==
    /\ req \in [Requests -> Request]
    /\ \A r \in Requests : Good(req[r])
    /\ spend \in Nat /\ resetAt \in Nat /\ now \in Nat /\ resets \in Nat

\* Nothing happens to the slot.
SlotKept(r) ==
    /\ UNCHANGED <<slots, leaked, drift>>
    /\ req'[r].slot = req[r].slot
    /\ req'[r].stage = "over" <=> req[r].stage = "over"

\* The counter of the store in use counts r from now on.
SlotTaken(r) ==
    LET s == Store
        n == slots[s] + 1 IN
    /\ req[r].slot = "none" /\ req'[r].slot = s /\ req[r].stage = "acquire"
    /\ slots' = [slots EXCEPT ![s] = n]
    /\ UNCHANGED <<leaked, drift>>
    /\ req'[r].stage # "over" => n = 1 \/ ~Over(n)
    /\ (s = "redis" /\ n = 1) => req'[r].stage = "expire"

\* The count goes back to the store it came from.
SlotReturned(r) ==
    LET s == req[r].slot IN
    /\ s \in Stores /\ req'[r].slot = "none"
    /\ slots' = [slots EXCEPT ![s] = Decremented(s, @)]
    /\ drift' = [drift EXCEPT ![s] = @ - AtFloor(s)]
    /\ UNCHANGED leaked

\* It goes to the other store.
SlotMisplaced(r) ==
    LET own == req[r].slot
        s   == Store IN
    /\ own \in Stores /\ s # own /\ req'[r].slot = "none"
    /\ slots' = [slots EXCEPT ![s] = Decremented(s, @)]
    /\ drift' = [drift EXCEPT ![s] = @ + 1 - AtFloor(s)]
    /\ leaked' = [leaked EXCEPT ![own] = @ + 1]

\* It stays behind.
SlotDropped(r) ==
    /\ req[r].slot \in Stores /\ req'[r].slot = "none"
    /\ leaked' = [leaked EXCEPT ![req[r].slot] = @ + 1]
    /\ UNCHANGED <<slots, drift>>

SlotMove(r) ==
    SlotKept(r) \/ SlotTaken(r) \/ SlotReturned(r) \/ SlotMisplaced(r) \/ SlotDropped(r)

\* Whoever leaves the EXPIRE behind has set it, or it is known not to be set.
TimerMove(r) ==
    /\ hasTTL => hasTTL'
    /\ untimed => untimed'
    /\ req[r].stage = "expire" => hasTTL' \/ untimed' \/ req'[r].stage = "expire"

\* The charge stays, starts or ends.
ChargeMove(r) ==
    \/ UNCHANGED owed /\ req'[r].charge = req[r].charge
    \/ owed' = owed + 1 /\ req[r].charge = "none" /\ req'[r].charge # "none"
    \/ owed' = owed - 1 /\ req[r].charge # "none" /\ req'[r].charge = "none"

\* The row stays, or moves on from the period that r read.
BudgetMove(r) ==
    \/ /\ UNCHANGED <<resetAt, resets, now>>
       /\ req'[r].stage = "reset" =>
              req'[r].snap <= now \/ (req[r].stage = "reset" /\ req'[r].snap = req[r].snap)
    \/ /\ req[r].stage = "reset" /\ resetAt = req[r].snap
       /\ resetAt' = now + 1 /\ resets' = resets + 1 /\ UNCHANGED now
       /\ req'[r].stage # "reset"

Move(r) ==
    /\ req' = [req EXCEPT ![r] = req'[r]] /\ Good(req'[r]) /\ spend' \in Nat
    /\ SlotMove(r) /\ TimerMove(r) /\ ChargeMove(r) /\ BudgetMove(r)

\* ReturnSlot is one of four moves of the slot.
LEMMA ReturnMoves ==
    ASSUME RequestInv, NEW r \in Requests, ReturnSlot(r), req'[r].slot = "none",
           req[r].stage # "over", req'[r].stage # "over"
    PROVE  SlotMove(r)
<1>1. req[r].slot \in Stores \cup {"none"} /\ Store \in Stores
  BY DEF RequestInv, Good, Request, Store, Stores
<1>2. CASE req[r].slot = "none"
  BY <1>1, <1>2 DEF ReturnSlot, SlotMove, SlotKept, Stores
<1>3. CASE req[r].slot # "none" /\ Refused
  BY <1>1, <1>3 DEF ReturnSlot, SlotMove, SlotDropped, Lose
<1>4. CASE req[r].slot = Store /\ ~Refused
  BY <1>1, <1>4 DEF ReturnSlot, SlotMove, SlotReturned, Stores
<1>5. CASE req[r].slot \notin {"none", Store} /\ ~Refused
  BY <1>1, <1>5 DEF ReturnSlot, SlotMove, SlotMisplaced, Lose
<1> QED BY <1>1, <1>2, <1>3, <1>4, <1>5

\* A record that changes to one with the same slot and charge.
LEMMA QuietMove ==
    ASSUME RequestInv, NEW r \in Requests, NEW p, req' = [req EXCEPT ![r] = p], Good(p),
           UNCHANGED <<limitVars, budgetVars, drift, owed>>,
           p.slot = req[r].slot, p.charge = req[r].charge,
           p.stage \notin {"over", "reset"}, req[r].stage \notin {"over", "expire"}
    PROVE  Move(r)
<1>1. req'[r] = p /\ spend' \in Nat
  BY DEF RequestInv, budgetVars
<1> QED
  BY <1>1 DEF Move, SlotMove, SlotKept, TimerMove, ChargeMove, BudgetMove, limitVars,
     budgetVars

\* The budget check rejects the request or lets it take its next step.
LEMMA AdmitGood ==
    ASSUME RequestInv, NEW r \in Requests, NEW amount, Admit(r, amount),
           req[r].stage \in {"run", "reset"}, req[r].todo # <<>>
    PROVE  /\ req' = [req EXCEPT ![r] = req'[r]] /\ Good(req'[r])
           /\ req'[r].stage \in {"run", "release"}
           /\ req'[r].slot = req[r].slot /\ req'[r].charge = req[r].charge
<1>1. /\ Good(req[r]) /\ req[r] \in Request /\ QueueOK(req[r])
      /\ \A x : req' = [req EXCEPT ![r] = x] => req'[r] = x
  BY DEF RequestInv, Good
<1>2. req[r].slot # "none" => Lacks(Tail(req[r].todo), {"limits"})
  BY <1>1, TailKeeps DEF Good, QueueOK, Taking, Request
<1> QED BY <1>1, <1>2, LeaveGood, AdvanceGood DEF Admit

LEMMA AdmitMoves ==
    ASSUME RequestInv, NEW r \in Requests, NEW amount, Admit(r, amount),
           req[r].stage \in {"run", "reset"}, req[r].todo # <<>>,
           UNCHANGED <<limitVars, budgetVars, drift, owed>>
    PROVE  Move(r)
BY AdmitGood, QuietMove

\* Every step of a request is a Move.
LEMMA RequestMoves ==
    ASSUME RequestInv, NEW r \in Requests, RequestStep(r)
    PROVE  Move(r)
<1> DEFINE q == req[r]
           p == req'[r]
<1>0. Good(q) /\ q \in Request /\ \A x : req' = [req EXCEPT ![r] = x] => p = x
  BY DEF RequestInv, Good
<1>a. ASSUME NEW x, At(r, x)
      PROVE  /\ q.stage = "run" /\ q.todo \in Seq(Steps) /\ q.todo # <<>> /\ Head(q.todo) = x
             /\ Lacks(q.todo, {"limits"}) => Lacks(Tail(q.todo), {"limits"})
             /\ q.slot # "none" => Lacks(q.todo, {"limits"}) /\ Lacks(Tail(q.todo), {"limits"})
             /\ \A S : Lacks(q.todo, S) => x \notin S
  <2>1. q.stage = "run" /\ q.todo \in Seq(Steps) /\ q.todo # <<>> /\ Head(q.todo) = x
    BY <1>0, <1>a DEF At, Request
  <2>2. \A S : Lacks(q.todo, S) => Lacks(Tail(q.todo), S) /\ x \notin S
    BY <2>1, TailKeeps, TailSteps DEF Lacks
  <2> QED BY <1>0, <2>1, <2>2 DEF Good, QueueOK, Taking
<1> USE DEF limitVars, budgetVars
<1>1. CASE AuthenticateRequest(r)
  <2> PICK h \in Handlers : req' = [req EXCEPT ![r] = [IdleRequest EXCEPT
                     !.stage = "run", !.todo = h.before, !.success = h.success,
                     !.failure = h.failure, !.batch = h.batch]]
    BY <1>1 DEF AuthenticateRequest
  <2> DEFINE x == [IdleRequest EXCEPT !.stage = "run", !.todo = h.before,
                      !.success = h.success, !.failure = h.failure, !.batch = h.batch]
  <2>1. /\ x \in Request /\ x.stage = "run" /\ x.todo = h.before /\ x.success = h.success
        /\ x.failure = h.failure /\ x.slot = "none" /\ x.charge = "none"
    BY HandlersGood DEF Request, IdleRequest, Stages
  <2> HIDE DEF x
  <2>2. Good(x)
    BY <2>1, HandlersGood DEF Good, QueueOK, SlotOK, Taking
  <2>3. q.stage = "idle" /\ q.slot = "none" /\ q.charge = "none"
    BY <1>0, <1>1 DEF AuthenticateRequest, Good, SlotOK
  <2>4. req' = [req EXCEPT ![r] = x]
    BY DEF x
  <2> QED BY <1>1, <2>1, <2>2, <2>3, <2>4, QuietMove DEF AuthenticateRequest
<1>2. CASE CheckRateLimits(r)
  <2>1. At(r, "limits") /\ UNCHANGED <<slots, hasTTL, leaked, untimed, budgetVars, drift, owed>>
    BY <1>2 DEF CheckRateLimits
  <2>2. q.slot = "none" /\ q.stage = "run"
    BY <1>a, <2>1
  <2>3. CASE req' = [req EXCEPT ![r] = Finished(q)]
    BY <1>0, <2>1, <2>2, <2>3, FinishedGood DEF Move, SlotMove, SlotKept, TimerMove,
       ChargeMove, BudgetMove, RequestInv
  <2>4. CASE Goto(r, "acquire")
    <3> DEFINE x == [q EXCEPT !.stage = "acquire"]
    <3>1. /\ x \in Request /\ x.stage = "acquire" /\ x.todo = q.todo
          /\ x.success = q.success /\ x.failure = q.failure
          /\ x.slot = q.slot /\ x.charge = q.charge /\ req' = [req EXCEPT ![r] = x]
      BY <1>0, <2>4 DEF Request, Stages, Goto
    <3> HIDE DEF x
    <3>2. Good(x)
      BY <1>0, <1>a, <2>1, <2>2, <3>1 DEF Good, QueueOK, SlotOK, Taking
    <3> QED BY <1>0, <2>1, <2>2, <3>1, <3>2 DEF Move, SlotMove, SlotKept, TimerMove,
               ChargeMove, BudgetMove, RequestInv
  <2> QED BY <1>2, <2>3, <2>4 DEF CheckRateLimits
<1>3. CASE AcquireParallel(r)
  <2> DEFINE s == Store
             m == slots[s] + 1
             x == [q EXCEPT !.slot = s]
  <2>1. /\ q.stage = "acquire" /\ q.slot = "none" /\ s \in Stores
        /\ UNCHANGED <<hasTTL, leaked, untimed, budgetVars, drift, owed>>
    BY <1>0, <1>3 DEF AcquireParallel, Good, SlotOK, Store, Stores
  <2>2. CASE Refused
    BY <1>0, <1>3, <2>1, <2>2, FinishedGood DEF AcquireParallel, Move, SlotMove, SlotKept,
       TimerMove, ChargeMove, BudgetMove, RequestInv
  <2>3. CASE ~Refused
    <3>1. slots' = [slots EXCEPT ![s] = m] /\ UNCHANGED <<leaked, drift>>
      BY <1>3, <2>3 DEF AcquireParallel
    <3>2. p = IF s = "redis" /\ m = 1 THEN [x EXCEPT !.stage = "expire"]
              ELSE IF Over(m) THEN [x EXCEPT !.stage = "over"] ELSE Advance(x)
      BY <1>0, <1>3, <2>3 DEF AcquireParallel
    <3>3. /\ x \in Request /\ x.stage = "acquire" /\ x.todo = q.todo /\ x.slot = s
          /\ x.success = q.success /\ x.failure = q.failure /\ x.charge = q.charge
      BY <1>0, <2>1 DEF Request
    <3>4. req' = [req EXCEPT ![r] = p]
      BY <1>0, <1>3, <2>3 DEF AcquireParallel
    <3>5. q.todo # <<>> /\ Lacks(Tail(q.todo), {"limits"})
      BY <1>0, <2>1, TailKeeps DEF Good, QueueOK, Taking, Request
    <3> HIDE DEF x, s, m
    <3>6. ASSUME NEW st \in {"expire", "over"}, st = "expire" => s = "redis",
                 p = [x EXCEPT !.stage = st]
          PROVE  Good(p) /\ p.slot = s /\ p.charge = q.charge /\ p.stage = st
      <4>1. /\ p \in Request /\ p.stage = st /\ p.todo = q.todo
            /\ p.success = q.success /\ p.failure = q.failure
            /\ p.slot = s /\ p.charge = q.charge
        BY <3>3, <3>6 DEF Request, Stages
      <4> QED BY <1>0, <2>1, <3>6, <4>1 DEF Good, QueueOK, SlotOK, Taking
    <3>7. ASSUME p = Advance(x)
          PROVE  /\ Good(p) /\ p.slot = s /\ p.charge = q.charge
                 /\ p.stage \in {"run", "release"}
      <4>1. QueueOK(x)
        BY <1>0, <2>1, <3>3 DEF Good, QueueOK, Taking
      <4> QED BY <3>3, <3>5, <3>7, <4>1, AdvanceGood
    <3>8. /\ Good(p) /\ p.slot = s /\ p.charge = q.charge /\ p.stage # "reset"
          /\ p.stage # "over" => m = 1 \/ ~Over(m)
          /\ (s = "redis" /\ m = 1) => p.stage = "expire"
      BY <3>2, <3>6, <3>7
    <3> QED BY <2>1, <3>1, <3>4, <3>8 DEF Move, SlotMove, SlotTaken, TimerMove,
               ChargeMove, BudgetMove, RequestInv, s, m
  <2> QED BY <2>2, <2>3
<1>4. CASE ExpireSlot(r)
  <2>1. /\ q.stage = "expire" /\ q.slot = "redis"
        /\ UNCHANGED <<slots, budgetVars, drift, owed>>
    BY <1>0, <1>4 DEF ExpireSlot, Good, SlotOK
  <2>2. q.todo # <<>> /\ Lacks(Tail(q.todo), {"limits"})
    BY <1>0, <2>1, TailKeeps DEF Good, QueueOK, Taking, Request
  <2>3. CASE /\ req' = [req EXCEPT ![r] = Advance(q)]
             /\ UNCHANGED leaked /\ (untimed => untimed') /\ (hasTTL => hasTTL')
             /\ hasTTL' \/ untimed'
    <3>1. /\ Good(p) /\ p.stage \in {"run", "release"} /\ p.slot = q.slot
          /\ p.charge = q.charge
      BY <1>0, <2>2, <2>3, AdvanceGood DEF Good
    <3> QED BY <1>0, <2>1, <2>3, <3>1 DEF Move, SlotMove, SlotKept, TimerMove, ChargeMove,
               BudgetMove, RequestInv
  <2>4. CASE /\ req' = [req EXCEPT ![r] = Finished(q)] /\ Lose("redis", 1)
             /\ untimed' = TRUE /\ UNCHANGED hasTTL
    BY <1>0, <2>1, <2>4, FinishedGood DEF Move, SlotMove, SlotDropped, TimerMove,
       ChargeMove, BudgetMove, RequestInv, Lose, Stores
  <2> QED BY <1>4, <2>3, <2>4 DEF ExpireSlot, Expiry
<1>5. CASE RejectOver(r)
  <2>1. /\ q.stage = "over" /\ q.slot \in Stores /\ req' = [req EXCEPT ![r] = Finished(q)]
        /\ UNCHANGED <<hasTTL, untimed, budgetVars, owed>>
    BY <1>0, <1>5 DEF RejectOver, Good, SlotOK
  <2>2. /\ Good(p) /\ p.stage = "idle" /\ p.slot = "none" /\ p.charge = q.charge
        /\ req' = [req EXCEPT ![r] = p]
    BY <1>0, <2>1, FinishedGood
  <2>3. SlotReturned(r) \/ SlotDropped(r)
    BY <1>5, <2>1, <2>2 DEF RejectOver, SlotReturned, SlotDropped, AfterReject, Lose
  <2> QED BY <2>1, <2>2, <2>3 DEF Move, SlotMove, TimerMove, ChargeMove, BudgetMove,
             RequestInv
<1>6. CASE CheckBudget(r)
  <2>1. At(r, "budget") /\ UNCHANGED <<limitVars, budgetVars, drift, owed>>
    BY <1>6 DEF CheckBudget
  <2>2. CASE resetAt > now
    BY <1>0, <1>a, <1>6, <2>1, <2>2, AdmitMoves DEF CheckBudget
  <2>3. CASE ~(resetAt > now)
    <3> DEFINE x == [q EXCEPT !.stage = "reset", !.snap = resetAt, !.seen = spend]
    <3>1. req' = [req EXCEPT ![r] = x] /\ UNCHANGED <<limitVars, budgetVars, drift, owed>>
      BY <1>0, <1>6, <2>3 DEF CheckBudget, RequestInv, Request
    <3>2. /\ x \in Request /\ x.stage = "reset" /\ x.todo = q.todo /\ x.slot = q.slot
          /\ x.success = q.success /\ x.failure = q.failure /\ x.charge = q.charge
          /\ x.snap = resetAt
      BY <1>0 DEF Request, Stages, RequestInv
    <3> HIDE DEF x
    <3>3. Good(x)
      BY <1>0, <1>a, <2>1, <3>2 DEF Good, QueueOK, SlotOK, Taking
    <3> QED BY <1>0, <1>a, <2>1, <2>3, <3>1, <3>2, <3>3 DEF Move, SlotMove, SlotKept,
               TimerMove, ChargeMove, BudgetMove, RequestInv
  <2> QED BY <2>2, <2>3
<1>7. CASE ResetBudget(r)
  <2>1. q.stage = "reset" /\ UNCHANGED <<limitVars, now, drift, owed>>
    BY <1>7 DEF ResetBudget
  <2>2. /\ Good(p) /\ p.slot = q.slot /\ p.charge = q.charge /\ p.stage \in {"run", "release"}
        /\ req' = [req EXCEPT ![r] = p]
    BY <1>0, <1>7, <2>1, AdmitGood DEF ResetBudget, Good, QueueOK
  <2> QED BY <1>7, <2>1, <2>2 DEF ResetBudget, ResetWins, Move, SlotMove, SlotKept,
             TimerMove, ChargeMove, BudgetMove, RequestInv
<1>8. CASE ResetFails(r)
  <2>1. q.stage = "reset" /\ UNCHANGED <<limitVars, budgetVars, drift, owed>>
    BY <1>8 DEF ResetFails
  <2> QED BY <1>0, <1>8, <2>1, AdmitMoves DEF ResetFails, Good, QueueOK
<1>9. CASE Check(r)
  <2>1. At(r, "check") /\ UNCHANGED <<limitVars, budgetVars, drift, owed>>
    BY <1>9 DEF Check
  <2>2. \/ req' = [req EXCEPT ![r] = Advance(q)]
        \/ req' = [req EXCEPT ![r] = Leave(q)]
    BY <1>9 DEF Check
  <2> QED BY <1>0, <1>a, <2>1, <2>2, AdvanceGood, LeaveGood, QuietMove DEF Good
<1>10. CASE LookupCache(r)
  <2>1. At(r, "cache") /\ UNCHANGED <<limitVars, budgetVars, drift, owed>>
    BY <1>10 DEF LookupCache
  <2>2. \/ req' = [req EXCEPT ![r] = Advance(q)]
        \/ req' = [req EXCEPT ![r] = Answer(q, CacheHit)]
    BY <1>10 DEF LookupCache
  <2>3. q.charge = "none" /\ q.stage = "run"
    BY <1>0, <1>a, <2>1 DEF Good, QueueOK, Billing
  <2>4. CacheHit \in Seq(Steps) /\ Lacks(CacheHit, {"limits"}) /\ ChargesLast(CacheHit)
    BY DEF CacheHit, Steps, Lacks, ChargesLast
  <2> QED BY <1>0, <1>a, <2>1, <2>2, <2>3, <2>4, AdvanceGood, AnswerGood, QuietMove DEF Good
<1>11. CASE StartStream(r)
  <2> DEFINE x == [q EXCEPT !.slot = "none"]
  <2>1. /\ At(r, "respond") /\ ReturnSlot(r) /\ req' = [req EXCEPT ![r] = Advance(x)]
        /\ UNCHANGED <<hasTTL, untimed, budgetVars, owed>>
    BY <1>11 DEF StartStream
  <2>2. /\ x \in Request /\ x.stage = "run" /\ x.todo = q.todo /\ x.slot = "none"
        /\ x.success = q.success /\ x.failure = q.failure /\ x.charge = q.charge
    BY <1>0, <1>a, <2>1 DEF Request
  <2> HIDE DEF x
  <2>3. QueueOK(x)
    BY <1>0, <2>2 DEF Good, QueueOK, Taking
  <2>4. /\ Good(p) /\ p.stage \in {"run", "release"} /\ p.slot = "none" /\ p.charge = q.charge
        /\ req' = [req EXCEPT ![r] = p]
    BY <1>0, <1>a, <2>1, <2>2, <2>3, AdvanceGood
  <2>5. SlotMove(r)
    BY <1>a, <2>1, <2>4, ReturnMoves
  <2> QED BY <1>a, <2>1, <2>4, <2>5 DEF Move, TimerMove, ChargeMove, BudgetMove, RequestInv
<1>12. CASE CallSucceeds(r)
  <2>1. /\ At(r, "call") /\ UNCHANGED <<limitVars, budgetVars, drift, owed>>
        /\ req' = [req EXCEPT ![r] = Answer(q, q.success)]
    BY <1>12 DEF CallSucceeds
  <2>2. q.charge = "none" /\ q.stage = "run"
    BY <1>0, <1>a, <2>1 DEF Good, QueueOK, Billing
  <2>3. q.success \in Seq(Steps) /\ Lacks(q.success, {"limits"}) /\ ChargesLast(q.success)
    BY <1>0 DEF Good, QueueOK, Request
  <2> QED BY <1>0, <2>1, <2>2, <2>3, AnswerGood, QuietMove
<1>13. CASE CallFails(r)
  <2>1. /\ At(r, "call") /\ UNCHANGED <<limitVars, budgetVars, drift, owed>>
        /\ req' = [req EXCEPT ![r] = Answer(q, q.failure)]
    BY <1>13 DEF CallFails
  <2>2. q.charge = "none" /\ q.stage = "run"
    BY <1>0, <1>a, <2>1 DEF Good, QueueOK, Billing
  <2>3. q.failure \in Seq(Steps) /\ Lacks(q.failure, {"limits"}) /\ ChargesLast(q.failure)
    BY <1>0 DEF Good, QueueOK, Request
  <2> QED BY <1>0, <2>1, <2>2, <2>3, AnswerGood, QuietMove
<1>14. CASE Charge(r)
  <2> DEFINE x == Advance(q)
  <2>1. /\ At(r, "charge") /\ req' = [req EXCEPT ![r] = [x EXCEPT !.charge = "ledger"]]
        /\ UNCHANGED <<limitVars, budgetVars, drift>> /\ owed' = owed + 1
    BY <1>14 DEF Charge
  <2>2. q.charge = "none" /\ q.stage = "run"
    BY <1>0, <1>a, <2>1 DEF Good, QueueOK, Billing
  <2>3. /\ Good(x) /\ x.stage \in {"run", "release"} /\ x.slot = q.slot
        /\ x.charge = "none" /\ Lacks(x.todo, Billing)
    BY <1>0, <1>a, <2>1, <2>2, AdvanceGood, TailKeeps DEF Good, QueueOK
  <2> HIDE DEF x
  <2>4. /\ p \in Request /\ p.stage = x.stage /\ p.todo = x.todo /\ p.slot = x.slot
        /\ p.success = x.success /\ p.failure = x.failure /\ p.charge = "ledger"
    <3>1. p = [x EXCEPT !.charge = "ledger"]
      BY <1>0, <2>1
    <3> QED BY <2>3, <3>1 DEF Good, Request
  <2>5. Good(p) /\ req' = [req EXCEPT ![r] = p]
    BY <1>0, <2>1, <2>3, <2>4 DEF Good, QueueOK, SlotOK, Taking
  <2> QED BY <2>1, <2>2, <2>3, <2>4, <2>5 DEF Move, SlotMove, SlotKept, TimerMove,
             ChargeMove, BudgetMove, RequestInv
<1>15. CASE LogRequestFailure(r)
  <2> DEFINE x == Advance(q)
  <2>1. /\ At(r, "event") /\ req' = [req EXCEPT ![r] = [x EXCEPT !.charge = "none"]]
        /\ UNCHANGED <<limitVars, budgetVars, drift>> /\ UNCHANGED owed
    BY <1>15 DEF LogRequestFailure, FailureTask
  <2>2. q.charge = "none" /\ q.stage = "run"
    BY <1>0, <1>a, <2>1 DEF Good, QueueOK, Billing
  <2>3. /\ Good(x) /\ x.stage \in {"run", "release"} /\ x.slot = q.slot
        /\ x.charge = "none" /\ TRUE
    BY <1>0, <1>a, <2>1, <2>2, AdvanceGood, TailKeeps DEF Good, QueueOK
  <2> HIDE DEF x
  <2>4. /\ p \in Request /\ p.stage = x.stage /\ p.todo = x.todo /\ p.slot = x.slot
        /\ p.success = x.success /\ p.failure = x.failure /\ p.charge = "none"
    <3>1. p = [x EXCEPT !.charge = "none"]
      BY <1>0, <2>1
    <3> QED BY <2>3, <3>1 DEF Good, Request
  <2>5. Good(p) /\ req' = [req EXCEPT ![r] = p]
    BY <1>0, <2>1, <2>3, <2>4 DEF Good, QueueOK, SlotOK, Taking
  <2> QED BY <2>1, <2>2, <2>3, <2>4, <2>5 DEF Move, SlotMove, SlotKept, TimerMove,
             ChargeMove, BudgetMove, RequestInv
<1>16. CASE IncrementSpend(r)
  <2>1. /\ q.charge = "ledger" /\ owed' = owed - 1 /\ spend' \in Nat
        /\ p = [q EXCEPT !.charge = "none"] /\ req' = [req EXCEPT ![r] = p]
        /\ UNCHANGED <<limitVars, resetAt, now, resets, drift>>
    BY <1>0, <1>16 DEF IncrementSpend, RequestInv
  <2>2. /\ p \in Request /\ p.stage = q.stage /\ p.todo = q.todo /\ p.slot = q.slot
        /\ p.success = q.success /\ p.failure = q.failure /\ p.charge = "none"
        /\ p.snap = q.snap
    BY <1>0, <2>1 DEF Request
  <2>3. Good(p)
    BY <1>0, <2>2 DEF Good, QueueOK, SlotOK, Taking
  <2> QED BY <2>1, <2>2, <2>3 DEF Move, SlotMove, SlotKept, TimerMove, ChargeMove,
             BudgetMove
<1>17. CASE IncrementFails(r)
  <2>1. /\ q.charge = "ledger" /\ owed' = owed - 1 /\ spend' \in Nat
        /\ p = [q EXCEPT !.charge = "none"] /\ req' = [req EXCEPT ![r] = p]
        /\ UNCHANGED <<limitVars, resetAt, now, resets, drift>>
    BY <1>0, <1>17 DEF IncrementFails, RequestInv
  <2>2. /\ p \in Request /\ p.stage = q.stage /\ p.todo = q.todo /\ p.slot = q.slot
        /\ p.success = q.success /\ p.failure = q.failure /\ p.charge = "none"
        /\ p.snap = q.snap
    BY <1>0, <2>1 DEF Request
  <2>3. Good(p)
    BY <1>0, <2>2 DEF Good, QueueOK, SlotOK, Taking
  <2> QED BY <2>1, <2>2, <2>3 DEF Move, SlotMove, SlotKept, TimerMove, ChargeMove,
             BudgetMove
<1>18. CASE ReleaseParallel(r)
  <2>1. /\ q.stage = "release" /\ ReturnSlot(r) /\ req' = [req EXCEPT ![r] = Finished(q)]
        /\ UNCHANGED <<hasTTL, untimed, budgetVars, owed>>
    BY <1>18 DEF ReleaseParallel
  <2>2. /\ Good(p) /\ p.stage = "idle" /\ p.slot = "none" /\ p.charge = q.charge
        /\ req' = [req EXCEPT ![r] = p]
    BY <1>0, <2>1, FinishedGood
  <2>3. SlotMove(r)
    BY <2>1, <2>2, ReturnMoves
  <2> QED BY <2>1, <2>2, <2>3 DEF Move, TimerMove, ChargeMove, BudgetMove, RequestInv
<1>19. CASE BatchLeaseLost(r)
  <2>1. /\ q.stage = "run" /\ q.slot \in Stores /\ Lose(q.slot, 1)
        /\ req' = [req EXCEPT ![r] = Finished(q)]
        /\ UNCHANGED <<slots, hasTTL, untimed, budgetVars, drift, owed>>
    BY <1>0, <1>a, <1>19 DEF BatchLeaseLost, Request
  <2>2. /\ Good(p) /\ p.stage = "idle" /\ p.slot = "none" /\ p.charge = q.charge
        /\ req' = [req EXCEPT ![r] = p]
    BY <1>0, <2>1, FinishedGood
  <2> QED BY <2>1, <2>2 DEF Move, SlotMove, SlotDropped, TimerMove, ChargeMove,
             BudgetMove, RequestInv, Lose
<1>20. CASE Disconnect(r)
  <2>1. /\ req' = [req EXCEPT ![r] = Finished(q)] /\ UNCHANGED <<hasTTL, budgetVars, owed>>
        /\ q.stage \in {"expire", "over", "reset", "run"}
    BY <1>20 DEF Disconnect, At
  <2>2. /\ Good(p) /\ p.stage = "idle" /\ p.slot = "none" /\ p.charge = q.charge
        /\ req' = [req EXCEPT ![r] = p]
    BY <1>0, <2>1, FinishedGood
  <2>3. CASE q.stage \in {"expire", "over"}
    <3>1. /\ q.slot \in Stores /\ Lose(q.slot, 1) /\ UNCHANGED <<slots, drift>>
          /\ untimed' = (untimed \/ q.stage = "expire")
      BY <1>0, <1>20, <2>3 DEF Disconnect, Good, SlotOK, Stores
    <3> QED BY <2>1, <2>2, <3>1 DEF Move, SlotMove, SlotDropped, TimerMove, ChargeMove,
               BudgetMove, RequestInv, Lose
  <2>4. CASE q.stage \notin {"expire", "over"}
    <3>1. ReturnSlot(r) /\ UNCHANGED untimed
      BY <1>20, <2>4 DEF Disconnect
    <3>2. SlotMove(r)
      BY <2>2, <2>4, <3>1, ReturnMoves
    <3> QED BY <2>1, <2>2, <2>4, <3>1, <3>2 DEF Move, TimerMove, ChargeMove, BudgetMove,
               RequestInv
  <2> QED BY <2>3, <2>4
<1> QED
  BY <1>1, <1>2, <1>3, <1>4, <1>5, <1>6, <1>7, <1>8, <1>9, <1>10, <1>11, <1>12, <1>13,
     <1>14, <1>15, <1>16, <1>17, <1>18, <1>19, <1>20 DEF RequestStep

-----------------------------------------------------------------------------
(* The invariants.                                                         *)

LEMMA IdleGood ==
    /\ Good(IdleRequest) /\ IdleRequest.stage = "idle" /\ IdleRequest.slot = "none"
    /\ IdleRequest.charge = "none"
<1>1. /\ IdleRequest \in Request /\ IdleRequest.stage = "idle" /\ IdleRequest.todo = <<>>
      /\ IdleRequest.success = <<>> /\ IdleRequest.failure = <<>>
      /\ IdleRequest.slot = "none" /\ IdleRequest.charge = "none"
  BY EmptySteps DEF Request, IdleRequest, Stages
<1> HIDE DEF Request, IdleRequest
<1> QED BY <1>1, EmptySteps DEF Good, QueueOK, SlotOK, Taking

\* The steps that are no request's: what they leave alone.
LEMMA EnvironmentMoves ==
    ASSUME SlotsExpire \/ RedisChanges \/ WindowRolls \/ PeriodEnds
    PROVE  /\ UNCHANGED <<req, owed, spend, resetAt, resets>>
           /\ now' = now \/ now' = now + 1
           /\ SlotsExpire \/ UNCHANGED <<slots, leaked, drift, hasTTL, untimed>>
BY DEF SlotsExpire, RedisChanges, WindowRolls, PeriodEnds, limitVars, budgetVars

\* Every request's record is well formed: a step that takes the limits or starts
\* a charge comes once, and none that could lose the slot or the charge follows
\* while it is held (chat/, routers/, batch/policy.py).
THEOREM RequestInvariance == Spec => []RequestInv
<1>1. Init => RequestInv
  BY IdleGood DEF Init, RequestInv, Good
<1>2. RequestInv /\ [Next]_vars => RequestInv'
  <2> SUFFICES ASSUME RequestInv, [Next]_vars PROVE RequestInv'
    OBVIOUS
  <2>1. ASSUME NEW r \in Requests, RequestStep(r)
        PROVE  RequestInv'
    <3>1. Move(r)
      BY <2>1, RequestMoves
    <3> QED BY <3>1 DEF Move, BudgetMove, RequestInv, Good
  <2>2. CASE Crash
    BY <2>2, IdleGood DEF Crash, RequestInv, Good, budgetVars
  <2>3. CASE SlotsExpire \/ RedisChanges \/ WindowRolls \/ PeriodEnds
    BY <2>3, EnvironmentMoves DEF RequestInv
  <2>4. CASE UNCHANGED vars
    BY <2>4 DEF vars, RequestInv
  <2> QED BY <2>1, <2>2, <2>3, <2>4 DEF Next
<1> QED BY <1>1, <1>2, PTL DEF Spec

-----------------------------------------------------------------------------
(* The budget period.                                                      *)

\* The row is never more than one period ahead, resets are as many as periods
\* it moved on, and a request about to reset read a period that was over.
BudgetInv ==
    /\ resets + 1 <= resetAt /\ resetAt <= now + 1
    /\ \A r \in Requests : req[r].stage = "reset" => req[r].snap <= now

\* BudgetInv is an invariant: the conditional UPDATE of budget.py:159 moves the
\* row on only from a period that is over.
THEOREM BudgetInvariance == Spec => []BudgetInv
<1>1. Init => BudgetInv
  BY IdleGood DEF Init, BudgetInv
<1>2. RequestInv /\ BudgetInv /\ [Next]_vars => BudgetInv'
  <2> SUFFICES ASSUME RequestInv, BudgetInv, [Next]_vars PROVE BudgetInv'
    OBVIOUS
  <2>0. /\ resetAt \in Nat /\ now \in Nat /\ resets \in Nat
        /\ \A r \in Requests : req[r].snap \in Nat
    BY DEF RequestInv, Request
  <2>1. ASSUME NEW r \in Requests, RequestStep(r)
        PROVE  BudgetInv'
    <3>1. BudgetMove(r) /\ \A o \in Requests \ {r} : req'[o] = req[o]
      BY <2>1, RequestMoves DEF Move, RequestInv
    <3> QED BY <2>0, <3>1 DEF BudgetMove, BudgetInv
  <2>2. CASE Crash
    BY <2>0, <2>2, IdleGood DEF Crash, BudgetInv, budgetVars
  <2>3. CASE SlotsExpire \/ RedisChanges \/ WindowRolls \/ PeriodEnds
    BY <2>0, <2>3, EnvironmentMoves DEF BudgetInv
  <2>4. CASE UNCHANGED vars
    BY <2>4 DEF vars, BudgetInv
  <2> QED BY <2>1, <2>2, <2>3, <2>4 DEF Next
<1> QED BY <1>1, <1>2, RequestInvariance, PTL DEF Spec

\* OneResetPerPeriod for every number of requests: the conditional UPDATE of
\* budget.py:159 lets one of the requests that find the period over reset it.
THEOREM BudgetSafe == Spec => []OneResetPerPeriod
<1>1. RequestInv /\ BudgetInv => OneResetPerPeriod
  BY DEF RequestInv, BudgetInv, OneResetPerPeriod
<1> QED BY <1>1, RequestInvariance, BudgetInvariance, PTL

-----------------------------------------------------------------------------
(* Counting requests.                                                      *)

\* Sets that differ in one element at most.
LEMMA CardinalityMoves ==
    ASSUME NEW S, NEW T, NEW x, IsFiniteSet(S), S \ {x} = T \ {x}
    PROVE  /\ IsFiniteSet(T)
           /\ Cardinality(S) \in Nat /\ Cardinality(T) \in Nat
           /\ x \in S => Cardinality(S) >= 1
           /\ Cardinality(T) + (IF x \in S THEN 1 ELSE 0)
                = Cardinality(S) + (IF x \in T THEN 1 ELSE 0)
<1> DEFINE U == S \ {x}
<1>1. IsFiniteSet(U) /\ Cardinality(U) \in Nat
  BY FS_Subset, FS_CardinalityType
<1>2. /\ IsFiniteSet(U \cup {x})
      /\ Cardinality(U \cup {x}) = Cardinality(U) + 1
  BY <1>1, FS_AddElement
<1>3. S = IF x \in S THEN U \cup {x} ELSE U
  OBVIOUS
<1>4. T = IF x \in T THEN U \cup {x} ELSE U
  OBVIOUS
<1> HIDE DEF U
<1>5. Cardinality(S) = Cardinality(U) + (IF x \in S THEN 1 ELSE 0)
  BY <1>1, <1>2, <1>3
<1>6. IsFiniteSet(T) /\ Cardinality(T) = Cardinality(U) + (IF x \in T THEN 1 ELSE 0)
  BY <1>1, <1>2, <1>4
<1> QED BY <1>1, <1>5, <1>6

\* The requests whose spend task is under way.
Charging == {r \in Requests : req[r].charge # "none"}

ChargeInv == IsFiniteSet(Charging) /\ RequestChargedOnce

\* ChargeInv is an invariant: the spend tasks under way are what is owed, over
\* every handler, cancellation, crash and failed write (spend.py:162).
THEOREM ChargeInvariance == Spec => []ChargeInv
<1>1. Init => ChargeInv
  <2> SUFFICES ASSUME Init PROVE ChargeInv
    OBVIOUS
  <2>1. Charging = {} /\ owed = 0
    BY IdleGood DEF Init, Charging
  <2> QED BY <2>1, FS_EmptySet DEF ChargeInv, RequestChargedOnce, Charging
<1>2. RequestInv /\ ChargeInv /\ [Next]_vars => ChargeInv'
  <2> SUFFICES ASSUME RequestInv, ChargeInv, [Next]_vars PROVE ChargeInv'
    OBVIOUS
  <2>0. IsFiniteSet(Charging) /\ owed = Cardinality(Charging) /\ Cardinality(Charging) \in Nat
    BY FS_CardinalityType DEF ChargeInv, RequestChargedOnce, Charging
  <2>1. ASSUME NEW r \in Requests, RequestStep(r)
        PROVE  ChargeInv'
    <3>1. ChargeMove(r) /\ \A o \in Requests \ {r} : req'[o] = req[o]
      BY <2>1, RequestMoves DEF Move, RequestInv
    <3>2. /\ Charging \ {r} = Charging' \ {r}
          /\ r \in Charging <=> req[r].charge # "none"
          /\ r \in Charging' <=> req'[r].charge # "none"
      BY <3>1 DEF Charging
    <3>3. /\ IsFiniteSet(Charging') /\ Cardinality(Charging') \in Nat
          /\ Cardinality(Charging') + (IF r \in Charging THEN 1 ELSE 0)
               = Cardinality(Charging) + (IF r \in Charging' THEN 1 ELSE 0)
      BY <2>0, <3>2, CardinalityMoves
    <3>4. owed' = Cardinality(Charging')
      BY <2>0, <3>1, <3>2, <3>3 DEF ChargeMove
    <3> QED BY <3>3, <3>4 DEF ChargeInv, RequestChargedOnce, Charging
  <2>2. CASE Crash
    <3>1. Charging' = {} /\ owed' = owed - Cardinality(Charging)
      BY <2>2, IdleGood DEF Crash, Charging
    <3>2. IsFiniteSet(Charging') /\ owed' = Cardinality(Charging')
      BY <2>0, <3>1, FS_EmptySet
    <3> QED BY <3>2 DEF ChargeInv, RequestChargedOnce, Charging
  <2>3. CASE SlotsExpire \/ RedisChanges \/ WindowRolls \/ PeriodEnds
    BY <2>3, EnvironmentMoves DEF ChargeInv, RequestChargedOnce, Charging
  <2>4. CASE UNCHANGED vars
    BY <2>4 DEF vars, ChargeInv, RequestChargedOnce, Charging
  <2> QED BY <2>1, <2>2, <2>3, <2>4 DEF Next
<1> QED BY <1>1, <1>2, RequestInvariance, PTL DEF Spec

\* RequestChargedOnce for every number of requests and every handler: an
\* answered request is charged once, and what is not charged was lost with its
\* process or a failed write (spend.py:162).
THEOREM ChargeSafe == Spec => []RequestChargedOnce
<1>1. ChargeInv => RequestChargedOnce
  BY DEF ChargeInv
<1> QED BY <1>1, ChargeInvariance, PTL

-----------------------------------------------------------------------------
(* The parallel slots.                                                     *)

\* Holders that got past the check of the limit, or are on their way past it.
Admitted(s) == {r \in Holders(s) : req[r].stage # "over"}

\* Every count is a request in progress, a loss, or missing because of an
\* outage or an expiry; the process counter never goes below 0.
Counts ==
    /\ slots \in [Stores -> Int] /\ slots["local"] >= 0
    /\ leaked \in [Stores -> Nat] /\ drift \in [Stores -> Nat]
    /\ \A s \in Stores : IsFiniteSet(Holders(s))
    /\ SlotsAccountedFor

AdmittedBound == \A s \in Stores : Cardinality(Admitted(s)) <= MaxParallel + drift[s]

\* A Redis counter above 0 has its expiry set or about to be set.
Timed ==
    (drift["redis"] = 0 /\ ~untimed /\ slots["redis"] >= 1)
        => hasTTL \/ \E r \in Requests : req[r].stage = "expire"

SlotInv == Counts /\ AdmittedBound /\ Timed

\* How the sets of holders move with the slot of r.
LEMMA HoldersMove ==
    ASSUME Counts, NEW r \in Requests, \A o \in Requests \ {r} : req'[o] = req[o],
           NEW s \in Stores
    PROVE  /\ IsFiniteSet(Holders(s)') /\ IsFiniteSet(Admitted(s)')
           /\ Cardinality(Holders(s)) \in Nat /\ Cardinality(Holders(s)') \in Nat
           /\ Cardinality(Admitted(s)) \in Nat /\ Cardinality(Admitted(s)') \in Nat
           /\ Cardinality(Holders(s)') + (IF req[r].slot = s THEN 1 ELSE 0)
                = Cardinality(Holders(s)) + (IF req'[r].slot = s THEN 1 ELSE 0)
           /\ Cardinality(Admitted(s)')
                + (IF req[r].slot = s /\ req[r].stage # "over" THEN 1 ELSE 0)
                = Cardinality(Admitted(s))
                + (IF req'[r].slot = s /\ req'[r].stage # "over" THEN 1 ELSE 0)
           /\ Cardinality(Admitted(s)') <= Cardinality(Holders(s)')
           /\ req[r].slot = s => Cardinality(Holders(s)) >= 1
<1> DEFINE H == Holders(s)
           K == Holders(s)'
           A == Admitted(s)
           B == Admitted(s)'
<1>1. /\ H \ {r} = K \ {r} /\ A \ {r} = B \ {r}
      /\ r \in H <=> req[r].slot = s
      /\ r \in K <=> req'[r].slot = s
      /\ r \in A <=> req[r].slot = s /\ req[r].stage # "over"
      /\ r \in B <=> req'[r].slot = s /\ req'[r].stage # "over"
      /\ A \subseteq H /\ B \subseteq K /\ IsFiniteSet(H)
  BY DEF Holders, Admitted, Counts
<1> HIDE DEF H, K, A, B
<1>2. /\ IsFiniteSet(K) /\ Cardinality(H) \in Nat /\ Cardinality(K) \in Nat
      /\ r \in H => Cardinality(H) >= 1
      /\ Cardinality(K) + (IF r \in H THEN 1 ELSE 0)
           = Cardinality(H) + (IF r \in K THEN 1 ELSE 0)
  BY <1>1, CardinalityMoves
<1>3. IsFiniteSet(A)
  BY <1>1, FS_Subset
<1>4. /\ IsFiniteSet(B) /\ Cardinality(A) \in Nat /\ Cardinality(B) \in Nat
      /\ Cardinality(B) + (IF r \in A THEN 1 ELSE 0)
           = Cardinality(A) + (IF r \in B THEN 1 ELSE 0)
  BY <1>1, <1>3, CardinalityMoves
<1>5. Cardinality(B) <= Cardinality(K)
  BY <1>1, <1>2, FS_Subset
<1> QED BY <1>1, <1>2, <1>4, <1>5 DEF H, K, A, B

\* A step of a request keeps the counts, the bound and the expiry. The numbers
\* that HoldersMove relates are named, so that what is left is arithmetic.
LEMMA SlotMoveKeeps ==
    ASSUME MaxParallel \in Nat \ {0}, RequestInv, SlotInv, NEW r \in Requests, Move(r)
    PROVE  SlotInv'
<1> DEFINE c(s) == Cardinality(Holders(s))
           d(s) == Cardinality(Holders(s)')
           a(s) == Cardinality(Admitted(s))
           b(s) == Cardinality(Admitted(s)')
           q == req[r]
           p == req'[r]
<1>1. /\ \A o \in Requests \ {r} : req'[o] = req[o]
      /\ q.slot \in Stores \cup {"none"} /\ q.stage \in Stages
  BY DEF Move, RequestInv, Request
<1>2. ASSUME NEW s \in Stores
      PROVE  /\ IsFiniteSet(Holders(s)')
             /\ c(s) \in Nat /\ d(s) \in Nat /\ a(s) \in Nat /\ b(s) \in Nat
             /\ d(s) + (IF q.slot = s THEN 1 ELSE 0) = c(s) + (IF p.slot = s THEN 1 ELSE 0)
             /\ b(s) + (IF q.slot = s /\ q.stage # "over" THEN 1 ELSE 0)
                  = a(s) + (IF p.slot = s /\ p.stage # "over" THEN 1 ELSE 0)
             /\ b(s) <= d(s)
             /\ q.slot = s => c(s) >= 1
  BY <1>1, HoldersMove DEF SlotInv
<1>3. /\ slots \in [Stores -> Int] /\ slots["local"] >= 0
      /\ leaked \in [Stores -> Nat] /\ drift \in [Stores -> Nat]
      /\ \A s \in Stores : slots[s] = c(s) + leaked[s] - drift[s]
      /\ \A s \in Stores : a(s) <= MaxParallel + drift[s]
  BY DEF SlotInv, Counts, SlotsAccountedFor, AdmittedBound
<1>4. Store \in Stores /\ "redis" \in Stores /\ "local" \in Stores
  BY DEF Store, Stores
<1> DEFINE Kept ==
        /\ slots' \in [Stores -> Int] /\ slots'["local"] >= 0
        /\ leaked' \in [Stores -> Nat] /\ drift' \in [Stores -> Nat]
        /\ \A s \in Stores : slots'[s] = d(s) + leaked'[s] - drift'[s]
        /\ \A s \in Stores : b(s) <= MaxParallel + drift'[s]
        /\ (slots'["redis"] >= 1 /\ drift'["redis"] = 0) =>
              (slots["redis"] >= 1 /\ drift["redis"] = 0) \/ p.stage = "expire"
<1> HIDE DEF c, d, a, b
<1>5. ASSUME SlotKept(r) PROVE Kept
  BY <1>2, <1>3, <1>4, <1>5 DEF SlotKept
<1>6. ASSUME SlotTaken(r) PROVE Kept
  BY <1>2, <1>3, <1>4, <1>6 DEF SlotTaken, Over, Stores
<1>7. ASSUME SlotReturned(r) PROVE Kept
  <2>1. CASE q.slot = "redis"
    BY <1>2, <1>3, <1>4, <1>7, <2>1 DEF SlotReturned, Decremented, AtFloor, Stores
  <2>2. CASE q.slot = "local" /\ slots["local"] > 0
    BY <1>2, <1>3, <1>4, <1>7, <2>2 DEF SlotReturned, Decremented, AtFloor, Stores
  <2>3. CASE q.slot = "local" /\ slots["local"] = 0
    <3>1. drift["local"] - 1 \in Nat
      BY <1>2, <1>3, <1>4, <2>3
    <3>2. /\ slots' = [slots EXCEPT !["local"] = 0] /\ UNCHANGED leaked /\ p.slot = "none"
          /\ drift' = [drift EXCEPT !["local"] = @ - 1]
      BY <1>7, <2>3 DEF SlotReturned, Decremented, AtFloor
    <3>3. /\ slots' \in [Stores -> Int] /\ leaked' \in [Stores -> Nat]
          /\ drift' \in [Stores -> Nat]
          /\ slots'["redis"] = slots["redis"] /\ slots'["local"] = 0
          /\ drift'["redis"] = drift["redis"] /\ drift'["local"] = drift["local"] - 1
      BY <1>3, <1>4, <3>1, <3>2
    <3>4. ASSUME NEW s \in Stores
          PROVE  /\ slots'[s] = d(s) + leaked'[s] - drift'[s]
                 /\ b(s) <= MaxParallel + drift'[s]
      <4>1. CASE s = "local"
        <5>1. /\ c(s) \in Nat /\ d(s) \in Nat /\ b(s) \in Nat /\ d(s) + 1 = c(s) /\ b(s) <= d(s)
          BY <1>2, <2>3, <3>2, <4>1
        <5>2. /\ leaked[s] \in Nat /\ drift[s] \in Nat /\ 0 = c(s) + leaked[s] - drift[s]
              /\ slots'[s] = 0 /\ leaked'[s] = leaked[s] /\ drift'[s] = drift[s] - 1
          BY <1>3, <2>3, <3>2, <3>3, <4>1
        <5> QED BY <5>1, <5>2
      <4>2. CASE s = "redis"
        BY <1>2, <1>3, <2>3, <3>2, <3>3, <4>2
      <4> QED BY <4>1, <4>2 DEF Stores
    <3> QED BY <3>3, <3>4
  <2> QED BY <1>3, <1>7, <2>1, <2>2, <2>3 DEF SlotReturned, Stores
<1>8. ASSUME SlotMisplaced(r) PROVE Kept
  BY <1>2, <1>3, <1>4, <1>8 DEF SlotMisplaced, Decremented, AtFloor, Stores
<1>9. ASSUME SlotDropped(r) PROVE Kept
  BY <1>2, <1>3, <1>4, <1>9 DEF SlotDropped, Stores
<1>10. Kept
  BY <1>5, <1>6, <1>7, <1>8, <1>9 DEF Move, SlotMove
<1>11. Counts'
  BY <1>2, <1>10 DEF Counts, SlotsAccountedFor, d
<1>12. AdmittedBound'
  BY <1>10 DEF AdmittedBound, b
<1>13. Timed'
  BY <1>1, <1>10 DEF SlotInv, Timed, Move, TimerMove
<1> QED BY <1>11, <1>12, <1>13 DEF SlotInv

\* SlotInv is an invariant of the limiter and the handlers when the key has a
\* limit; without one (limit_counter.py:146) nothing is counted.
THEOREM SlotInvariance ==
    ASSUME MaxParallel \in Nat \ {0}
    PROVE  Spec => []SlotInv
<1>1. Init => SlotInv
  <2> SUFFICES ASSUME Init PROVE SlotInv
    OBVIOUS
  <2>1. \A s \in Stores : Holders(s) = {} /\ Admitted(s) = {}
    BY IdleGood DEF Init, Holders, Admitted, Stores
  <2>2. \A s \in Stores : slots[s] = 0 /\ leaked[s] = 0 /\ drift[s] = 0
    BY DEF Init
  <2>3. Counts
    BY <2>1, <2>2, FS_EmptySet DEF Init, Counts, SlotsAccountedFor, Stores
  <2>4. AdmittedBound
    BY <2>1, <2>2, FS_EmptySet DEF AdmittedBound
  <2>5. Timed
    BY <2>2 DEF Timed, Stores
  <2> QED BY <2>3, <2>4, <2>5 DEF SlotInv
<1>2. RequestInv /\ SlotInv /\ [Next]_vars => SlotInv'
  <2> SUFFICES ASSUME RequestInv, SlotInv, [Next]_vars PROVE SlotInv'
    OBVIOUS
  <2>0. /\ "redis" \in Stores /\ "local" \in Stores /\ \A s \in Stores : s \in {"redis", "local"}
        /\ \A s \in Stores : Cardinality(Holders(s)) \in Nat
    BY FS_CardinalityType DEF SlotInv, Counts, Stores
  <2>1. ASSUME NEW r \in Requests, RequestStep(r)
        PROVE  SlotInv'
    BY <2>1, RequestMoves, SlotMoveKeeps
  <2>2. CASE Crash
    <3>1. \A s \in Stores : Holders(s)' = {} /\ Admitted(s)' = {}
      BY <2>2, IdleGood DEF Crash, Holders, Admitted, Stores
    <3>2. /\ leaked' = [leaked EXCEPT !["redis"] = @ + Cardinality(Holders("redis")), !["local"] = 0]
          /\ slots' = [slots EXCEPT !["local"] = 0] /\ drift' = [drift EXCEPT !["local"] = 0]
          /\ untimed' = (untimed \/ \E r \in Requests : req[r].stage = "expire")
          /\ UNCHANGED hasTTL
      BY <2>2 DEF Crash
    <3>3. \A s \in Stores : /\ IsFiniteSet(Holders(s)') /\ Cardinality(Holders(s)') = 0
                            /\ Cardinality(Admitted(s)') = 0
      BY <3>1, FS_EmptySet
    <3>4. /\ leaked' \in [Stores -> Nat] /\ slots' \in [Stores -> Int] /\ drift' \in [Stores -> Nat]
          /\ slots'["local"] = 0 /\ leaked'["local"] = 0 /\ drift'["local"] = 0
          /\ slots'["redis"] = leaked'["redis"] - drift'["redis"]
          /\ slots'["redis"] = slots["redis"] /\ drift'["redis"] = drift["redis"]
      BY <2>0, <3>2 DEF SlotInv, Counts, SlotsAccountedFor
    <3>5. Counts'
      <4>1. \A s \in Stores : slots'[s] = Cardinality(Holders(s)') + leaked'[s] - drift'[s]
        <5> TAKE s \in Stores
        <5>1. Cardinality(Holders(s)') = 0
          BY <3>3
        <5>2. leaked'[s] \in Nat /\ drift'[s] \in Nat /\ slots'[s] = leaked'[s] - drift'[s]
          BY <2>0, <3>4
        <5> QED BY <5>1, <5>2
      <4>2. \A s \in Stores : IsFiniteSet(Holders(s)')
        BY <3>3
      <4>3. /\ leaked' \in [Stores -> Nat] /\ slots' \in [Stores -> Int]
            /\ drift' \in [Stores -> Nat] /\ slots'["local"] >= 0
        BY <3>4
      <4> QED BY <4>1, <4>2, <4>3 DEF Counts, SlotsAccountedFor
    <3>6. AdmittedBound'
      <4>1. \A s \in Stores : Cardinality(Admitted(s)') <= MaxParallel + drift'[s]
        BY <3>3, <3>4
      <4> QED BY <4>1 DEF AdmittedBound
    <3>7. Timed'
      BY <3>2, <3>4 DEF SlotInv, Timed
    <3> QED BY <3>5, <3>6, <3>7 DEF SlotInv
  <2>3. CASE SlotsExpire
    <3> DEFINE n == Cardinality(Holders("redis"))
    <3>1. /\ slots' = [slots EXCEPT !["redis"] = 0] /\ leaked' = [leaked EXCEPT !["redis"] = 0]
          /\ drift' = [drift EXCEPT !["redis"] = n]
          /\ UNCHANGED req
      BY <2>3 DEF SlotsExpire
    <3>2. /\ leaked' \in [Stores -> Nat] /\ slots' \in [Stores -> Int] /\ drift' \in [Stores -> Nat]
          /\ slots'["local"] = slots["local"] /\ leaked'["local"] = leaked["local"]
          /\ drift'["local"] = drift["local"]
          /\ slots'["redis"] = 0 /\ leaked'["redis"] = 0 /\ drift'["redis"] = n
      BY <2>0, <3>1 DEF SlotInv, Counts
    <3>3. \A s \in Stores : Holders(s)' = Holders(s) /\ Admitted(s)' = Admitted(s)
      BY <3>1 DEF Holders, Admitted
    <3>4. Counts'
      <4>1. /\ slots'["redis"] = n + leaked'["redis"] - drift'["redis"]
            /\ slots'["local"] = Cardinality(Holders("local")) + leaked'["local"] - drift'["local"]
        BY <2>0, <3>2 DEF SlotInv, Counts, SlotsAccountedFor
      <4>2. \A s \in Stores : slots'[s] = Cardinality(Holders(s)') + leaked'[s] - drift'[s]
        BY <2>0, <3>3, <4>1
      <4> QED BY <3>2, <3>3, <4>2 DEF SlotInv, Counts, SlotsAccountedFor
    <3>5. AdmittedBound'
      <4>1. Cardinality(Admitted("redis")) <= n /\ Cardinality(Admitted("redis")) \in Nat
        BY <2>0, FS_Subset, FS_CardinalityType DEF SlotInv, Counts, Admitted
      <4> QED BY <2>0, <3>2, <3>3, <4>1 DEF SlotInv, AdmittedBound
    <3>6. Timed'
      BY <3>2 DEF Timed
    <3> QED BY <3>4, <3>5, <3>6 DEF SlotInv
  <2>4. CASE UNCHANGED <<req, slots, leaked, drift, hasTTL, untimed>>
    BY <2>4 DEF SlotInv, Counts, SlotsAccountedFor, AdmittedBound, Timed, Holders, Admitted
  <2>5. CASE RedisChanges \/ WindowRolls \/ PeriodEnds
    BY <2>4, <2>5, EnvironmentMoves, <2>3
  <2>6. CASE UNCHANGED vars
    BY <2>4, <2>6 DEF vars
  <2> QED BY <2>1, <2>2, <2>3, <2>5, <2>6 DEF Next
<1> QED BY <1>1, <1>2, RequestInvariance, PTL DEF Spec

\* SlotsAccountedFor for every number of requests and every limit: each count is
\* a request in progress or a known loss, over every path through the handlers,
\* rejection, cancellation and outage (rate_limit.py:233).
THEOREM SlotsSafe ==
    ASSUME MaxParallel \in Nat \ {0}
    PROVE  Spec => []SlotsAccountedFor
<1>1. SlotInv => SlotsAccountedFor
  BY DEF SlotInv, Counts
<1> QED BY <1>1, SlotInvariance, PTL

\* ParallelLimitKept for every number of requests and every limit: no more than
\* max_parallel_requests of a key are past the limiter, but for the slots in use
\* that an outage or an expiry hit (limit_counter.py:145).
THEOREM ParallelSafe ==
    ASSUME MaxParallel \in Nat \ {0}
    PROVE  Spec => []ParallelLimitKept
<1>1. SlotInv => ParallelLimitKept
  <2> SUFFICES ASSUME SlotInv, NEW s \in Stores
               PROVE  Cardinality({r \in Holders(s) : req[r].stage \notin {"expire", "over"}})
                        <= MaxParallel + drift[s]
    BY DEF ParallelLimitKept
  <2> DEFINE P == {r \in Holders(s) : req[r].stage \notin {"expire", "over"}}
  <2>1. IsFiniteSet(Holders(s)) /\ Admitted(s) \subseteq Holders(s) /\ P \subseteq Admitted(s)
    BY DEF SlotInv, Counts, Admitted
  <2>2. IsFiniteSet(Admitted(s))
    BY <2>1, FS_Subset
  <2>3. /\ Cardinality(P) \in Nat /\ Cardinality(Admitted(s)) \in Nat
        /\ Cardinality(P) <= Cardinality(Admitted(s))
    BY <2>1, <2>2, FS_Subset, FS_CardinalityType
  <2> HIDE DEF P
  <2>4. Cardinality(P) <= MaxParallel + drift[s]
    BY <2>3 DEF SlotInv, Counts, AdmittedBound
  <2> QED BY <2>4 DEF P
<1> QED BY <1>1, SlotInvariance, PTL

\* LostSlotsExpire for every number of requests and every limit: a lost slot is
\* in a counter that expires, unless the request that should have set the expiry
\* was lost (limit_counter.py:161) or an earlier expiry hit slots in use.
THEOREM ExpirySafe ==
    ASSUME MaxParallel \in Nat \ {0}
    PROVE  Spec => []LostSlotsExpire
<1>1. SlotInv => LostSlotsExpire
  <2> SUFFICES ASSUME SlotInv, drift["redis"] = 0, ~untimed, leaked["redis"] > 0
               PROVE  hasTTL \/ \E r \in Requests : req[r].stage = "expire"
    BY DEF LostSlotsExpire
  <2>1. "redis" \in Stores /\ Cardinality(Holders("redis")) \in Nat
    BY FS_CardinalityType DEF SlotInv, Counts, Stores
  <2>2. slots["redis"] >= 1
    BY <2>1 DEF SlotInv, Counts, SlotsAccountedFor
  <2> QED BY <2>2 DEF SlotInv, Timed
<1> QED BY <1>1, SlotInvariance, PTL

-----------------------------------------------------------------------------
(***************************************************************************)
(* The control plane.                                                      *)
(*                                                                         *)
(* A handler is a list of steps, so the lists are described first: Sound   *)
(* says that every write is followed by what makes it known and that a     *)
(* reload locks, reads and installs in this order; every list a handler, a *)
(* reload or the flush starts with is Sound, and so is every rest of one.  *)
(* PlaneInv then says of the state that a stale key record has a deletion  *)
(* ahead of it and a stale snapshot a reload or a message (AuthPledged,    *)
(* ViewsPledged), in a list whose check is past.  Each action is one of a  *)
(* few moves of one task, and the moves keep PlaneInv.                     *)
(***************************************************************************)
CONSTANTS Instances, Families, Readers, Faults, MaxHandlers, MaxFaults, MaxTimers
VARIABLES auth, gone, reader, snap, models, config, registry, groups1, groups2, lock,
          inbox, queued, listening, events, following, task, missed, missedAuth, used

Plane == INSTANCE ControlPlane

Words ==
    {"check", "request", "write", "edit", "key", "owner", "gone", "targets", "mcp", "models",
     "groups", "settings", "drop", "raise", "log", "lock", "read", "install", "notify",
     "uncache", "get", "own", "config", "load", "query", "store", "build", "registry",
     "follow", "publish", "model", "tune", "scheduler", "take", "queued", "apply"}
Op == Words \X Words

\* What only a whole list can begin with.
First == {"check", "take", "load", "apply"}

Has(p, S) == \E k \in 1..Len(p) : p[k] \in S

KeyWrites == {<<"write", "key">>, <<"write", "owner">>, <<"write", "gone">>}
Drops == {Plane!Drop, Plane!DropLogged}

\* What has to follow a write.
Followed(p) ==
    \A k \in 1..Len(p) :
        /\ p[k] \in KeyWrites => \E m \in (k + 1)..Len(p) : p[m] \in Drops
        /\ \A v \in Plane!Views : p[k] = <<"write", v>> =>
             /\ \E m \in (k + 1)..Len(p) : p[m] = <<"read", v>>
             /\ \E m \in (k + 1)..Len(p) : p[m] = <<"notify", v>>

\* lock, read and install follow each other.
Chained(t, p) ==
    \A k \in 1..Len(p) :
        /\ p[k] # <<"edit", "gone">>
        /\ p[k][1] = "read" => k < Len(p) /\ p[k + 1] = <<"install", p[k][2]>>
        /\ k > 1 => /\ p[k][1] \notin First
                    /\ p[k][1] = "install" => p[k - 1] = <<"read", p[k][2]>>
                    /\ p[k][1] = "read" => \/ p[k - 1] = <<"lock", p[k][2]>>
                                           \/ /\ t = "flush" /\ p[k - 1][1] = "install"
                                              /\ p[k] = <<"read", "mcp">>

Sound(t, p) == p \in Seq(Op) /\ Followed(p) /\ Chained(t, p)

\* A list that can stand behind other steps.
Body(p) == Sound("admin", p) /\ (p # <<>> => p[1][1] \notin First \cup {"read", "install"})

Quiet(s) ==
    /\ s \in Op /\ s[1] \notin First \cup {"lock", "read", "install"}
    /\ s[1] = "write" => s[2] \notin {"key", "owner", "gone"} \cup Plane!Views
    /\ s # <<"edit", "gone">>

\* A step that may come before the list q.
Leads(s, q) ==
    /\ s \in Op /\ s[1] \notin {"read", "install"} /\ s # <<"edit", "gone">>
    /\ s \in KeyWrites => Has(q, Drops)
    /\ \A v \in Plane!Views : s = <<"write", v>> => Has(q, {<<"read", v>>}) /\ Has(q, {<<"notify", v>>})

LEMMA Consed ==
    ASSUME NEW s, NEW q \in Seq(Op), s \in Op
    PROVE  /\ <<s>> \o q \in Seq(Op) /\ Len(<<s>> \o q) = Len(q) + 1 /\ Len(q) \in Nat
           /\ (<<s>> \o q)[1] = s
           /\ \A k \in 1..Len(q) : (<<s>> \o q)[k + 1] = q[k]
           /\ \A k \in 2..(Len(q) + 1) : (<<s>> \o q)[k] = q[k - 1] /\ k - 1 \in 1..Len(q)
OBVIOUS

LEMMA ConsedHas ==
    ASSUME NEW s \in Op, NEW q \in Seq(Op), NEW S, s \in S \/ Has(q, S)
    PROVE  Has(<<s>> \o q, S)
<1> DEFINE p == <<s>> \o q
<1>1. Len(p) = Len(q) + 1 /\ Len(q) \in Nat /\ p[1] = s /\ \A k \in 1..Len(q) : p[k + 1] = q[k]
  BY Consed
<1> HIDE DEF p
<1>2. Has(p, S)
  BY <1>1 DEF Has
<1> QED BY <1>2 DEF p

LEMMA ConsedSound ==
    ASSUME NEW s, NEW q, Body(q), Leads(s, q)
    PROVE  Sound("admin", <<s>> \o q)
<1> DEFINE p == <<s>> \o q
<1>1. /\ p \in Seq(Op) /\ Len(p) = Len(q) + 1 /\ Len(q) \in Nat /\ p[1] = s
      /\ \A k \in 1..Len(q) : p[k + 1] = q[k]
      /\ \A k \in 2..Len(p) : p[k] = q[k - 1] /\ k - 1 \in 1..Len(q)
  BY Consed DEF Body, Sound, Leads
<1> HIDE DEF p
<1>2. ASSUME NEW k \in 1..Len(p)
      PROVE  /\ p[k] \in KeyWrites => \E m \in (k + 1)..Len(p) : p[m] \in Drops
             /\ \A v \in Plane!Views : p[k] = <<"write", v>> =>
                  /\ \E m \in (k + 1)..Len(p) : p[m] = <<"read", v>>
                  /\ \E m \in (k + 1)..Len(p) : p[m] = <<"notify", v>>
  <2>1. ASSUME NEW S, k = 1, Has(q, S)
        PROVE  \E m \in (k + 1)..Len(p) : p[m] \in S
    BY <1>1, <2>1 DEF Has
  <2>2. CASE k = 1
    <3>1. p[k] = s
      BY <1>1, <2>2
    <3>2. p[k] \in KeyWrites => \E m \in (k + 1)..Len(p) : p[m] \in Drops
      BY <2>1, <2>2, <3>1 DEF Leads
    <3>3. ASSUME NEW v \in Plane!Views, p[k] = <<"write", v>>
          PROVE  /\ \E m \in (k + 1)..Len(p) : p[m] = <<"read", v>>
                 /\ \E m \in (k + 1)..Len(p) : p[m] = <<"notify", v>>
      <4>1. Has(q, {<<"read", v>>}) /\ Has(q, {<<"notify", v>>})
        BY <3>1, <3>3 DEF Leads
      <4>2. /\ \E m \in (k + 1)..Len(p) : p[m] \in {<<"read", v>>}
            /\ \E m \in (k + 1)..Len(p) : p[m] \in {<<"notify", v>>}
        BY ONLY <2>1, <2>2, <4>1
      <4> QED BY <4>2
    <3> QED BY <3>2, <3>3
  <2>3. ASSUME k # 1, NEW S, \E m \in ((k - 1) + 1)..Len(q) : q[m] \in S
        PROVE  \E m \in (k + 1)..Len(p) : p[m] \in S
    BY <1>1, <2>3
  <2>4. CASE k # 1
    <3>1. p[k] = q[k - 1] /\ k - 1 \in 1..Len(q)
      BY <1>1, <2>4
    <3>2. p[k] \in KeyWrites => \E m \in (k + 1)..Len(p) : p[m] \in Drops
      BY <2>3, <2>4, <3>1 DEF Body, Sound, Followed
    <3>3. ASSUME NEW v \in Plane!Views, p[k] = <<"write", v>>
          PROVE  /\ \E m \in (k + 1)..Len(p) : p[m] = <<"read", v>>
                 /\ \E m \in (k + 1)..Len(p) : p[m] = <<"notify", v>>
      <4>1. /\ \E m \in ((k - 1) + 1)..Len(q) : q[m] \in {<<"read", v>>}
            /\ \E m \in ((k - 1) + 1)..Len(q) : q[m] \in {<<"notify", v>>}
        BY <3>1, <3>3 DEF Body, Sound, Followed
      <4>2. /\ \E m \in (k + 1)..Len(p) : p[m] \in {<<"read", v>>}
            /\ \E m \in (k + 1)..Len(p) : p[m] \in {<<"notify", v>>}
        BY ONLY <2>3, <2>4, <4>1
      <4> QED BY <4>2
    <3> QED BY <3>2, <3>3
  <2> QED BY <2>2, <2>4
<1>3. ASSUME NEW k \in 1..Len(p)
      PROVE  /\ p[k] # <<"edit", "gone">>
             /\ p[k][1] = "read" => k < Len(p) /\ p[k + 1] = <<"install", p[k][2]>>
             /\ k > 1 => /\ p[k][1] \notin First
                         /\ p[k][1] = "install" => p[k - 1] = <<"read", p[k][2]>>
                         /\ p[k][1] = "read" => p[k - 1] = <<"lock", p[k][2]>>
  <2>1. CASE k = 1
    <3>1. p[k] = s /\ ~(k > 1)
      BY <1>1, <2>1
    <3>2. s # <<"edit", "gone">> /\ s[1] # "read"
      BY DEF Leads
    <3> QED BY ONLY <3>1, <3>2
  <2>2. CASE k = 2
    BY <1>1, <2>2 DEF Body, Sound, Chained
  <2>3. CASE k > 2
    <3>1. /\ p[k] = q[k - 1] /\ k - 1 \in 1..Len(q) /\ k - 1 > 1
          /\ p[k - 1] = q[(k - 1) - 1]
          /\ k - 1 < Len(q) => k < Len(p) /\ p[k + 1] = q[(k - 1) + 1]
      BY <1>1, <2>3
    <3> DEFINE j == k - 1
    <3>2. /\ q[j] # <<"edit", "gone">>
          /\ q[j][1] = "read" => j < Len(q) /\ q[j + 1] = <<"install", q[j][2]>>
          /\ q[j][1] \notin First
          /\ q[j][1] = "install" => q[j - 1] = <<"read", q[j][2]>>
          /\ q[j][1] = "read" => q[j - 1] = <<"lock", q[j][2]>>
      <4> HIDE DEF j
      <4> QED BY <3>1 DEF Body, Sound, Chained, j
    <3> QED BY <3>1, <3>2
  <2> QED BY <2>1, <2>2, <2>3
<1>4. Followed(p) /\ Chained("admin", p)
  BY <1>2, <1>3 DEF Followed, Chained
<1> QED BY <1>1, <1>4 DEF Sound, p

LEMMA ConsedBody ==
    ASSUME NEW s, NEW q, Body(q), Leads(s, q), s[1] \notin First
    PROVE  Body(<<s>> \o q)
<1>1. (<<s>> \o q)[1] = s
  BY Consed DEF Body, Sound, Leads
<1>2. s[1] \notin First \cup {"read", "install"}
  BY DEF Leads
<1> QED BY ConsedSound, <1>1, <1>2 DEF Body

LEMMA EmptyBody == Body(<<>>)
BY DEF Body, Sound, Followed, Chained

LEMMA QuietLeads ==
    ASSUME NEW s, NEW q, Quiet(s)
    PROVE  Leads(s, q) /\ s \in Op /\ s[1] \notin First
<1>1. s \notin KeyWrites
  BY DEF Quiet, KeyWrites
<1>2. \A v \in Plane!Views : s # <<"write", v>>
  BY DEF Quiet
<1> QED BY <1>1, <1>2 DEF Leads, Quiet

LEMMA Block ==
    ASSUME NEW v \in Plane!Views, NEW q, Body(q)
    PROVE  /\ Body(Plane!InvalidateLocal(v) \o q)
           /\ Has(Plane!InvalidateLocal(v) \o q, {<<"read", v>>})
           /\ \A S : Has(q, S) => Has(Plane!InvalidateLocal(v) \o q, S)
<1> DEFINE a == <<"lock", v>>
           b == <<"read", v>>
           c == <<"install", v>>
           p == <<a, b, c>> \o q
<1>1. /\ a \in Op /\ a[1] = "lock" /\ a[2] = v
      /\ b \in Op /\ b[1] = "read" /\ b[2] = v
      /\ c \in Op /\ c[1] = "install" /\ c[2] = v
  BY DEF Op, Words, Plane!Views
<1>2. a \notin KeyWrites /\ b \notin KeyWrites /\ c \notin KeyWrites
  BY <1>1 DEF KeyWrites
<1>3. \A w : a # <<"write", w>> /\ b # <<"write", w>> /\ c # <<"write", w>>
  BY <1>1
<1>4. a # <<"edit", "gone">> /\ b # <<"edit", "gone">> /\ c # <<"edit", "gone">>
  BY <1>1
<1>5. q \in Seq(Op) /\ Len(q) \in Nat
  BY DEF Body, Sound
<1>6. Plane!InvalidateLocal(v) \o q = p
  BY DEF Plane!InvalidateLocal
<1>7. c = <<"install", b[2]>> /\ b = <<"read", c[2]>> /\ a = <<"lock", b[2]>>
  BY <1>1
<1> HIDE DEF a, b, c
<1>8. /\ p \in Seq(Op) /\ Len(p) = Len(q) + 3
      /\ p[1] = a /\ p[2] = b /\ p[3] = c
      /\ \A k \in 1..Len(q) : p[k + 3] = q[k]
      /\ \A k \in 4..Len(p) : p[k] = q[k - 3] /\ k - 3 \in 1..Len(q)
  BY <1>1, <1>5
<1> HIDE DEF p
<1>9. ASSUME NEW k \in 1..Len(p)
      PROVE  /\ p[k] \in KeyWrites => \E m \in (k + 1)..Len(p) : p[m] \in Drops
             /\ \A w \in Plane!Views : p[k] = <<"write", w>> =>
                  /\ \E m \in (k + 1)..Len(p) : p[m] = <<"read", w>>
                  /\ \E m \in (k + 1)..Len(p) : p[m] = <<"notify", w>>
  <2>1. CASE k < 4
    <3>1. p[k] \notin KeyWrites /\ \A w : p[k] # <<"write", w>>
      <4>1. k = 1 \/ k = 2 \/ k = 3
        BY <2>1
      <4> QED BY <4>1, <1>8, <1>2, <1>3
    <3> QED BY ONLY <3>1
  <2>2. CASE k >= 4
    <3>1. p[k] = q[k - 3] /\ k - 3 \in 1..Len(q)
      BY <1>8, <2>2, <1>5
    <3>2. ASSUME NEW S, \E m \in ((k - 3) + 1)..Len(q) : q[m] \in S
          PROVE  \E m \in (k + 1)..Len(p) : p[m] \in S
      BY <1>8, <1>5, <2>2, <3>2
    <3>3. p[k] \in KeyWrites => \E m \in (k + 1)..Len(p) : p[m] \in Drops
      BY <3>1, <3>2 DEF Body, Sound, Followed
    <3>4. ASSUME NEW w \in Plane!Views, p[k] = <<"write", w>>
          PROVE  /\ \E m \in (k + 1)..Len(p) : p[m] = <<"read", w>>
                 /\ \E m \in (k + 1)..Len(p) : p[m] = <<"notify", w>>
      <4>1. /\ \E m \in ((k - 3) + 1)..Len(q) : q[m] \in {<<"read", w>>}
            /\ \E m \in ((k - 3) + 1)..Len(q) : q[m] \in {<<"notify", w>>}
        BY <3>1, <3>4 DEF Body, Sound, Followed
      <4>2. /\ \E m \in (k + 1)..Len(p) : p[m] \in {<<"read", w>>}
            /\ \E m \in (k + 1)..Len(p) : p[m] \in {<<"notify", w>>}
        BY ONLY <3>2, <4>1
      <4> QED BY <4>2
    <3> QED BY <3>3, <3>4
  <2> QED BY <2>1, <2>2
<1>10. ASSUME NEW k \in 1..Len(p)
      PROVE  /\ p[k] # <<"edit", "gone">>
             /\ p[k][1] = "read" => k < Len(p) /\ p[k + 1] = <<"install", p[k][2]>>
             /\ k > 1 => /\ p[k][1] \notin First
                         /\ p[k][1] = "install" => p[k - 1] = <<"read", p[k][2]>>
                         /\ p[k][1] = "read" => p[k - 1] = <<"lock", p[k][2]>>
  <2>1. CASE k = 1
    BY <1>8, <1>1, <1>4, <2>1
  <2>2. CASE k = 2
    BY <1>8, <1>1, <1>4, <1>5, <1>7, <2>2 DEF First
  <2>3. CASE k = 3
    BY <1>8, <1>1, <1>4, <1>7, <2>3 DEF First
  <2>4. CASE k >= 4
    <3>1. /\ p[k] = q[k - 3] /\ k - 3 \in 1..Len(q)
          /\ k - 3 > 1 => p[k - 1] = q[(k - 3) - 1]
          /\ k - 3 < Len(q) => k < Len(p) /\ p[k + 1] = q[(k - 3) + 1]
      BY <1>8, <1>5, <2>4
    <3> DEFINE j == k - 3
    <3>2. /\ q[j] # <<"edit", "gone">>
          /\ q[j][1] = "read" => j < Len(q) /\ q[j + 1] = <<"install", q[j][2]>>
          /\ j > 1 => /\ q[j][1] \notin First
                      /\ q[j][1] = "install" => q[j - 1] = <<"read", q[j][2]>>
                      /\ q[j][1] = "read" => q[j - 1] = <<"lock", q[j][2]>>
          /\ j = 1 => q[j][1] \notin First \cup {"read", "install"}
      <4> HIDE DEF j
      <4> QED BY <3>1 DEF Body, Sound, Chained, j
    <3>3. j = 1 \/ j > 1
      BY <3>1
    <3> QED BY <3>1, <3>2, <3>3
  <2> QED BY <2>1, <2>2, <2>3, <2>4
<1>11. Followed(p) /\ Chained("admin", p)
  BY <1>9, <1>10 DEF Followed, Chained
<1>12. Body(p)
  BY <1>8, <1>11, <1>1 DEF Body, Sound, First
<1>13. Has(p, {b})
  BY <1>8, <1>5 DEF Has
<1>14. ASSUME NEW S, Has(q, S) PROVE Has(p, S)
  BY <1>8, <1>5, <1>14 DEF Has
<1> QED BY <1>6, <1>12, <1>13, <1>14 DEF b

\* A handler: its check, then the rest.
Program(p) == Sound("admin", p) /\ p # <<>> /\ p[1] = Plane!Check

LEMMA Checked ==
    ASSUME NEW q, Body(q)
    PROVE  Program(<<Plane!Check>> \o q)
<1>2. Plane!Check \in Op
  BY DEF Plane!Check, Op, Words
<1>1. Leads(Plane!Check, q)
  BY <1>2 DEF Leads, Plane!Check, KeyWrites
<1>3. (<<Plane!Check>> \o q)[1] = Plane!Check /\ Len(<<Plane!Check>> \o q) # 0
  BY <1>2, Consed DEF Body, Sound
<1>4. Sound("admin", <<Plane!Check>> \o q)
  BY <1>1, ConsedSound
<1> QED BY <1>3, <1>4 DEF Program

LEMMA UnfoldedPair ==
    ASSUME NEW a \in Op, NEW b \in Op
    PROVE  <<a, b>> = <<a>> \o <<b>>
<1> DEFINE r == <<a>> \o <<b>>
           l == <<a, b>>
<1>1. r \in Seq(Op) /\ Len(r) = 2 /\ r[1] = a /\ r[2] = b
  OBVIOUS
<1>2. l \in Seq(Op) /\ Len(l) = 2 /\ l[1] = a /\ l[2] = b
  OBVIOUS
<1> HIDE DEF r, l
<1>3. l = r
  BY <1>1, <1>2, SeqEqual
<1> QED BY <1>3 DEF l, r

LEMMA UnfoldedTwo ==
    ASSUME NEW a \in Op, NEW b \in Op, NEW q \in Seq(Op)
    PROVE  <<a, b>> \o q = <<a>> \o (<<b>> \o q)
<1>1. <<a>> \in Seq(Op) /\ <<b>> \in Seq(Op)
  OBVIOUS
<1> QED BY <1>1, UnfoldedPair, ConcatAssociative

LEMMA UnfoldedLast ==
    ASSUME NEW a \in Op, NEW b \in Op, NEW c \in Op
    PROVE  <<a, b, c>> = <<a, b>> \o <<c>>
OBVIOUS

LEMMA UnfoldedThree ==
    ASSUME NEW a \in Op, NEW b \in Op, NEW c \in Op, NEW q \in Seq(Op)
    PROVE  <<a, b, c>> \o q = <<a>> \o (<<b>> \o (<<c>> \o q))
<1> DEFINE m == <<c>> \o q
<1>1. <<c>> \in Seq(Op) /\ <<a, b>> \in Seq(Op) /\ m \in Seq(Op)
  OBVIOUS
<1>2. <<a, b, c>> = <<a, b>> \o <<c>>
  OBVIOUS
<1>3. <<a, b, c>> \o q = <<a, b>> \o m
  BY <1>1, <1>2, ConcatAssociative
<1> HIDE DEF m
<1>4. <<a, b>> \o m = <<a>> \o (<<b>> \o m)
  BY <1>1, UnfoldedTwo
<1> QED BY <1>3, <1>4 DEF m

-----------------------------------------------------------------------------
LEMMA Then ==
    ASSUME NEW s, NEW q, Quiet(s), Body(q)
    PROVE  /\ Body(<<s>> \o q) /\ Has(<<s>> \o q, {s})
           /\ \A S : Has(q, S) => Has(<<s>> \o q, S)
<1>1. Leads(s, q) /\ s \in Op /\ s[1] \notin First
  BY QuietLeads
<1>2. q \in Seq(Op)
  BY DEF Body, Sound
<1> QED BY <1>1, <1>2, ConsedBody, ConsedHas

LEMMA Last ==
    ASSUME NEW s, Quiet(s)
    PROVE  Body(<<s>>) /\ Has(<<s>>, {s})
<1>1. s \in Op
  BY DEF Quiet
<1>2. <<s>> \o <<>> = <<s>>
  BY <1>1
<1> QED BY <1>2, EmptyBody, Then

LEMMA QuietStep ==
    ASSUME NEW a \in Words, NEW b \in Words, a \notin First \cup {"lock", "read", "install", "write"},
           a = "edit" => b # "gone"
    PROVE  Quiet(<<a, b>>)
<1> DEFINE s == <<a, b>>
<1>1. s \in Op /\ s[1] = a /\ s[2] = b
  BY DEF Op
<1> HIDE DEF s
<1>2. Quiet(s)
  BY <1>1 DEF Quiet
<1> QED BY <1>2 DEF s

LEMMA QuietWrite ==
    ASSUME NEW b \in {"models", "groups", "settings"}
    PROVE  Quiet(<<"write", b>>)
<1> DEFINE s == <<"write", b>>
<1>1. s \in Op /\ s[1] = "write" /\ s[2] = b
  BY DEF Op, Words
<1> HIDE DEF s
<1>2. Quiet(s)
  BY <1>1 DEF Quiet, Plane!Views, First
<1> QED BY <1>2 DEF s

LEMMA QuietSteps ==
    /\ Quiet(Plane!Drop)
    /\ Quiet(Plane!DropLogged)
    /\ Quiet(Plane!Edit("owner"))
    /\ Quiet(Plane!Edit("mcp"))
    /\ Quiet(Plane!Write("models"))
    /\ Quiet(Plane!Write("groups"))
    /\ Quiet(<<"write", "settings">>)
    /\ Quiet(Plane!Notify("targets"))
    /\ Quiet(Plane!Notify("mcp"))
    /\ Quiet(Plane!Uncache)
    /\ Quiet(<<"get", "config">>)
    /\ Quiet(<<"get", "own">>)
    /\ Quiet(<<"models", "load">>)
    /\ Quiet(<<"groups", "load">>)
    /\ Quiet(<<"build", "registry">>)
    /\ Quiet(<<"query", "groups">>)
    /\ Quiet(<<"store", "groups">>)
    /\ Quiet(<<"follow", "targets">>)
    /\ Quiet(<<"publish", "model">>)
    /\ Quiet(<<"publish", "config">>)
    /\ Quiet(Plane!Tune)
<1>1. Quiet(Plane!Drop)
  BY QuietStep DEF Words, First, Plane!Drop
<1>2. Quiet(Plane!DropLogged)
  BY QuietStep DEF Words, First, Plane!DropLogged
<1>3. Quiet(Plane!Edit("owner"))
  BY QuietStep DEF Words, First, Plane!Edit
<1>4. Quiet(Plane!Edit("mcp"))
  BY QuietStep DEF Words, First, Plane!Edit
<1>5. Quiet(Plane!Write("models"))
  BY QuietWrite DEF Words, Plane!Write
<1>6. Quiet(Plane!Write("groups"))
  BY QuietWrite DEF Words, Plane!Write
<1>7. Quiet(<<"write", "settings">>)
  BY QuietWrite DEF Words
<1>8. Quiet(Plane!Notify("targets"))
  BY QuietStep DEF Words, First, Plane!Notify
<1>9. Quiet(Plane!Notify("mcp"))
  BY QuietStep DEF Words, First, Plane!Notify
<1>10. Quiet(Plane!Uncache)
  BY QuietStep DEF Words, First, Plane!Uncache
<1>11. Quiet(<<"get", "config">>)
  BY QuietStep DEF Words, First
<1>12. Quiet(<<"get", "own">>)
  BY QuietStep DEF Words, First
<1>13. Quiet(<<"models", "load">>)
  BY QuietStep DEF Words, First
<1>14. Quiet(<<"groups", "load">>)
  BY QuietStep DEF Words, First
<1>15. Quiet(<<"build", "registry">>)
  BY QuietStep DEF Words, First
<1>16. Quiet(<<"query", "groups">>)
  BY QuietStep DEF Words, First
<1>17. Quiet(<<"store", "groups">>)
  BY QuietStep DEF Words, First
<1>18. Quiet(<<"follow", "targets">>)
  BY QuietStep DEF Words, First
<1>19. Quiet(<<"publish", "model">>)
  BY QuietStep DEF Words, First
<1>20. Quiet(<<"publish", "config">>)
  BY QuietStep DEF Words, First
<1>21. Quiet(Plane!Tune)
  BY QuietStep DEF Words, First, Plane!Tune
<1> QED BY <1>1, <1>2, <1>3, <1>4, <1>5, <1>6, <1>7, <1>8, <1>9, <1>10, <1>11, <1>12,
           <1>13, <1>14, <1>15, <1>16, <1>17, <1>18, <1>19, <1>20, <1>21

LEMMA KeyWritten ==
    ASSUME NEW x \in {"key", "owner", "gone"}, NEW q, Body(q), Has(q, Drops)
    PROVE  Body(<<Plane!Write(x)>> \o q)
<1> DEFINE s == Plane!Write(x)
<1>1. s \in Op /\ s[1] = "write" /\ s[2] = x
  BY DEF Op, Words, Plane!Write
<1> HIDE DEF s
<1>2. Leads(s, q)
  BY <1>1 DEF Leads, Plane!Views
<1>3. Body(<<s>> \o q)
  BY <1>1, <1>2, ConsedBody DEF First
<1> QED BY <1>3 DEF s

\* Before what reloads and announces the view v.
Reloads(v, q) == Body(q) /\ Has(q, {<<"read", v>>}) /\ Has(q, {<<"notify", v>>})

LEMMA ViewWritten ==
    ASSUME NEW v \in Plane!Views, NEW q, Reloads(v, q)
    PROVE  Reloads(v, <<Plane!Write(v)>> \o q)
<1> DEFINE s == Plane!Write(v)
<1>1. s \in Op /\ s[1] = "write" /\ s[2] = v
  BY DEF Op, Words, Plane!Write, Plane!Views
<1> HIDE DEF s
<1>2. s \notin KeyWrites
  BY <1>1 DEF KeyWrites, Plane!Views
<1>3. \A w : s = <<"write", w>> => w = v
  BY <1>1
<1>4. Leads(s, q)
  BY <1>1, <1>2, <1>3 DEF Leads, Reloads
<1>5. q \in Seq(Op)
  BY DEF Reloads, Body, Sound
<1>6. Body(<<s>> \o q)
  BY <1>1, <1>4, ConsedBody DEF Reloads, First
<1>7. \A S : Has(q, S) => Has(<<s>> \o q, S)
  BY <1>1, <1>5, ConsedHas
<1> QED BY <1>6, <1>7 DEF s, Reloads

LEMMA InOp ==
    /\ Plane!Check \in Op
    /\ \A x \in {"key", "owner", "gone", "targets", "mcp", "models", "groups"} : Plane!Write(x) \in Op
    /\ \A x \in {"owner", "mcp"} : Plane!Edit(x) \in Op
    /\ \A x \in {"targets", "mcp"} : Plane!Notify(x) \in Op
    /\ Plane!Uncache \in Op /\ Plane!Drop \in Op /\ Plane!DropLogged \in Op /\ Plane!Tune \in Op
<1> USE DEF Op, Words
<1>1. Plane!Check \in Op
  BY DEF Plane!Check
<1>2. \A x \in {"key", "owner", "gone", "targets", "mcp", "models", "groups"} : Plane!Write(x) \in Op
  BY DEF Plane!Write
<1>3. \A x \in {"owner", "mcp"} : Plane!Edit(x) \in Op
  BY DEF Plane!Edit
<1>4. \A x \in {"targets", "mcp"} : Plane!Notify(x) \in Op
  BY DEF Plane!Notify
<1> QED
  BY <1>1, <1>2, <1>3, <1>4 DEF Plane!Uncache, Plane!Drop, Plane!DropLogged, Plane!Tune

\* reload_callable_target_grants and _reload_runtime_governance, and what follows.
LEMMA Reloaded ==
    ASSUME NEW q, Body(q)
    PROVE  /\ Reloads("targets", Plane!ReloadTargets \o q)
           /\ Reloads("mcp", Plane!ReloadRuntimeGovernance \o q)
           /\ \A S : Has(q, S) => Has(Plane!ReloadTargets \o q, S)
<1> DEFINE I(v) == Plane!InvalidateLocal(v)
           n(v) == Plane!Notify(v)
<1>1. ASSUME NEW v \in Plane!Views
      PROVE  /\ Reloads(v, (I(v) \o <<n(v)>>) \o q)
             /\ \A S : Has(q, S) => Has((I(v) \o <<n(v)>>) \o q, S)
  <2>1. Quiet(n(v)) /\ n(v) = <<"notify", v>> /\ n(v) \in Op
    BY QuietSteps, InOp DEF Plane!Views, Plane!Notify
  <2>2. I(v) \in Seq(Op) /\ <<n(v)>> \in Seq(Op) /\ q \in Seq(Op)
    BY <2>1 DEF Plane!InvalidateLocal, Op, Words, Plane!Views, Body, Sound
  <2>3. (I(v) \o <<n(v)>>) \o q = I(v) \o (<<n(v)>> \o q)
    BY <2>2, ConcatAssociative
  <2>4. /\ Body(<<n(v)>> \o q) /\ Has(<<n(v)>> \o q, {n(v)})
        /\ \A S : Has(q, S) => Has(<<n(v)>> \o q, S)
    BY <2>1, Then
  <2> DEFINE m == <<n(v)>> \o q
  <2> HIDE DEF m
  <2>5. /\ Body(I(v) \o m) /\ Has(I(v) \o m, {<<"read", v>>})
        /\ \A S : Has(m, S) => Has(I(v) \o m, S)
    BY <2>4, Block DEF m
  <2> QED BY <2>1, <2>3, <2>4, <2>5 DEF Reloads, m
<1> QED BY <1>1 DEF Plane!ReloadTargets, Plane!ReloadRuntimeGovernance, Plane!Views

LEMMA Reloading ==
    Reloads("targets", Plane!ReloadTargets) /\ Reloads("mcp", Plane!ReloadRuntimeGovernance)
<1>1. Plane!ReloadTargets \o <<>> = Plane!ReloadTargets
  BY DEF Plane!ReloadTargets, Plane!InvalidateLocal, Plane!Notify
<1>2. Plane!ReloadRuntimeGovernance \o <<>> = Plane!ReloadRuntimeGovernance
  BY DEF Plane!ReloadRuntimeGovernance, Plane!InvalidateLocal, Plane!Notify
<1> QED BY <1>1, <1>2, Reloaded, EmptyBody

\* _apply_runtime_config, and what follows.
LEMMA Applied ==
    ASSUME NEW q, Body(q)
    PROVE  /\ Plane!ApplyRuntimeConfig \in Seq(Op)
           /\ Body(Plane!ApplyRuntimeConfig \o q)
<1> DEFINE a == <<"models", "load">>
           b == <<"groups", "load">>
           c == <<"build", "registry">>
           I == Plane!InvalidateLocal("targets")
<1>1. Quiet(a) /\ Quiet(b) /\ Quiet(c)
  BY QuietSteps
<1>2. a \in Op /\ b \in Op /\ c \in Op
  BY <1>1 DEF Quiet
<1>3. I \in Seq(Op) /\ q \in Seq(Op)
  BY DEF Plane!InvalidateLocal, Op, Words, Body, Sound
<1>4. Plane!ApplyRuntimeConfig = <<a, b, c>> \o I
  BY DEF Plane!ApplyRuntimeConfig
<1>5. Body(I \o q)
  BY Block DEF Plane!Views
<1> HIDE DEF a, b, c, I
<1> DEFINE m == I \o q
<1>6. <<a, b, c>> \in Seq(Op) /\ <<a, b, c>> \o I \in Seq(Op)
  BY <1>2, <1>3
<1>7. (<<a, b, c>> \o I) \o q = <<a, b, c>> \o m
  BY <1>3, <1>6, ConcatAssociative
<1> HIDE DEF m
<1>8. m \in Seq(Op) /\ Body(m)
  BY <1>5 DEF m, Body, Sound
<1>9. <<a, b, c>> \o m = <<a>> \o (<<b>> \o (<<c>> \o m))
  BY <1>2, <1>8, UnfoldedThree
<1>10. Body(<<a>> \o (<<b>> \o (<<c>> \o m)))
  BY <1>1, <1>8, Then
<1> QED BY <1>4, <1>6, <1>7, <1>9, <1>10

\* reload_runtime and update_config.
LEMMA Reconfigured == Body(Plane!ReloadRuntime) /\ Body(Plane!UpdateConfig)
<1> DEFINE A == Plane!ApplyRuntimeConfig
<1>1. A \in Seq(Op) /\ \A q : Body(q) => Body(A \o q)
  BY Applied, EmptyBody
<1> HIDE DEF A
<1>2. Body(Plane!ReloadRuntime)
  <2> DEFINE g == <<"get", "config">>
             f == <<"follow", "targets">>
             e == <<"publish", "model">>
  <2>1. Quiet(g) /\ Quiet(f) /\ Quiet(e)
    BY QuietSteps
  <2>2. Plane!ReloadRuntime = (<<g>> \o A) \o <<f, e>>
    BY DEF Plane!ReloadRuntime, A
  <2> HIDE DEF g, f, e
  <2>3. g \in Op /\ f \in Op /\ e \in Op
    BY <2>1 DEF Quiet
  <2>4. <<g>> \in Seq(Op) /\ <<f, e>> \in Seq(Op) /\ <<f, e>> = <<f>> \o <<e>>
    BY <2>3, UnfoldedPair
  <2>5. Body(<<f, e>>)
    BY <2>1, <2>4, Then, Last
  <2>6. (<<g>> \o A) \o <<f, e>> = <<g>> \o (A \o <<f, e>>)
    BY <1>1, <2>4, ConcatAssociative
  <2> QED BY <1>1, <2>1, <2>2, <2>5, <2>6, Then
<1>3. Body(Plane!UpdateConfig)
  <2> DEFINE w == <<"write", "settings">>
             g == <<"get", "own">>
             u == Plane!Uncache
             f == Plane!Tune
             e == <<"publish", "config">>
  <2>1. Quiet(w) /\ Quiet(g) /\ Quiet(u) /\ Quiet(f) /\ Quiet(e)
    BY QuietSteps
  <2>2. Plane!UpdateConfig = (<<w, g, u>> \o A) \o <<f, e>>
    BY DEF Plane!UpdateConfig, A
  <2> HIDE DEF w, g, u, f, e
  <2>3. w \in Op /\ g \in Op /\ u \in Op /\ f \in Op /\ e \in Op
    BY <2>1 DEF Quiet
  <2>4. <<w, g, u>> \in Seq(Op) /\ <<f, e>> \in Seq(Op) /\ <<f, e>> = <<f>> \o <<e>>
    BY <2>3, UnfoldedPair
  <2>5. Body(<<f, e>>)
    BY <2>1, <2>4, Then, Last
  <2> DEFINE m == A \o <<f, e>>
  <2>6. Body(m)
    BY <1>1, <2>5
  <2>7. (<<w, g, u>> \o A) \o <<f, e>> = <<w, g, u>> \o m
    BY <1>1, <2>4, ConcatAssociative
  <2> HIDE DEF m
  <2>8. <<w, g, u>> \o m = <<w>> \o (<<g>> \o (<<u>> \o m))
    BY <2>3, <2>6, UnfoldedThree DEF Body, Sound
  <2>9. Body(<<w>> \o (<<g>> \o (<<u>> \o m)))
    BY <2>1, <2>6, Then
  <2> QED BY <2>2, <2>7, <2>8, <2>9
<1> QED BY <1>2, <1>3

\* The forms of the handlers.
LEMMA HandlerShape ==
    ASSUME NEW a, Quiet(a)
    PROVE  Program(<<Plane!Check>>) /\ Program(<<Plane!Check, a>>)
<1>1. Plane!Check \in Op /\ a \in Op
  BY InOp DEF Quiet
<1>2. <<Plane!Check>> \o <<>> = <<Plane!Check>> /\ <<Plane!Check, a>> = <<Plane!Check>> \o <<a>>
  BY <1>1, UnfoldedPair
<1> QED BY <1>2, Checked, EmptyBody, Last

LEMMA Handlers1 ==
    ASSUME NEW a \in Op, NEW q, Body(q), Body(<<a>> \o q)
    PROVE  Program(<<Plane!Check, a>> \o q)
<1>1. <<Plane!Check, a>> \o q = <<Plane!Check>> \o (<<a>> \o q)
  BY InOp, UnfoldedTwo DEF Body, Sound
<1> QED BY <1>1, Checked

LEMMA Handlers2 ==
    ASSUME NEW a \in Op, NEW b \in Op, NEW q, Body(q), Body(<<a>> \o (<<b>> \o q))
    PROVE  Program(<<Plane!Check, a, b>> \o q)
<1>1. q \in Seq(Op) /\ Plane!Check \in Op
  BY InOp DEF Body, Sound
<1>2. <<Plane!Check, a, b>> \o q = <<Plane!Check>> \o (<<a>> \o (<<b>> \o q))
  BY <1>1, UnfoldedThree
<1> QED BY <1>2, Checked

LEMMA KeyPrograms == \A p \in Plane!KeyHandlers : Program(p)
<1> DEFINE C == Plane!Check
           W(x) == Plane!Write(x)
           T == Plane!ReloadTargets
<1>1. Program(<<C>>)
  BY HandlerShape, QuietSteps
<1>2. ASSUME NEW x \in {"key", "owner", "gone"}, NEW d \in Drops
      PROVE  Program(<<C, W(x), d>>)
  <2>1. Quiet(d) /\ d \in Op
    BY QuietSteps, InOp DEF Drops
  <2>2. Body(<<d>>) /\ Has(<<d>>, Drops)
    BY <2>1, Last DEF Has
  <2>3. Body(<<W(x)>> \o <<d>>)
    BY <2>2, KeyWritten
  <2>4. <<C, W(x), d>> = <<C, W(x)>> \o <<d>>
    BY <2>1, InOp, UnfoldedLast
  <2> QED BY <2>2, <2>3, <2>4, InOp, Handlers1
<1>3. Program(<<C, Plane!Edit("owner")>>)
  BY HandlerShape, QuietSteps
<1>4. Program(<<C, Plane!Edit("owner"), W("targets")>> \o T)
  <2>1. Body(T) /\ Body(<<W("targets")>> \o T)
    BY Reloading, ViewWritten DEF Reloads, Plane!Views
  <2>2. Body(<<Plane!Edit("owner")>> \o (<<W("targets")>> \o T))
    BY <2>1, QuietSteps, Then
  <2> QED BY <2>1, <2>2, InOp, Handlers2
<1>5. Program((<<C, W("owner"), W("targets")>> \o T) \o <<Plane!DropLogged>>)
  <2> DEFINE d == Plane!DropLogged
             m == T \o <<d>>
  <2>1. d \in Op /\ d \in Drops /\ Quiet(d)
    BY InOp, QuietSteps DEF Drops
  <2>2. Body(<<d>>) /\ Has(<<d>>, Drops)
    BY <2>1, Last DEF Has
  <2>3. Reloads("targets", m) /\ Has(m, Drops)
    BY <2>2, Reloaded
  <2>4. (<<C, W("owner"), W("targets")>> \o T) \o <<d>> = <<C, W("owner"), W("targets")>> \o m
    <3>1. T \in Seq(Op) /\ <<d>> \in Seq(Op)
      BY <2>2, Reloading DEF Reloads, Body, Sound
    <3>2. C \in Op /\ W("owner") \in Op /\ W("targets") \in Op
      BY InOp
    <3> HIDE DEF C, W, T
    <3>3. <<C, W("owner"), W("targets")>> \in Seq(Op)
      BY <3>2
    <3> QED BY <3>1, <3>3, ConcatAssociative
  <2> HIDE DEF m
  <2>5. Body(m) /\ Body(<<W("targets")>> \o m) /\ m \in Seq(Op)
    BY <2>3, ViewWritten DEF Reloads, Plane!Views, Body, Sound
  <2>6. Has(<<W("targets")>> \o m, Drops)
    BY <2>3, <2>5, InOp, ConsedHas
  <2>7. Body(<<W("owner")>> \o (<<W("targets")>> \o m))
    BY <2>5, <2>6, KeyWritten
  <2> QED BY <2>4, <2>5, <2>7, InOp, Handlers2
<1> QED
  BY <1>1, <1>2, <1>3, <1>4, <1>5, Zenon DEF Drops, Plane!KeyHandlers, Plane!CreateKey,
     Plane!CreateTeam, Plane!CreateServiceAccount, Plane!UpdateKey, Plane!RegenerateKey,
     Plane!RevokeKey, Plane!DeleteKey, Plane!UpdateUser, Plane!UpdateTeam,
     Plane!DeleteTeam, Plane!RemoveTeamMember, Plane!UpdateScopedGuardrails,
     Plane!DeleteScopedGuardrails, Plane!CreateOrganization, Plane!UpdateOrganization,
     Plane!SyncOrgBindings

LEMMA GovernancePrograms == \A p \in Plane!GovernanceHandlers : Program(p)
<1> DEFINE C == Plane!Check
           W(x) == Plane!Write(x)
           T == Plane!ReloadTargets
           M == Plane!ReloadRuntimeGovernance
<1>1. Program(<<C, Plane!Edit("mcp")>>)
  BY HandlerShape, QuietSteps
<1>2. /\ Reloads("targets", T) /\ Reloads("targets", <<W("targets")>> \o T)
      /\ Reloads("targets", <<W("targets")>> \o (<<W("targets")>> \o T))
  BY Reloading, ViewWritten DEF Plane!Views
<1>3. /\ Reloads("mcp", M) /\ Reloads("mcp", <<W("mcp")>> \o M)
      /\ Reloads("mcp", <<W("mcp")>> \o (<<W("mcp")>> \o M))
  BY Reloading, ViewWritten DEF Plane!Views
<1>4. Program(<<C, W("targets")>> \o T) /\ Program(<<C, W("mcp")>> \o M)
  BY <1>2, <1>3, InOp, Handlers1 DEF Reloads
<1>5. Program(<<C, W("targets"), W("targets")>> \o T) /\ Program(<<C, W("mcp"), W("mcp")>> \o M)
  BY <1>2, <1>3, InOp, Handlers2 DEF Reloads
<1>6. Program((((<<C>> \o <<W("targets"), W("targets")>>) \o <<W("targets")>>) \o <<W("targets")>>) \o T)
  <2>1. C \in Op /\ W("targets") \in Op /\ T \in Seq(Op)
    BY InOp, <1>2 DEF Reloads, Body, Sound
  <2> DEFINE w == W("targets")
             a == <<C>> \o <<w, w>>
             m == <<w>> \o T
             n == <<w>> \o m
  <2>2. /\ a \in Seq(Op) /\ <<w>> \in Seq(Op) /\ a \o <<w>> \in Seq(Op)
        /\ m \in Seq(Op) /\ n \in Seq(Op) /\ <<C>> \in Seq(Op) /\ <<w, w>> \in Seq(Op)
    <3> HIDE DEF C, W, T
    <3> QED BY <2>1
  <2>3. ((a \o <<w>>) \o <<w>>) \o T = (a \o <<w>>) \o m
    BY <2>1, <2>2, ConcatAssociative
  <2> HIDE DEF m
  <2>4. (a \o <<w>>) \o m = a \o n
    BY <2>2, ConcatAssociative
  <2> HIDE DEF n
  <2>5. a \o n = <<C>> \o (<<w, w>> \o n)
    BY <2>2, ConcatAssociative
  <2>6. <<w, w>> \o n = <<w>> \o (<<w>> \o n)
    BY <2>1, <2>2, UnfoldedTwo
  <2>7. Body(<<w>> \o (<<w>> \o n))
    BY <1>2, ViewWritten DEF Plane!Views, m, n, Reloads
  <2> QED BY <2>3, <2>4, <2>5, <2>6, <2>7, Checked
<1> QED
  BY <1>1, <1>4, <1>5, <1>6, Zenon DEF Plane!GovernanceHandlers, Plane!TargetBindingRow,
     Plane!RouteGroupBindingRow, Plane!AccessGroupBindingRow, Plane!ScopePolicyRow,
     Plane!McpServerRow, Plane!McpServerStatus, Plane!McpBindingRow,
     Plane!McpScopePolicyRow, Plane!McpToolPolicyRow, Plane!SyncScopeBindings,
     Plane!SyncScopeAccessGroupBindings, Plane!SyncScopePolicy,
     Plane!SyncScopeAssetAccess, Plane!UpdateKeyAssetAccess, Plane!UpdateTeamAssetAccess,
     Plane!UpdateUserAssetAccess, Plane!UpdateOrganizationAssetAccess,
     Plane!UpsertCallableTargetBinding, Plane!DeleteCallableTargetBinding,
     Plane!UpsertAccessGroupBinding, Plane!DeleteAccessGroupBinding,
     Plane!UpsertScopePolicy, Plane!DeleteScopePolicy, Plane!BackfillCallableTargets,
     Plane!UpsertRouteGroupBinding, Plane!DeleteRouteGroupBinding, Plane!CreateMcpServer,
     Plane!UpdateMcpServer, Plane!DeleteMcpServer, Plane!UpsertMcpBinding,
     Plane!DeleteMcpBinding, Plane!UpsertMcpScopePolicy, Plane!DeleteMcpScopePolicy,
     Plane!UpsertMcpToolPolicy, Plane!DeleteMcpToolPolicy, Plane!BackfillMcp,
     Plane!RefreshMcpCapabilities, Plane!HealthCheckMcpServer

LEMMA RuntimePrograms == \A p \in Plane!RuntimeHandlers : Program(p)
<1> DEFINE C == Plane!Check
           W(x) == Plane!Write(x)
           U == Plane!Uncache
           T == Plane!ReloadTargets
           R == Plane!ReloadRuntime
<1>1. Program(<<C>>)
  BY HandlerShape, QuietSteps
<1>2. Body(R) /\ R \in Seq(Op) /\ Body(<<U>> \o R) /\ Body(<<W("models")>> \o R)
  BY Reconfigured, Then, QuietSteps DEF Body, Sound
<1>3. Body(<<W("models")>> \o (<<U>> \o R)) /\ Body(<<W("groups")>> \o (<<U>> \o R))
  BY <1>2, Then, QuietSteps
<1>4. Program(<<C>> \o (<<W("models"), U>> \o R))
  <2>1. <<W("models"), U>> \o R = <<W("models")>> \o (<<U>> \o R)
    BY <1>2, InOp, UnfoldedTwo
  <2> QED BY <1>3, <2>1, Checked
<1>5. Program(<<C, W("models")>> \o R)
  BY <1>2, InOp, Handlers1
<1>6. Program(<<C, W("groups"), U>> \o R)
  BY <1>2, <1>3, InOp, Handlers2
<1>7. Program(<<C>> \o Plane!UpdateConfig)
  BY Reconfigured, Checked
<1>8. Program(((<<C, W("groups"), W("targets")>> \o T) \o <<U>>) \o R)
  <2> DEFINE a == <<C, W("groups"), W("targets")>>
             m == <<U>> \o R
             n == T \o m
  <2>1. C \in Op /\ W("groups") \in Op /\ W("targets") \in Op /\ U \in Op /\ T \in Seq(Op)
    BY InOp, Reloading DEF Reloads, Body, Sound
  <2>2. /\ a \in Seq(Op) /\ <<U>> \in Seq(Op) /\ a \o T \in Seq(Op) /\ m \in Seq(Op)
    <3> HIDE DEF C, W, T, U, R
    <3> QED BY <1>2, <2>1
  <2>3. ((a \o T) \o <<U>>) \o R = (a \o T) \o m
    BY <1>2, <2>2, ConcatAssociative
  <2>4. Body(m)
    BY <1>2
  <2> HIDE DEF m
  <2>5. (a \o T) \o m = a \o n
    BY <2>1, <2>2, ConcatAssociative
  <2>6. Reloads("targets", n)
    BY <2>4, Reloaded
  <2> HIDE DEF n
  <2>7. Body(n) /\ Body(<<W("targets")>> \o n)
    BY <2>6, ViewWritten DEF Plane!Views, Reloads
  <2>8. Body(<<W("groups")>> \o (<<W("targets")>> \o n))
    BY <2>7, Then, QuietSteps
  <2> QED BY <2>1, <2>3, <2>5, <2>7, <2>8, Handlers2
<1> QED
  BY <1>1, <1>4, <1>5, <1>6, <1>7, <1>8, Zenon DEF Plane!RuntimeHandlers,
     Plane!DeploymentRow, Plane!CredentialRow, Plane!GroupRow, Plane!GroupMemberRow,
     Plane!TargetBindingRow, Plane!AddModel, Plane!ReplaceModel, Plane!RemoveModel,
     Plane!CreateModel, Plane!UpdateModel, Plane!DeleteModel, Plane!CreateNamedCredential,
     Plane!UpdateNamedCredential, Plane!DeleteNamedCredential, Plane!ConvertInlineGroup,
     Plane!CreateRouteGroup, Plane!UpdateRouteGroup, Plane!DeleteRouteGroup,
     Plane!UpsertRouteGroupMember, Plane!DeleteRouteGroupMember,
     Plane!PublishRouteGroupPolicy, Plane!PublishRouteGroupPolicyV2,
     Plane!RollbackRouteGroupPolicy, Plane!UpdateRouting, Plane!UpdateSettings,
     Plane!UpdateBatchSchedulerMode

LEMMA AllPrograms ==
    ASSUME Families \subseteq {"keys", "governance", "scope policies", "runtime"}
    PROVE  \A p \in Plane!Programs : Program(p)
<1>1. {Plane!UpsertScopePolicy, Plane!DeleteScopePolicy} \subseteq Plane!GovernanceHandlers
  BY DEF Plane!GovernanceHandlers
<1> QED BY <1>1, KeyPrograms, GovernancePrograms, RuntimePrograms DEF Plane!Programs

-----------------------------------------------------------------------------
(* The invariant *)

Job == [todo : Seq(Op), snap : BOOLEAN, models : BOOLEAN, groups : BOOLEAN, config : BOOLEAN]

\* A task that has passed its check has the step x ahead.
Pledges(p, x) == p # <<>> /\ p[1][1] # "check" /\ \E k \in 1..Len(p) : p[k] = x

Views == Plane!Views
Tasks == Plane!Tasks
Marks == Drops \cup {<<"read", v>> : v \in Views} \cup {<<"notify", v>> : v \in Views}

\* A flush to be started and a message to be applied are lists of one step.
Alone(p) ==
    p # <<>> /\ p[1][1] \in {"take", "load", "apply"}
        => Len(p) = 1 /\ (p[1][1] # "take" => p[1][2] \in {"model", "config"})

\* The flush only reloads the snapshots.
ReloadOnly(p) == \A k \in 1..Len(p) : p[k][1] \notin {"groups", "query", "follow", "load", "apply"}

\* Starts(p, op): the next step is an op.
Starts(p, op) == p # <<>> /\ p[1][1] = op

ListOK(t, p) ==
    /\ Sound(t, p) /\ Alone(p)
    /\ t = "flush" => ReloadOnly(p)
    /\ Starts(p, "take") => t = "flush"

PlaneShape ==
    /\ task \in [Instances -> [Tasks -> Job]]
    /\ models \in [Instances -> BOOLEAN] /\ config \in [Instances -> BOOLEAN]
    /\ snap \in [Instances -> [Views -> BOOLEAN]]
    /\ lock \in [Instances -> Tasks \cup {"none"}]
    /\ inbox \in [Instances -> SUBSET Words] /\ queued \in [Instances -> SUBSET Views]
    /\ missed \in [Instances -> SUBSET (Words \cup {"runtime"})]
    /\ \A i \in Instances, t \in Tasks : ListOK(t, task[i][t].todo)

\* Reloads of an instance hold its lock; a flush has something to take.
Orderly ==
    \A i \in Instances, t \in Tasks :
        /\ Starts(task[i][t].todo, "read") \/ Starts(task[i][t].todo, "install") => lock[i] = t
        /\ Starts(task[i][t].todo, "take") => queued[i] # {}

AuthPledged ==
    auth = "stale" => missedAuth \/ \E i \in Instances : \E x \in Drops : Pledges(task[i]["admin"].todo, x)

Installs(q, v) == q.todo # <<>> /\ q.todo[1] = <<"install", v>>

Announced(i, v) ==
    \/ v \in missed[i] \cup inbox[i] \cup queued[i]
    \/ \E j \in Instances \ {i} : Pledges(task[j]["admin"].todo, <<"notify", v>>)

Pledged(i, v) ==
    \/ Announced(i, v)
    \/ \E t \in Tasks : \/ Pledges(task[i][t].todo, <<"read", v>>)
                        \/ Installs(task[i][t], v) /\ task[i][t].snap

ViewsPledged ==
    \A i \in Instances, v \in Views :
        ~snap[i][v] \/ (\E t \in Tasks : Installs(task[i][t], v) /\ ~task[i][t].snap)
            => Pledged(i, v)

PlaneInv == PlaneShape /\ Orderly /\ AuthPledged /\ ViewsPledged

-----------------------------------------------------------------------------
LEMMA Tailed ==
    ASSUME NEW p \in Seq(Op), p # <<>>
    PROVE  /\ Tail(p) \in Seq(Op) /\ Len(p) \in Nat \ {0} /\ Len(Tail(p)) = Len(p) - 1
           /\ Head(p) = p[1] /\ p[1] \in Op
           /\ \A k \in 1..Len(Tail(p)) : k + 1 \in 2..Len(p) /\ Tail(p)[k] = p[k + 1]
           /\ \A k \in 2..Len(p) : k - 1 \in 1..Len(Tail(p)) /\ p[k] = Tail(p)[k - 1]
OBVIOUS

LEMMA TailSound ==
    ASSUME NEW t, NEW p, Sound(t, p), p # <<>>
    PROVE  Sound(t, Tail(p))
<1> DEFINE q == Tail(p)
<1>1. /\ q \in Seq(Op) /\ Len(p) \in Nat \ {0} /\ Len(q) = Len(p) - 1
      /\ \A k \in 1..Len(q) : k + 1 \in 2..Len(p) /\ q[k] = p[k + 1]
      /\ \A k \in 2..Len(p) : k - 1 \in 1..Len(q) /\ p[k] = q[k - 1]
  BY Tailed DEF Sound
<1> HIDE DEF q
<1>2. ASSUME NEW k \in 1..Len(q), NEW S, \E m \in ((k + 1) + 1)..Len(p) : p[m] \in S
      PROVE  \E m \in (k + 1)..Len(q) : q[m] \in S
  BY <1>1, <1>2
<1>3. ASSUME NEW k \in 1..Len(q)
      PROVE  /\ q[k] \in KeyWrites => \E m \in (k + 1)..Len(q) : q[m] \in Drops
             /\ \A v \in Plane!Views : q[k] = <<"write", v>> =>
                  /\ \E m \in (k + 1)..Len(q) : q[m] = <<"read", v>>
                  /\ \E m \in (k + 1)..Len(q) : q[m] = <<"notify", v>>
  <2>1. q[k] = p[k + 1] /\ k + 1 \in 1..Len(p)
    BY <1>1
  <2>2. q[k] \in KeyWrites => \E m \in (k + 1)..Len(q) : q[m] \in Drops
    BY <1>2, <2>1 DEF Sound, Followed
  <2>3. ASSUME NEW v \in Plane!Views, q[k] = <<"write", v>>
        PROVE  /\ \E m \in (k + 1)..Len(q) : q[m] = <<"read", v>>
               /\ \E m \in (k + 1)..Len(q) : q[m] = <<"notify", v>>
    <3>1. /\ \E m \in ((k + 1) + 1)..Len(p) : p[m] \in {<<"read", v>>}
          /\ \E m \in ((k + 1) + 1)..Len(p) : p[m] \in {<<"notify", v>>}
      BY <2>1, <2>3 DEF Sound, Followed
    <3>2. /\ \E m \in (k + 1)..Len(q) : q[m] \in {<<"read", v>>}
          /\ \E m \in (k + 1)..Len(q) : q[m] \in {<<"notify", v>>}
      BY ONLY <1>2, <3>1
    <3> QED BY <3>2
  <2> QED BY <2>2, <2>3
<1>4. ASSUME NEW k \in 1..Len(q)
      PROVE  /\ q[k] # <<"edit", "gone">>
             /\ q[k][1] = "read" => k < Len(q) /\ q[k + 1] = <<"install", q[k][2]>>
             /\ k > 1 => /\ q[k][1] \notin First
                         /\ q[k][1] = "install" => q[k - 1] = <<"read", q[k][2]>>
                         /\ q[k][1] = "read" => \/ q[k - 1] = <<"lock", q[k][2]>>
                                                \/ /\ t = "flush" /\ q[k - 1][1] = "install"
                                                   /\ q[k] = <<"read", "mcp">>
  <2>1. /\ q[k] = p[k + 1] /\ k + 1 \in 1..Len(p) /\ k + 1 > 1
        /\ k > 1 => q[k - 1] = p[(k + 1) - 1]
        /\ k + 1 < Len(p) => k < Len(q) /\ q[k + 1] = p[(k + 1) + 1]
    BY <1>1
  <2> DEFINE j == k + 1
  <2>2. /\ p[j] # <<"edit", "gone">>
        /\ p[j][1] = "read" => j < Len(p) /\ p[j + 1] = <<"install", p[j][2]>>
        /\ p[j][1] \notin First
        /\ p[j][1] = "install" => p[j - 1] = <<"read", p[j][2]>>
        /\ p[j][1] = "read" => \/ p[j - 1] = <<"lock", p[j][2]>>
                               \/ /\ t = "flush" /\ p[j - 1][1] = "install"
                                  /\ p[j] = <<"read", "mcp">>
    <3> HIDE DEF j
    <3> QED BY <2>1 DEF Sound, Chained, j
  <2> QED BY <2>1, <2>2
<1>5. Followed(q) /\ Chained(t, q)
  BY <1>3, <1>4 DEF Followed, Chained
<1> QED BY <1>1, <1>5 DEF Sound, q

\* What a task still has to do after a step.
LEMMA RestKeeps ==
    ASSUME NEW t, NEW p, ListOK(t, p), p # <<>>
    PROVE  /\ ListOK(t, Tail(p))
           /\ Tail(p) # <<>> => Tail(p)[1][1] \notin First
           /\ Starts(Tail(p), "install") => p[1][1] = "read"
           /\ Starts(Tail(p), "read") => \/ p[1][1] = "lock"
                                        \/ /\ t = "flush" /\ p[1][1] = "install"
                                           /\ Tail(p)[1] = <<"read", "mcp">>
           /\ p[1][1] = "read" => Len(p) > 1 /\ Tail(p)[1] = <<"install", p[1][2]>>
           /\ \A x : x # p[1] /\ Pledges(p, x) => Pledges(Tail(p), x)
<1> DEFINE q == Tail(p)
<1>1. /\ q \in Seq(Op) /\ Len(p) \in Nat \ {0} /\ Len(q) = Len(p) - 1
      /\ \A k \in 1..Len(q) : k + 1 \in 2..Len(p) /\ q[k] = p[k + 1]
      /\ \A k \in 2..Len(p) : k - 1 \in 1..Len(q) /\ p[k] = q[k - 1]
  BY Tailed DEF ListOK, Sound
<1>2. Sound(t, q)
  BY TailSound DEF ListOK
<1>8. p \in Seq(Op)
  BY DEF ListOK, Sound
<1> HIDE DEF q
<1>3. q # <<>> => q[1] = p[2] /\ 2 \in 1..Len(p)
  BY <1>1
<1>4. q # <<>> => q[1][1] \notin First
  BY <1>3 DEF ListOK, Sound, Chained
<1>5. /\ Starts(q, "install") => p[1][1] = "read"
      /\ Starts(q, "read") => \/ p[1][1] = "lock"
                             \/ /\ t = "flush" /\ p[1][1] = "install"
                                /\ q[1] = <<"read", "mcp">>
  BY <1>3 DEF ListOK, Sound, Chained, Starts
<1>6. p[1][1] = "read" => Len(p) > 1 /\ q[1] = <<"install", p[1][2]>>
  BY <1>1 DEF ListOK, Sound, Chained
<1>7. ASSUME NEW x, x # p[1], Pledges(p, x)
      PROVE  Pledges(q, x)
  <2>3. PICK k \in 1..Len(p) : p[k] = x
    BY <1>7 DEF Pledges
  <2>4. k \in 2..Len(p)
    BY <1>1, <1>7, <2>3
  <2>1. \E m \in 1..Len(q) : q[m] = x
    BY <1>1, <2>3, <2>4
  <2>2. q # <<>>
    BY <1>1, <2>1
  <2> QED BY <1>4, <2>1, <2>2 DEF Pledges, First
<1>9. t = "flush" => ReloadOnly(q)
  BY <1>1 DEF ListOK, ReloadOnly
<1> QED BY <1>2, <1>4, <1>5, <1>6, <1>7, <1>9 DEF ListOK, Starts, Alone, First, q

LEMMA Continued ==
    ASSUME NEW q \in Job, q.todo # <<>>
    PROVE  /\ Plane!Continue(q) \in Job
           /\ Plane!Continue(q).todo = Tail(q.todo)
           /\ Plane!Continue(q).snap = (Len(q.todo) # 1 /\ q.snap)
<1>0. q.todo \in Seq(Op)
  BY DEF Job
<1>2. Tail(q.todo) \in Seq(Op) /\ Len(q.todo) \in Nat /\ Len(Tail(q.todo)) = Len(q.todo) - 1
  BY <1>0, Tailed
<1>3. Tail(q.todo) # <<>> => Len(Tail(q.todo)) \in Nat \ {0}
  BY <1>2, EmptySeq
<1>1. Tail(q.todo) \in Seq(Op) /\ (Len(q.todo) = 1 => Tail(q.todo) = <<>>)
  BY <1>2, <1>3
<1> QED BY <1>1 DEF Job, Plane!Continue, Plane!IdleTask

\* Task t of i becomes r.
Turns(i, t, r) ==
    /\ r \in Job /\ task' \in [Instances -> [Tasks -> Job]]
    /\ task'[i][t] = r
    /\ \A j \in Instances, u \in Tasks : j # i \/ u # t => task'[j][u] = task[j][u]

LEMMA Turned ==
    ASSUME PlaneShape, NEW i \in Instances, NEW t \in Tasks, NEW r \in Job,
           task' = [task EXCEPT ![i][t] = r]
    PROVE  Turns(i, t, r)
BY DEF PlaneShape, Turns

LEMMA TurnedTodo ==
    ASSUME PlaneShape, NEW i \in Instances, NEW t \in Tasks, NEW p \in Seq(Op),
           task' = [task EXCEPT ![i][t].todo = p]
    PROVE  \E r \in Job : Turns(i, t, r) /\ r.todo = p
<1> DEFINE q == task[i][t]
           r == [q EXCEPT !.todo = p]
<1>1. q \in Job
  BY DEF PlaneShape
<1>2. task' = [task EXCEPT ![i][t] = r]
  OBVIOUS
<1> HIDE DEF q
<1>3. r \in Job /\ r.todo = p
  BY <1>1 DEF Job
<1> HIDE DEF r
<1>4. Turns(i, t, r)
  BY <1>2, <1>3, Turned
<1> QED BY <1>3, <1>4

\* What most steps leave as it is.
Quietly ==
    /\ snap' = snap /\ lock' = lock /\ inbox' = inbox /\ queued' = queued
    /\ models' \in [Instances -> BOOLEAN] /\ config' \in [Instances -> BOOLEAN]
    /\ missed' \in [Instances -> SUBSET (Words \cup {"runtime"})]
    /\ \A j \in Instances, v \in Views : v \in missed[j] => v \in missed'[j]

Steady == auth' = auth /\ missedAuth' = missedAuth /\ Quietly

\* The list p may become q without a promise about the views being lost ...
Passes(t, p, q) ==
    /\ ListOK(t, q)
    /\ q # <<>> => q[1][1] \notin {"take", "read", "install"}
    /\ p # <<>> => p[1][1] # "install"
    /\ \A x \in Marks \ Drops : Pledges(p, x) => Pledges(q, x)

\* ... or any promise.
Proceeds(t, p, q) == Passes(t, p, q) /\ \A x \in Drops : Pledges(p, x) => Pledges(q, x)

LEMMA PassKeeps ==
    ASSUME PlaneInv, NEW i \in Instances, NEW t \in Tasks, NEW r, Turns(i, t, r), Quietly,
           Passes(t, task[i][t].todo, r.todo)
    PROVE  PlaneShape' /\ Orderly' /\ ViewsPledged'
<1>1. \A j \in Instances, u \in Tasks :
        /\ ListOK(u, task'[j][u].todo)
        /\ \A op \in {"take", "read", "install"} :
             Starts(task'[j][u].todo, op) => Starts(task[j][u].todo, op)
        /\ \A x \in Marks \ Drops : Pledges(task[j][u].todo, x) => Pledges(task'[j][u].todo, x)
  BY DEF PlaneInv, PlaneShape, Turns, Passes, Starts
<1>2. \A j \in Instances, u \in Tasks : \A v :
        /\ Installs(task[j][u], v) => task'[j][u] = task[j][u]
        /\ Installs(task'[j][u], v) => task'[j][u] = task[j][u]
  BY DEF Turns, Passes, Installs
<1>3. PlaneShape'
  BY <1>1 DEF PlaneInv, PlaneShape, Turns, Quietly
<1>4. Orderly'
  BY <1>1 DEF PlaneInv, Orderly, Quietly
<1>6. ASSUME NEW j \in Instances, NEW v \in Views, Pledged(j, v)
      PROVE  Pledged(j, v)'
  <2>1. <<"read", v>> \in Marks \ Drops /\ <<"notify", v>> \in Marks \ Drops /\ "admin" \in Tasks
    BY DEF Marks, Drops, Plane!Drop, Plane!DropLogged, Tasks, Plane!Tasks
  <2>2. Announced(j, v) => Announced(j, v)'
    BY <1>1, <2>1 DEF Announced, Quietly
  <2> QED BY <1>1, <1>2, <1>6, <2>1, <2>2 DEF Pledged
<1>7. ViewsPledged'
  BY <1>2, <1>6 DEF PlaneInv, ViewsPledged, Quietly
<1> QED BY <1>3, <1>4, <1>7

LEMMA StepKeeps ==
    ASSUME PlaneInv, NEW i \in Instances, NEW t \in Tasks, NEW r, Turns(i, t, r), Steady,
           Proceeds(t, task[i][t].todo, r.todo)
    PROVE  PlaneInv'
<1>1. PlaneShape' /\ Orderly' /\ ViewsPledged'
  BY PassKeeps DEF Steady, Proceeds
<1>2. \A j \in Instances : \A x \in Drops :
        Pledges(task[j]["admin"].todo, x) => Pledges(task'[j]["admin"].todo, x)
  BY DEF Turns, Proceeds, Tasks, Plane!Tasks
<1>3. AuthPledged'
  BY <1>2 DEF PlaneInv, AuthPledged, Steady
<1> QED BY <1>1, <1>3 DEF PlaneInv

LEMMA Starting ==
    ASSUME PlaneShape, NEW i \in Instances, NEW t \in Tasks, NEW op
    PROVE  /\ task[i][t] \in Job /\ task[i][t].todo \in Seq(Op) /\ ListOK(t, task[i][t].todo)
           /\ Plane!At(i, t, op) <=> Starts(task[i][t].todo, op)
           /\ task[i][t].todo # <<>> => /\ Plane!What(i, t) = task[i][t].todo[1][2]
                                       /\ Head(task[i][t].todo) = task[i][t].todo[1]
<1> DEFINE p == task[i][t].todo
<1>1. task[i][t] \in Job /\ p \in Seq(Op) /\ ListOK(t, p)
  BY DEF PlaneShape, Job
<1>2. p # <<>> => Head(p) = p[1]
  BY <1>1
<1> QED BY <1>1, <1>2 DEF Plane!At, Plane!What, Starts

LEMMA IdleKeeps ==
    ASSUME PlaneInv, task' = task, Steady
    PROVE  PlaneInv'
<1>1. PlaneShape' /\ Orderly' /\ AuthPledged'
  BY DEF PlaneInv, PlaneShape, Orderly, AuthPledged, Steady, Quietly
<1>2. \A i \in Instances, v \in Views : Pledged(i, v) => Pledged(i, v)'
  BY DEF Pledged, Announced, Steady, Quietly
<1>3. ViewsPledged'
  BY <1>2 DEF PlaneInv, ViewsPledged, Steady, Quietly
<1> QED BY <1>1, <1>3 DEF PlaneInv

\* A step that no promise depends on.
LEMMA DoneProceeds ==
    ASSUME NEW t, NEW p, ListOK(t, p), p # <<>>,
           p[1][1] \notin {"drop", "lock", "read", "install", "notify"}
    PROVE  Proceeds(t, p, Tail(p))
<1>1. \A x \in Marks : x # p[1]
  BY DEF Marks, Drops, Plane!Drop, Plane!DropLogged
<1>2. \A x \in Marks : Pledges(p, x) => Pledges(Tail(p), x)
  BY <1>1, RestKeeps
<1> QED BY <1>2, RestKeeps DEF Proceeds, Passes, Starts, First, Marks

LEMMA DoneKeeps ==
    ASSUME PlaneInv, NEW i \in Instances, NEW t \in Tasks, NEW op, Plane!At(i, t, op),
           op \notin {"drop", "lock", "read", "install", "notify"},
           NEW r \in Job, r.todo = Tail(task[i][t].todo), task' = [task EXCEPT ![i][t] = r], Steady
    PROVE  PlaneInv'
<1>1. PlaneShape
  BY DEF PlaneInv
<1>2. Proceeds(t, task[i][t].todo, r.todo)
  BY <1>1, Starting, DoneProceeds DEF Starts
<1> QED BY <1>1, <1>2, Turned, StepKeeps

LEMMA DoneStep ==
    ASSUME PlaneInv, NEW i \in Instances, NEW t \in Tasks, NEW op, Plane!At(i, t, op),
           op \notin {"drop", "lock", "read", "install", "notify"}, Plane!Done(i, t), Steady
    PROVE  PlaneInv'
<1>1. PlaneShape
  BY DEF PlaneInv
<1> DEFINE r == Plane!Continue(task[i][t])
<1>2. r \in Job /\ r.todo = Tail(task[i][t].todo)
  BY <1>1, Starting, Continued DEF Starts
<1>3. task' = [task EXCEPT ![i][t] = r]
  BY DEF Plane!Done
<1> HIDE DEF r
<1> QED BY <1>2, <1>3, DoneKeeps

LEMMA UncacheGroupsKeeps ==
    ASSUME PlaneInv, NEW i \in Instances, NEW t \in Tasks, NEW ok, Plane!UncacheGroups(i, t, ok)
    PROVE  PlaneInv'
<1>1. Plane!At(i, t, "uncache") /\ Plane!Done(i, t)
  BY DEF Plane!UncacheGroups
<1>2. Steady
  BY DEF Plane!UncacheGroups, PlaneInv, PlaneShape, Steady, Quietly, Views,
     Plane!authVars, Plane!runtimeVars, Plane!channelVars
<1> QED BY <1>1, <1>2, DoneStep

LEMMA StoreGroupsKeeps ==
    ASSUME PlaneInv, NEW i \in Instances, NEW t \in Tasks, NEW ok, Plane!StoreGroups(i, t, ok)
    PROVE  PlaneInv'
<1>1. Plane!At(i, t, "store") /\ Plane!Done(i, t)
  BY DEF Plane!StoreGroups
<1>2. Steady
  BY DEF Plane!StoreGroups, PlaneInv, PlaneShape, Steady, Quietly, Views, Plane!authVars,
     Plane!runtimeVars, Plane!channelVars
<1> QED BY <1>1, <1>2, DoneStep

LEMMA InstallMisses ==
    ASSUME PlaneShape, NEW i \in Instances, NEW built, Plane!Install(i, built)
    PROVE  /\ missed' \in [Instances -> SUBSET (Words \cup {"runtime"})]
           /\ \A j \in Instances, v \in Views : v \in missed[j] => v \in missed'[j]
<1>1. \E m \in {missed[i] \ {"runtime"}, missed[i] \cup {"runtime"}, missed[i]} :
        missed' = [missed EXCEPT ![i] = m]
  BY DEF Plane!Install
<1>2. /\ missed \in [Instances -> SUBSET (Words \cup {"runtime"})] /\ "runtime" \notin Views
      /\ Views \subseteq Words
  BY DEF PlaneShape, Views, Plane!Views, Words
<1>3. PICK m \in SUBSET (Words \cup {"runtime"}) :
        /\ missed' = [missed EXCEPT ![i] = m]
        /\ \A v \in Views : v \in missed[i] => v \in m
  BY <1>1, <1>2
<1> QED BY <1>2, <1>3

LEMMA TuneSchedulerKeeps ==
    ASSUME PlaneInv, NEW i \in Instances, NEW t \in Tasks, Plane!TuneScheduler(i, t)
    PROVE  PlaneInv'
<1>1. Plane!At(i, t, "tune") /\ Plane!Done(i, t)
  BY DEF Plane!TuneScheduler
<1>2. PICK built : Plane!Install(i, built)
  BY DEF Plane!TuneScheduler
<1>3. Steady
  BY <1>2, InstallMisses DEF Plane!TuneScheduler, PlaneInv, PlaneShape, Steady, Quietly,
     Plane!authVars, Plane!runtimeVars, Plane!channelVars
<1> QED BY <1>1, <1>3, DoneStep

LEMMA PublishEventKeeps ==
    ASSUME PlaneInv, NEW i \in Instances, NEW t \in Tasks, Plane!PublishEvent(i, t)
    PROVE  PlaneInv'
<1>1. Plane!At(i, t, "publish") /\ Plane!Done(i, t)
  BY DEF Plane!PublishEvent
<1>2. Steady
  BY DEF Plane!PublishEvent, PlaneInv, PlaneShape, Steady, Quietly, Views, Plane!authVars,
     Plane!runtimeVars, Plane!channelVars
<1> QED BY <1>1, <1>2, DoneStep

LEMMA PublishFailsKeeps ==
    ASSUME PlaneInv, NEW i \in Instances, NEW t \in Tasks, Plane!PublishFails(i, t)
    PROVE  PlaneInv'
<1>1. Plane!At(i, t, "publish") /\ Plane!Done(i, t)
  BY DEF Plane!PublishFails
<1>2. Steady
  BY DEF Plane!PublishFails, PlaneInv, PlaneShape, Steady, Quietly, Views, Plane!authVars,
     Plane!runtimeVars, Plane!channelVars
<1> QED BY <1>1, <1>2, DoneStep

LEMMA LoadModelsKeeps ==
    ASSUME PlaneInv, NEW i \in Instances, NEW t \in Tasks, Plane!LoadModels(i, t)
    PROVE  PlaneInv'
<1> DEFINE q == task[i][t]
           c == Plane!Continue(q)
           r == [c EXCEPT !.models = TRUE]
<1>1. PlaneShape /\ Plane!At(i, t, "models")
  BY DEF PlaneInv, Plane!LoadModels
<1>2. q \in Job /\ q.todo # <<>>
  BY <1>1, Starting DEF Starts
<1>3. c \in Job /\ c.todo = Tail(q.todo)
  BY <1>2, Continued
<1>4. task' = [task EXCEPT ![i][t] = r]
  BY DEF Plane!LoadModels
<1>5. Steady
  BY <1>1 DEF Plane!LoadModels, PlaneInv, PlaneShape, Steady, Quietly, Views,
     Plane!authVars, Plane!runtimeVars, Plane!channelVars
<1> HIDE DEF c
<1>6. r \in Job /\ r.todo = Tail(q.todo)
  BY <1>1, <1>3 DEF Job, PlaneShape
<1> HIDE DEF r
<1> QED BY <1>1, <1>4, <1>5, <1>6, DoneKeeps

LEMMA GetConfigKeeps ==
    ASSUME PlaneInv, NEW i \in Instances, NEW t \in Tasks, Plane!GetConfig(i, t)
    PROVE  PlaneInv'
<1> DEFINE q == task[i][t]
           c == Plane!Continue(q)
           r == [c EXCEPT !.config = config[i]]
<1>1. PlaneShape /\ Plane!At(i, t, "get")
  BY DEF PlaneInv, Plane!GetConfig
<1>2. q \in Job /\ q.todo # <<>>
  BY <1>1, Starting DEF Starts
<1>3. c \in Job /\ c.todo = Tail(q.todo)
  BY <1>2, Continued
<1>4. task' = [task EXCEPT ![i][t] = c] \/ task' = [task EXCEPT ![i][t] = r]
  BY DEF Plane!GetConfig, Plane!Done
<1>5. q.config \in BOOLEAN
  BY <1>2 DEF Job
<1>6. Steady
  BY <1>1, <1>5 DEF Plane!GetConfig, PlaneInv, PlaneShape, Steady, Quietly, Views,
     Plane!authVars, Plane!runtimeVars, Plane!channelVars
<1> HIDE DEF c
<1>7. r \in Job /\ r.todo = Tail(q.todo)
  BY <1>1, <1>3 DEF Job, PlaneShape
<1> HIDE DEF r
<1> QED BY <1>1, <1>3, <1>4, <1>6, <1>7, DoneKeeps

LEMMA BuildRegistryKeeps ==
    ASSUME PlaneInv, NEW i \in Instances, NEW t \in Tasks, Plane!BuildRegistry(i, t)
    PROVE  PlaneInv'
<1> DEFINE q == task[i][t]
           b == [q EXCEPT !.models = FALSE, !.groups = FALSE, !.config = FALSE]
           r == Plane!Continue(b)
<1>1. PlaneShape /\ Plane!At(i, t, "build")
  BY DEF PlaneInv, Plane!BuildRegistry
<1>2. q \in Job /\ q.todo # <<>>
  BY <1>1, Starting DEF Starts
<1>3. task' = [task EXCEPT ![i][t] = r]
  BY DEF Plane!BuildRegistry
<1>4. PICK built : Plane!Install(i, built)
  BY DEF Plane!BuildRegistry
<1>5. Steady
  BY <1>4, InstallMisses DEF Plane!BuildRegistry, PlaneInv, PlaneShape, Steady, Quietly,
     Plane!authVars, Plane!runtimeVars, Plane!channelVars
<1>6. b \in Job /\ b.todo = q.todo
  BY <1>2 DEF Job
<1> HIDE DEF b
<1>7. r \in Job /\ r.todo = Tail(q.todo)
  BY <1>2, <1>6, Continued
<1> HIDE DEF r
<1> QED BY <1>1, <1>3, <1>5, <1>7, DoneKeeps

LEMMA Strict ==
    ASSUME NEW t, NEW p
    PROVE  /\ Sound("admin", p) => Sound(t, p)
           /\ t # "flush" /\ Sound(t, p) => Sound("admin", p)
BY DEF Sound, Chained

\* Outside the flush a list goes on with another one.
LEMMA BodyProceeds ==
    ASSUME NEW t, t # "flush", NEW p, p # <<>> => p[1][1] # "install", NEW q, Body(q),
           \A x \in Marks : Pledges(p, x) => Pledges(q, x)
    PROVE  q \in Seq(Op) /\ Proceeds(t, p, q)
<1>1. Sound(t, q)
  BY Strict DEF Body
<1>2. q # <<>> => q[1][1] \notin First \cup {"read", "install"}
  BY DEF Body
<1>3. ListOK(t, q)
  BY <1>1, <1>2 DEF ListOK, Starts, Alone, First
<1> QED BY <1>1, <1>2, <1>3 DEF Proceeds, Passes, First, Sound, Marks

LEMMA Behind ==
    ASSUME NEW t, NEW p, ListOK(t, p), p # <<>>, t # "flush",
           p[1][1] \notin {"drop", "lock", "read", "install", "notify"}
    PROVE  Body(Tail(p)) /\ \A x \in Marks : Pledges(p, x) => Has(Tail(p), {x})
<1>1. Proceeds(t, p, Tail(p)) /\ (Tail(p) # <<>> => Tail(p)[1][1] \notin First)
  BY DoneProceeds, RestKeeps
<1>2. Sound("admin", Tail(p))
  BY <1>1, Strict DEF Proceeds, Passes, ListOK
<1> QED BY <1>1, <1>2 DEF Body, Proceeds, Passes, Pledges, Has, First

\* A list that begins with a harmless step promises what it has.
LEMMA HasPledges ==
    ASSUME NEW q, Body(q), NEW x, Has(q, {x})
    PROVE  Pledges(q, x)
<1>1. q # <<>>
  BY DEF Has
<1> QED BY <1>1 DEF Has, Pledges, Body, First

\* The next step becomes another one.
LEMMA Resumed ==
    ASSUME NEW t, NEW p, ListOK(t, p), p # <<>>, t # "flush", NEW s, Quiet(s),
           p[1][1] \notin {"drop", "lock", "read", "install", "notify"}
    PROVE  <<s>> \o Tail(p) \in Seq(Op) /\ Proceeds(t, p, <<s>> \o Tail(p))
<1>1. Body(Tail(p)) /\ \A x \in Marks : Pledges(p, x) => Has(Tail(p), {x})
  BY Behind
<1>2. Body(<<s>> \o Tail(p)) /\ \A x \in Marks : Pledges(p, x) => Has(<<s>> \o Tail(p), {x})
  BY <1>1, Then
<1>3. \A x \in Marks : Pledges(p, x) => Pledges(<<s>> \o Tail(p), x)
  BY <1>2, HasPledges
<1> QED BY <1>2, <1>3, BodyProceeds

LEMMA NotFlush ==
    ASSUME PlaneShape, NEW i \in Instances, NEW t \in Tasks,
           NEW op \in {"groups", "query", "follow", "load", "apply"}, Plane!At(i, t, op)
    PROVE  t # "flush"
<1>1. /\ ListOK(t, task[i][t].todo) /\ Starts(task[i][t].todo, op)
      /\ task[i][t].todo \in Seq(Op)
  BY Starting
<1>2. 1 \in 1..Len(task[i][t].todo)
  BY <1>1, Tailed DEF Starts
<1> QED BY <1>1, <1>2 DEF ListOK, ReloadOnly, Starts

LEMMA GetGroupsKeeps ==
    ASSUME PlaneInv, NEW i \in Instances, NEW t \in Tasks, Plane!GetGroups(i, t)
    PROVE  PlaneInv'
<1> DEFINE q == task[i][t]
           c == Plane!Continue(q)
           p == <<<<"query", "groups">>>> \o Tail(q.todo)
           a == [q EXCEPT !.todo = p]
<1>1. PlaneShape /\ Plane!At(i, t, "groups")
  BY DEF PlaneInv, Plane!GetGroups
<1>2. q \in Job /\ q.todo # <<>> /\ ListOK(t, q.todo) /\ q.todo[1][1] = "groups" /\ t # "flush"
  BY <1>1, Starting, NotFlush DEF Starts
<1>3. c \in Job /\ c.todo = Tail(q.todo)
  BY <1>2, Continued
<1>4. \/ task' = [task EXCEPT ![i][t] = a]
      \/ \E f \in BOOLEAN : task' = [task EXCEPT ![i][t] = [c EXCEPT !.groups = f]]
  BY DEF Plane!GetGroups
<1>5. q.models \in BOOLEAN
  BY <1>2 DEF Job
<1>6. Steady
  BY <1>1, <1>5 DEF Plane!GetGroups, PlaneInv, PlaneShape, Steady, Quietly, Views,
     Plane!authVars, Plane!runtimeVars, Plane!channelVars
<1>7. CASE task' = [task EXCEPT ![i][t] = a]
  <2>1. p \in Seq(Op) /\ Proceeds(t, q.todo, p)
    BY <1>2, Resumed, QuietSteps
  <2> HIDE DEF p
  <2>2. a \in Job /\ a.todo = p
    BY <1>2, <2>1 DEF Job
  <2> HIDE DEF a
  <2> QED BY <1>1, <1>6, <1>7, <2>1, <2>2, Turned, StepKeeps
<1>8. ASSUME NEW f \in BOOLEAN, task' = [task EXCEPT ![i][t] = [c EXCEPT !.groups = f]]
      PROVE  PlaneInv'
  <2> HIDE DEF c
  <2> DEFINE r == [c EXCEPT !.groups = f]
  <2>1. r \in Job /\ r.todo = Tail(q.todo)
    BY <1>3 DEF Job
  <2>2. task' = [task EXCEPT ![i][t] = r]
    BY <1>8
  <2> HIDE DEF r
  <2> QED BY <1>1, <1>6, <2>1, <2>2, DoneKeeps
<1> QED BY <1>4, <1>7, <1>8

LEMMA ListRuntimeGroupsKeeps ==
    ASSUME PlaneInv, NEW i \in Instances, NEW t \in Tasks, Plane!ListRuntimeGroups(i, t)
    PROVE  PlaneInv'
<1> DEFINE q == task[i][t]
           p == <<<<"store", "groups">>>> \o Tail(q.todo)
           a == [q EXCEPT !.todo = p, !.groups = TRUE]
<1>1. PlaneShape /\ Plane!At(i, t, "query")
  BY DEF PlaneInv, Plane!ListRuntimeGroups
<1>2. q \in Job /\ q.todo # <<>> /\ ListOK(t, q.todo) /\ q.todo[1][1] = "query" /\ t # "flush"
  BY <1>1, Starting, NotFlush DEF Starts
<1>3. task' = [task EXCEPT ![i][t] = a]
  BY DEF Plane!ListRuntimeGroups
<1>4. Steady
  BY <1>1 DEF Plane!ListRuntimeGroups, PlaneInv, PlaneShape, Steady, Quietly, Views,
     Plane!authVars, Plane!runtimeVars, Plane!channelVars
<1>5. p \in Seq(Op) /\ Proceeds(t, q.todo, p)
  BY <1>2, Resumed, QuietSteps
<1> HIDE DEF p
<1>6. a \in Job /\ a.todo = p
  BY <1>2, <1>5 DEF Job
<1> HIDE DEF a
<1> QED BY <1>1, <1>3, <1>4, <1>5, <1>6, Turned, StepKeeps

LEMMA FollowCatalogKeeps ==
    ASSUME PlaneInv, NEW i \in Instances, NEW t \in Tasks, Plane!FollowCatalog(i, t)
    PROVE  PlaneInv'
<1> DEFINE q == task[i][t]
           w == Plane!Write("targets")
           T == Plane!ReloadTargets
           m == Tail(q.todo)
           p == (<<w>> \o T) \o m
<1>1. PlaneShape /\ Plane!At(i, t, "follow")
  BY DEF PlaneInv, Plane!FollowCatalog
<1>2. q \in Job /\ q.todo # <<>> /\ ListOK(t, q.todo) /\ q.todo[1][1] = "follow" /\ t # "flush"
  BY <1>1, Starting, NotFlush DEF Starts
<1>3. Steady
  BY <1>1 DEF Plane!FollowCatalog, PlaneInv, PlaneShape, Steady, Quietly, Views,
     Plane!authVars, Plane!runtimeVars, Plane!channelVars
<1>4. Plane!Done(i, t) \/ task' = [task EXCEPT ![i][t].todo = p]
  BY DEF Plane!FollowCatalog, Plane!Write
<1>5. Body(m) /\ \A x \in Marks : Pledges(q.todo, x) => Has(m, {x})
  BY <1>2, Behind
<1> HIDE DEF m
<1>6. Reloads("targets", T \o m) /\ \A x \in Marks : Pledges(q.todo, x) => Has(T \o m, {x})
  BY <1>5, Reloaded
<1>7. w \in Op /\ T \in Seq(Op) /\ m \in Seq(Op)
  BY <1>5, InOp, Reloading DEF Reloads, Body, Sound
<1> HIDE DEF w, T
<1>8. <<w>> \in Seq(Op)
  BY <1>7
<1>9. p = <<w>> \o (T \o m)
  BY <1>7, <1>8, ConcatAssociative
<1> DEFINE n == T \o m
<1> HIDE DEF n, p
<1>10. Body(<<w>> \o n)
  BY <1>6, ViewWritten DEF w, n, Reloads, Plane!Views
<1>11. \A x \in Marks : Pledges(q.todo, x) => Has(<<w>> \o n, {x})
  BY <1>6, <1>7, ConsedHas DEF n, Reloads, Body, Sound
<1>12. Body(p) /\ \A x \in Marks : Pledges(q.todo, x) => Pledges(p, x)
  BY <1>9, <1>10, <1>11, HasPledges DEF n
<1>13. p \in Seq(Op) /\ Proceeds(t, q.todo, p)
  BY <1>2, <1>12, BodyProceeds
<1>14. CASE task' = [task EXCEPT ![i][t].todo = p]
  <2>1. PICK r \in Job : Turns(i, t, r) /\ r.todo = p
    BY <1>1, <1>13, <1>14, TurnedTodo
  <2> QED BY <1>3, <1>13, <2>1, StepKeeps
<1> QED BY <1>1, <1>3, <1>4, <1>14, DoneStep

\* A task that has nothing to do is given a list.
LEMMA GivenKeeps ==
    ASSUME PlaneInv, NEW i \in Instances, NEW t \in Tasks, NEW p \in Seq(Op), ListOK(t, p),
           task' = [task EXCEPT ![i][t].todo = p], Steady, Plane!Idle(i, t),
           p # <<>> => p[1][1] \notin {"take", "read", "install"}
    PROVE  PlaneInv'
<1>1. task[i][t].todo = <<>> /\ PlaneShape
  BY DEF Plane!Idle, PlaneInv
<1>2. Proceeds(t, task[i][t].todo, p)
  BY <1>1 DEF Proceeds, Passes, Pledges
<1>3. PICK r \in Job : Turns(i, t, r) /\ r.todo = p
  BY <1>1, TurnedTodo
<1> QED BY <1>2, <1>3, StepKeeps

LEMMA StartHandlerKeeps ==
    ASSUME PlaneInv, NEW i \in Instances, Plane!StartHandler(i),
           \A p \in Plane!Programs : Program(p)
    PROVE  PlaneInv'
<1>0. PICK p \in Plane!Programs : Program(p) /\ task' = [task EXCEPT ![i]["admin"].todo = p]
  BY DEF Plane!StartHandler
<1>1. p \in Seq(Op) /\ ListOK("admin", p) /\ p[1][1] = "check"
  BY <1>0 DEF Program, ListOK, Starts, Alone, Sound, Plane!Check
<1>2. Steady
  BY DEF Plane!StartHandler, PlaneInv, PlaneShape, Steady, Quietly, Views, Plane!authVars,
     Plane!runtimeVars, Plane!channelVars
<1>3. Plane!Idle(i, "admin") /\ task' = [task EXCEPT ![i]["admin"].todo = p]
  BY <1>0 DEF Plane!StartHandler
<1> QED BY <1>1, <1>2, <1>3, GivenKeeps DEF Tasks, Plane!Tasks

LEMMA AcceptsKeeps ==
    ASSUME PlaneInv, NEW i \in Instances, Plane!Accepts(i)
    PROVE  PlaneInv'
<1>1. Plane!At(i, "admin", "check") /\ Plane!Done(i, "admin")
  BY DEF Plane!Accepts
<1>2. Steady
  BY DEF Plane!Accepts, PlaneInv, PlaneShape, Steady, Quietly, Views, Plane!authVars,
     Plane!runtimeVars, Plane!channelVars
<1> QED BY <1>1, <1>2, DoneStep DEF Tasks, Plane!Tasks

LEMMA IdleJob == Plane!IdleTask \in Job /\ Plane!IdleTask.todo = <<>> /\ Plane!IdleTask.snap = FALSE
BY DEF Plane!IdleTask, Job

LEMMA EmptyList == \A t : ListOK(t, <<>>)
BY DEF ListOK, Starts, Alone, ReloadOnly, Sound, Followed, Chained

LEMMA RejectsKeeps ==
    ASSUME PlaneInv, NEW i \in Instances, Plane!Rejects(i)
    PROVE  PlaneInv'
<1> DEFINE r == Plane!IdleTask
           t == "admin"
<1>1. t \in Tasks /\ PlaneShape /\ Plane!At(i, t, "check") /\ task' = [task EXCEPT ![i][t] = r]
  BY DEF PlaneInv, Tasks, Plane!Tasks, Plane!Rejects
<1>2. Steady
  BY DEF Plane!Rejects, PlaneInv, PlaneShape, Steady, Quietly, Views, Plane!authVars,
     Plane!runtimeVars, Plane!channelVars
<1> HIDE DEF r, t
<1>3. r \in Job /\ r.todo = <<>>
  BY IdleJob DEF r
<1>4. Starts(task[i][t].todo, "check")
  BY <1>1, Starting
<1>5. Proceeds(t, task[i][t].todo, r.todo)
  BY <1>3, <1>4, EmptyList DEF Proceeds, Passes, Starts, Pledges
<1> QED BY <1>1, <1>2, <1>3, <1>5, Turned, StepKeeps

LEMMA OneStep ==
    ASSUME NEW t, t # "flush", NEW op \in {"load", "apply"}, NEW event \in {"model", "config"}
    PROVE  <<<<op, event>>>> \in Seq(Op) /\ ListOK(t, <<<<op, event>>>>)
           /\ <<<<op, event>>>>[1][1] = op /\ <<<<op, event>>>> # <<>>
<1> DEFINE s == <<op, event>>
           p == <<s>>
<1>1. s \in Op /\ s[1] = op /\ s[2] = event
  BY DEF Op, Words
<1>2. s \notin KeyWrites /\ (\A v : s # <<"write", v>>) /\ s # <<"edit", "gone">>
  BY <1>1 DEF KeyWrites
<1> HIDE DEF s
<1>3. p \in Seq(Op) /\ Len(p) = 1 /\ p[1] = s /\ p # <<>>
  BY <1>1
<1> HIDE DEF p
<1>4. Followed(p) /\ Chained(t, p)
  BY <1>1, <1>2, <1>3 DEF Followed, Chained
<1>5. Alone(p)
  BY <1>1, <1>3 DEF Alone
<1>6. ~Starts(p, "take")
  BY <1>1, <1>3 DEF Starts
<1> QED BY <1>1, <1>3, <1>4, <1>5, <1>6 DEF ListOK, Sound, p, s

LEMMA StartReloadKeeps ==
    ASSUME PlaneInv, NEW i \in Instances, NEW t \in {"listener", "poll"},
           NEW event \in {"model", "config"}, Plane!StartReload(i, t, event)
    PROVE  PlaneInv'
<1> DEFINE p == <<<<"load", event>>>>
<1>1. t # "flush" /\ t \in Tasks /\ Plane!Idle(i, t) /\ task' = [task EXCEPT ![i][t].todo = p]
  BY DEF Plane!StartReload, Tasks, Plane!Tasks
<1>2. Steady
  BY DEF Plane!StartReload, PlaneInv, PlaneShape, Steady, Quietly, Views, Plane!authVars,
     Plane!runtimeVars, Plane!channelVars
<1>3. p \in Seq(Op) /\ ListOK(t, p) /\ p[1][1] = "load"
  BY <1>1, OneStep
<1> HIDE DEF p
<1> QED BY <1>1, <1>2, <1>3, GivenKeeps

LEMMA LoadConfigKeeps ==
    ASSUME PlaneInv, NEW i \in Instances, NEW t \in Tasks, Plane!LoadConfig(i, t)
    PROVE  PlaneInv'
<1> DEFINE q == task[i][t]
           p == <<<<"apply", Plane!What(i, t)>>>>
           r == [q EXCEPT !.todo = p, !.config = TRUE]
<1>1. PlaneShape /\ Plane!At(i, t, "load") /\ task' = [task EXCEPT ![i][t] = r]
  BY DEF PlaneInv, Plane!LoadConfig
<1>2. /\ q \in Job /\ q.todo # <<>> /\ ListOK(t, q.todo) /\ q.todo[1][1] = "load" /\ t # "flush"
      /\ Plane!What(i, t) = q.todo[1][2]
  BY <1>1, Starting, NotFlush DEF Starts
<1>3. Len(q.todo) = 1 /\ Plane!What(i, t) \in {"model", "config"}
  BY <1>2 DEF ListOK, Alone
<1>4. Steady
  BY DEF Plane!LoadConfig, PlaneInv, PlaneShape, Steady, Quietly, Views, Plane!authVars,
     Plane!runtimeVars, Plane!channelVars
<1>5. p \in Seq(Op) /\ ListOK(t, p) /\ p[1][1] = "apply"
  BY <1>2, <1>3, OneStep
<1> HIDE DEF p
<1>6. r \in Job /\ r.todo = p
  BY <1>2, <1>5 DEF Job
<1>7. \A x \in Marks : ~Pledges(q.todo, x)
  BY <1>2, <1>3 DEF Pledges, Marks, Drops, Plane!Drop, Plane!DropLogged
<1>8. Proceeds(t, q.todo, p)
  BY <1>2, <1>5, <1>7 DEF Proceeds, Passes, Marks
<1> HIDE DEF r
<1> QED BY <1>1, <1>4, <1>6, <1>8, Turned, StepKeeps

LEMMA ApplyConfigKeeps ==
    ASSUME PlaneInv, NEW i \in Instances, NEW t \in Tasks, Plane!ApplyConfig(i, t)
    PROVE  PlaneInv'
<1> DEFINE q == task[i][t]
           A == Plane!ApplyRuntimeConfig
           U == Plane!Uncache
<1>1. PlaneShape /\ Plane!At(i, t, "apply")
  BY DEF PlaneInv, Plane!ApplyConfig
<1>2. q \in Job /\ q.todo # <<>> /\ ListOK(t, q.todo) /\ q.todo[1][1] = "apply" /\ t # "flush"
  BY <1>1, Starting, NotFlush DEF Starts
<1>3. Len(q.todo) = 1
  BY <1>2 DEF ListOK, Alone
<1>4. \A x \in Marks : ~Pledges(q.todo, x)
  BY <1>2, <1>3 DEF Pledges, Marks, Drops, Plane!Drop, Plane!DropLogged
<1>5. q.config \in BOOLEAN
  BY <1>2 DEF Job
<1>6. Steady
  BY <1>5 DEF Plane!ApplyConfig, PlaneInv, PlaneShape, Steady, Quietly, Views,
     Plane!authVars, Plane!runtimeVars, Plane!channelVars
<1>7. \/ \E e \in {<<>>, <<Plane!Tune>>} :
           task' = [task EXCEPT ![i][t] = [q EXCEPT !.todo = (<<U>> \o A) \o e]]
      \/ task' = [task EXCEPT ![i][t] = Plane!IdleTask]
  BY DEF Plane!ApplyConfig
<1>8. ASSUME NEW e \in {<<>>, <<Plane!Tune>>},
             task' = [task EXCEPT ![i][t] = [q EXCEPT !.todo = (<<U>> \o A) \o e]]
      PROVE  PlaneInv'
  <2> DEFINE p == (<<U>> \o A) \o e
             r == [q EXCEPT !.todo = p]
  <2>1. Body(e)
    BY <1>8, EmptyBody, Last, QuietSteps
  <2>2. U \in Op /\ A \in Seq(Op) /\ e \in Seq(Op) /\ Body(A \o e)
    BY <2>1, Applied, InOp DEF Body, Sound
  <2> HIDE DEF A, U
  <2>3. <<U>> \in Seq(Op)
    BY <2>2
  <2>4. p = <<U>> \o (A \o e)
    BY <2>2, <2>3, ConcatAssociative
  <2>5. Body(p)
    BY <2>2, <2>4, Then, QuietSteps DEF U
  <2> HIDE DEF p
  <2>6. p \in Seq(Op) /\ Proceeds(t, q.todo, p)
    BY <1>2, <1>4, <2>5, BodyProceeds
  <2>7. r \in Job /\ r.todo = p
    BY <1>2, <2>6 DEF Job
  <2>8. task' = [task EXCEPT ![i][t] = r]
    BY <1>8 DEF p
  <2> HIDE DEF r
  <2> QED BY <1>1, <1>6, <2>6, <2>7, <2>8, Turned, StepKeeps
<1>9. CASE task' = [task EXCEPT ![i][t] = Plane!IdleTask]
  <2>1. Proceeds(t, q.todo, <<>>)
    BY <1>2, <1>4, EmptyList DEF Proceeds, Passes, Marks
  <2> QED BY <1>1, <1>6, <1>9, <2>1, IdleJob, Turned, StepKeeps
<1> QED BY <1>7, <1>8, <1>9

LEMMA GroupsExpireKeeps ==
    ASSUME PlaneInv, NEW i \in Instances, NEW level, Plane!GroupsExpire(i, level)
    PROVE  PlaneInv'
<1>1. Steady /\ task' = task
  BY DEF Plane!GroupsExpire, PlaneInv, PlaneShape, Steady, Quietly, Views, Plane!authVars,
     Plane!runtimeVars, Plane!channelVars
<1> QED BY <1>1, IdleKeeps

LEMMA FollowerStopsKeeps ==
    ASSUME PlaneInv, NEW i \in Instances, Plane!FollowerStops(i)
    PROVE  PlaneInv'
<1>1. Steady /\ task' = task
  BY DEF Plane!FollowerStops, PlaneInv, PlaneShape, Steady, Quietly, Views,
     Plane!authVars, Plane!runtimeVars, Plane!channelVars
<1> QED BY <1>1, IdleKeeps

LEMMA SubscribeKeeps ==
    ASSUME PlaneInv, NEW i \in Instances, Plane!Subscribe(i)
    PROVE  PlaneInv'
<1>1. Steady /\ task' = task
  BY DEF Plane!Subscribe, PlaneInv, PlaneShape, Steady, Quietly, Views, Plane!authVars,
     Plane!runtimeVars, Plane!channelVars
<1> QED BY <1>1, IdleKeeps

\* What only the key records are about.
LEMMA RecordKeeps ==
    ASSUME PlaneInv, NEW i,
           Plane!ValidateKey(i) \/ Plane!GetByToken(i) \/ Plane!CacheRecord(i) \/ Plane!RecordExpires
    PROVE  PlaneInv'
<1>1. UNCHANGED <<task, snap, models, config, lock, inbox, queued, missed>>
  BY DEF Plane!ValidateKey, Plane!GetByToken, Plane!CacheRecord, Plane!RecordExpires,
     Plane!runtimeVars, Plane!channelVars
<1>2. PlaneShape' /\ Orderly'
  BY <1>1 DEF PlaneInv, PlaneShape, Orderly
<1>3. ViewsPledged'
  BY <1>1 DEF PlaneInv, ViewsPledged, Pledged, Announced
<1>4. AuthPledged'
  BY <1>1 DEF PlaneInv, AuthPledged, Plane!ValidateKey, Plane!GetByToken,
     Plane!CacheRecord, Plane!RecordExpires
<1> QED BY <1>2, <1>3, <1>4 DEF PlaneInv


LEMMA DonePasses ==
    ASSUME NEW t, NEW p, ListOK(t, p), p # <<>>,
           p[1][1] \notin {"lock", "read", "install", "notify"}
    PROVE  Passes(t, p, Tail(p))
<1>1. \A x \in Marks \ Drops : x # p[1]
  BY DEF Marks
<1> QED BY <1>1, RestKeeps DEF Passes, Starts, First

LEMMA Dropped ==
    ASSUME PlaneInv, NEW i \in Instances, Plane!At(i, "admin", "drop"), Plane!Done(i, "admin"), Quietly
    PROVE  PlaneShape' /\ Orderly' /\ ViewsPledged'
<1> DEFINE t == "admin"
           r == Plane!Continue(task[i][t])
<1>1. PlaneShape /\ t \in Tasks
  BY DEF PlaneInv, Tasks, Plane!Tasks
<1>2. r \in Job /\ r.todo = Tail(task[i][t].todo) /\ task[i][t].todo # <<>>
  BY <1>1, Starting, Continued DEF Starts
<1>3. task' = [task EXCEPT ![i][t] = r]
  BY DEF Plane!Done
<1> HIDE DEF r, t
<1>4. Starts(task[i][t].todo, "drop") /\ ListOK(t, task[i][t].todo)
  BY <1>1, Starting DEF t
<1>5. Passes(t, task[i][t].todo, r.todo)
  BY <1>2, <1>4, DonePasses DEF Starts
<1> QED BY <1>1, <1>2, <1>3, <1>5, Turned, PassKeeps

LEMMA DropRecordsKeeps ==
    ASSUME PlaneInv, NEW i \in Instances, Plane!DropRecords(i)
    PROVE  PlaneInv'
<1>1. Plane!At(i, "admin", "drop") /\ Plane!Done(i, "admin")
  BY DEF Plane!DropRecords
<1>2. Quietly
  BY DEF Plane!DropRecords, PlaneInv, PlaneShape, Quietly, Views, Plane!runtimeVars,
     Plane!channelVars
<1>3. AuthPledged'
  BY DEF Plane!DropRecords, AuthPledged
<1> QED BY <1>1, <1>2, <1>3, Dropped DEF PlaneInv

LEMMA AheadIn ==
    ASSUME PlaneShape, NEW i \in Instances, NEW t \in Tasks, NEW x
    PROVE  /\ Plane!Ahead(i, t, x) <=> \E k \in 1..Len(task[i][t].todo) : task[i][t].todo[k] = x
           /\ Pledges(task[i][t].todo, x) => Plane!Ahead(i, t, x)
           /\ \A v \in Views : x = <<"read", v>> /\ Plane!Ahead(i, t, x) => Plane!Ahead(i, t, <<"install", v>>)
<1> DEFINE p == task[i][t].todo
<1>1. p \in Seq(Op) /\ Chained(t, p)
  BY Starting DEF ListOK, Sound
<1>2. DOMAIN p = 1..Len(p) /\ Len(p) \in Nat
  BY <1>1
<1>3. \A y : Plane!Ahead(i, t, y) <=> \E k \in 1..Len(p) : p[k] = y
  BY <1>2 DEF Plane!Ahead, Plane!ToSet
<1>4. ASSUME NEW v \in Views, x = <<"read", v>>, NEW k \in 1..Len(p), p[k] = x
      PROVE  \E m \in 1..Len(p) : p[m] = <<"install", v>>
  <2>1. p[k][1] = "read" /\ p[k][2] = v
    BY <1>4
  <2>2. k < Len(p) /\ p[k + 1] = <<"install", v>>
    BY <1>1, <2>1 DEF Chained
  <2> QED BY <1>2, <2>2
<1> QED BY <1>3, <1>4 DEF Pledges

\* What an exception leaves of a list.
LEMMA Remains ==
    ASSUME PlaneShape, NEW i \in Instances, NEW t \in Tasks, Plane!Fail(i, t)
    PROVE  \E r \in Job :
             /\ Turns(i, t, r) /\ ListOK(t, r.todo)
             /\ r.todo # <<>> => r.todo[1][1] \notin First \cup {"read", "install"}
<1> DEFINE a == Plane!Tune
           b == <<"publish", "config">>
           e == IF Plane!Ahead(i, t, a) THEN <<a>> ELSE <<>>
           f == IF Plane!Ahead(i, t, b) THEN <<b>> ELSE <<>>
           p == e \o f
           r == IF p = <<>> \/ Plane!At(i, t, "write") THEN Plane!IdleTask
                ELSE [Plane!IdleTask EXCEPT !.todo = p]
<1>1. task' = [task EXCEPT ![i][t] = r]
  BY DEF Plane!Fail
<1>2. Quiet(a) /\ Quiet(b) /\ a \in Op /\ b \in Op /\ a[1] = "tune" /\ b[1] = "publish"
  BY QuietSteps DEF Quiet, Plane!Tune
<1> HIDE DEF a, b
<1>3. f \in Seq(Op) /\ e \in Seq(Op) /\ (e = <<>> \/ e = <<a>>) /\ (f = <<>> \/ f = <<b>>)
  BY <1>2
<1> HIDE DEF e, f
<1>4. Body(f)
  BY <1>2, <1>3, EmptyBody, Last
<1>5. p = f \/ p = <<a>> \o f
  BY <1>3, ConcatEmptySeq
<1>6. Body(p)
  BY <1>2, <1>4, <1>5, Then
<1>7. p \in Seq(Op) /\ \A k \in 1..Len(p) : p[k] = a \/ p[k] = b
  BY <1>2, <1>3
<1> HIDE DEF p
<1>8. ListOK(t, p)
  <2>1. Sound(t, p) /\ (p # <<>> => p[1][1] \notin First)
    BY <1>6, Strict DEF Body
  <2>2. ReloadOnly(p)
    BY <1>2, <1>7 DEF ReloadOnly
  <2> QED BY <2>1, <2>2 DEF ListOK, Alone, Starts, First
<1>9. r \in Job /\ (r.todo = <<>> \/ r.todo = p)
  BY <1>7, IdleJob DEF Job
<1> HIDE DEF r
<1>10. Turns(i, t, r)
  BY <1>1, <1>9, Turned
<1> QED BY <1>6, <1>8, <1>9, <1>10, EmptyList DEF Body

\* A promise that an exception breaks is counted as missed.
LEMMA FailKeeps ==
    ASSUME PlaneInv, NEW i \in Instances, NEW t \in Tasks, Plane!Fail(i, t),
           UNCHANGED <<auth, snap, models, config, inbox, queued>>
    PROVE  PlaneInv'
<1>1. PlaneShape /\ "admin" \in Tasks
  BY DEF PlaneInv, Tasks, Plane!Tasks
<1>2. PICK r \in Job :
        /\ Turns(i, t, r) /\ ListOK(t, r.todo)
        /\ r.todo # <<>> => r.todo[1][1] \notin First \cup {"read", "install"}
  BY <1>1, Remains
<1>3. /\ missed' = [j \in Instances |-> missed[j] \cup Plane!Unheard(i, t, j)]
      /\ missedAuth' = (missedAuth \/ Plane!Ahead(i, t, Plane!Drop) \/ Plane!Ahead(i, t, Plane!DropLogged))
      /\ lock' = [lock EXCEPT ![i] = IF lock[i] = t THEN "none" ELSE lock[i]]
  BY DEF Plane!Fail
<1>4. \A j : Plane!Unheard(i, t, j) \subseteq Words \cup {"runtime"}
  BY DEF Plane!Unheard, Words, Plane!Views
<1>5. PlaneShape'
  <2>1. \A j \in Instances, u \in Tasks : ListOK(u, task'[j][u].todo)
    BY <1>1, <1>2 DEF PlaneShape, Turns
  <2>2. lock' \in [Instances -> Tasks \cup {"none"}]
    BY <1>1, <1>3 DEF PlaneShape
  <2>3. missed' \in [Instances -> SUBSET (Words \cup {"runtime"})]
    BY <1>1, <1>3, <1>4 DEF PlaneShape
  <2> QED BY <1>1, <1>2, <2>1, <2>2, <2>3 DEF PlaneShape, Turns
<1>6. Orderly'
  <2>1. \A j \in Instances, u \in Tasks : \A op \in {"take", "read", "install"} :
          Starts(task'[j][u].todo, op) => Starts(task[j][u].todo, op) /\ (j # i \/ u # t)
    BY <1>2 DEF Turns, Starts, First
  <2>2. \A j \in Instances, u \in Tasks : (j # i \/ u # t) /\ lock[j] = u => lock'[j] = u
    BY <1>1, <1>3 DEF PlaneShape
  <2> QED BY <2>1, <2>2 DEF PlaneInv, Orderly
<1>7. AuthPledged'
  <2>1. \A x \in Drops : Pledges(task[i][t].todo, x) => missedAuth'
    BY <1>1, <1>3, AheadIn DEF Drops
  <2> QED BY <1>1, <1>2, <1>3, <2>1 DEF PlaneInv, AuthPledged, Turns
<1>8. \A j \in Instances, v \in Views :
        /\ v \in missed[j] => v \in missed'[j]
        /\ j # i /\ Pledges(task[i][t].todo, <<"notify", v>>) => v \in missed'[j]
        /\ Pledges(task[i][t].todo, <<"read", v>>) => v \in missed'[i]
        /\ Installs(task[i][t], v) => v \in missed'[i]
  <2> SUFFICES ASSUME NEW j \in Instances, NEW v \in Views
               PROVE  /\ v \in missed[j] => v \in missed'[j]
                      /\ j # i /\ Pledges(task[i][t].todo, <<"notify", v>>) => v \in missed'[j]
                      /\ Pledges(task[i][t].todo, <<"read", v>>) => v \in missed'[i]
                      /\ Installs(task[i][t], v) => v \in missed'[i]
    OBVIOUS
  <2>1. Plane!Ahead(i, t, <<"install", v>>) => v \in missed'[i]
    BY <1>3 DEF Plane!Unheard, Views
  <2>2. j # i /\ Plane!Ahead(i, t, <<"notify", v>>) => v \in missed'[j]
    BY <1>3 DEF Plane!Unheard, Views
  <2>3. Pledges(task[i][t].todo, <<"read", v>>) => Plane!Ahead(i, t, <<"install", v>>)
    BY <1>1, AheadIn
  <2>4. Pledges(task[i][t].todo, <<"notify", v>>) => Plane!Ahead(i, t, <<"notify", v>>)
    BY <1>1, AheadIn
  <2>5. Installs(task[i][t], v) => Plane!Ahead(i, t, <<"install", v>>)
    <3>1. task[i][t].todo \in Seq(Op)
      BY <1>1, Starting
    <3>2. task[i][t].todo # <<>> => 1 \in 1..Len(task[i][t].todo)
      BY <3>1, Tailed
    <3> QED BY <1>1, <3>2, AheadIn DEF Installs
  <2> QED BY <1>3, <2>1, <2>2, <2>3, <2>4, <2>5
<1>9. ASSUME NEW j \in Instances, NEW v \in Views, Pledged(j, v)
      PROVE  Pledged(j, v)'
  <2>1. CASE v \in missed[j] \cup inbox[j] \cup queued[j]
    BY <1>8, <2>1 DEF Pledged, Announced
  <2>2. ASSUME NEW k \in Instances \ {j}, Pledges(task[k]["admin"].todo, <<"notify", v>>)
        PROVE  Pledged(j, v)'
    <3>1. CASE k = i /\ t = "admin"
      BY <1>8, <2>2, <3>1 DEF Pledged, Announced
    <3>2. CASE ~(k = i /\ t = "admin")
      <4>1. task'[k]["admin"] = task[k]["admin"]
        BY <1>1, <1>2, <3>2 DEF Turns
      <4> QED BY <2>2, <4>1 DEF Pledged, Announced
    <3> QED BY <3>1, <3>2
  <2>3. ASSUME NEW u \in Tasks,
               \/ Pledges(task[j][u].todo, <<"read", v>>)
               \/ Installs(task[j][u], v) /\ task[j][u].snap
        PROVE  Pledged(j, v)'
    <3>1. CASE j = i /\ u = t
      BY <1>8, <2>3, <3>1 DEF Pledged, Announced
    <3>2. CASE ~(j = i /\ u = t)
      <4>1. task'[j][u] = task[j][u]
        BY <1>2, <3>2 DEF Turns
      <4> QED BY <2>3, <4>1 DEF Pledged
    <3> QED BY <3>1, <3>2
  <2>4. CASE Announced(j, v)
    BY <2>1, <2>2, <2>4, Zenon DEF Announced
  <2>5. CASE ~Announced(j, v)
    <3>1. PICK u \in Tasks : \/ Pledges(task[j][u].todo, <<"read", v>>)
                             \/ Installs(task[j][u], v) /\ task[j][u].snap
      BY <1>9, <2>5 DEF Pledged
    <3> QED BY <2>3, <3>1, Zenon
  <2> QED BY <2>4, <2>5, Zenon
<1>10. ViewsPledged'
  <2>1. \A j \in Instances, u \in Tasks : \A v :
          Installs(task'[j][u], v) => task'[j][u] = task[j][u]
    BY <1>2 DEF Turns, Installs
  <2> QED BY <1>9, <2>1 DEF PlaneInv, ViewsPledged
<1> QED BY <1>5, <1>6, <1>7, <1>10 DEF PlaneInv

LEMMA DropFailsKeeps ==
    ASSUME PlaneInv, NEW i \in Instances, Plane!DropFails(i)
    PROVE  PlaneInv'
<1>1. UNCHANGED <<auth, snap, models, config, inbox, queued>>
  BY DEF Plane!DropFails, Plane!runtimeVars, Plane!channelVars
<1>2. CASE Plane!Fail(i, "admin")
  BY <1>1, <1>2, FailKeeps DEF Tasks, Plane!Tasks
<1>3. CASE ~Plane!Fail(i, "admin")
  <2>1. /\ Plane!At(i, "admin", "drop") /\ Plane!Done(i, "admin") /\ missedAuth' = TRUE
        /\ UNCHANGED <<missed, lock>>
    BY <1>3 DEF Plane!DropFails
  <2>2. Quietly
    BY <1>1, <2>1 DEF PlaneInv, PlaneShape, Quietly, Views
  <2>3. AuthPledged'
    BY <2>1 DEF AuthPledged
  <2> QED BY <2>1, <2>2, <2>3, Dropped DEF PlaneInv
<1> QED BY <1>2, <1>3

LEMMA TaskFailsKeeps ==
    ASSUME PlaneInv, NEW i \in Instances, NEW t \in Tasks, Plane!TaskFails(i, t)
    PROVE  PlaneInv'
<1>1. Plane!Fail(i, t) /\ UNCHANGED <<auth, snap, models, config, inbox, queued>>
  BY DEF Plane!TaskFails, Plane!runtimeVars, Plane!channelVars
<1> QED BY <1>1, FailKeeps

\* A step of one task: every promise it drops has to be replaced.
LEMMA ViewsKeep ==
    ASSUME PlaneInv, NEW i \in Instances, NEW t \in Tasks, NEW r, Turns(i, t, r), snap' = snap,
           \A v \in Views : Installs(r, v) => r.snap,
           \A j \in Instances, v \in Views :
               v \in missed[j] \cup inbox[j] \cup queued[j] => Pledged(j, v)',
           \A j \in Instances, v \in Views :
               j # i /\ t = "admin" /\ Pledges(task[i][t].todo, <<"notify", v>>)
               => Announced(j, v)',
           \A v \in Views :
               \/ Pledges(task[i][t].todo, <<"read", v>>)
               \/ Installs(task[i][t], v) /\ task[i][t].snap
               => Pledged(i, v)'
    PROVE  ViewsPledged'
<1>1. "admin" \in Tasks
  BY DEF Tasks, Plane!Tasks
<1>2. ASSUME NEW j \in Instances, NEW v \in Views, Pledged(j, v)
      PROVE  Pledged(j, v)'
  <2>1. ASSUME NEW k \in Instances \ {j}, Pledges(task[k]["admin"].todo, <<"notify", v>>)
        PROVE  Announced(j, v)'
    <3>1. CASE k = i /\ t = "admin"
      BY <2>1, <3>1
    <3>2. CASE ~(k = i /\ t = "admin")
      <4>1. task'[k]["admin"] = task[k]["admin"]
        BY <1>1, <3>2 DEF Turns
      <4> QED BY <2>1, <4>1 DEF Announced
    <3> QED BY <3>1, <3>2
  <2>2. CASE Announced(j, v)
    BY <2>1, <2>2 DEF Announced, Pledged
  <2>3. CASE ~Announced(j, v)
    <3>1. PICK u \in Tasks : \/ Pledges(task[j][u].todo, <<"read", v>>)
                             \/ Installs(task[j][u], v) /\ task[j][u].snap
      BY <1>2, <2>3 DEF Pledged
    <3>2. CASE j = i /\ u = t
      BY <3>1, <3>2
    <3>3. CASE ~(j = i /\ u = t)
      <4>1. task'[j][u] = task[j][u]
        BY <3>3 DEF Turns
      <4> QED BY <3>1, <4>1 DEF Pledged
    <3> QED BY <3>2, <3>3
  <2> QED BY <2>2, <2>3
<1>3. \A j \in Instances, u \in Tasks, v \in Views :
        Installs(task'[j][u], v) /\ ~task'[j][u].snap => task'[j][u] = task[j][u]
  BY DEF Turns
<1> QED BY <1>2, <1>3 DEF PlaneInv, ViewsPledged

LEMMA ViewsPass ==
    ASSUME PlaneInv, NEW i \in Instances, NEW t \in Tasks, NEW r, Turns(i, t, r),
           UNCHANGED <<snap, inbox, queued, missed>>,
           \A v : ~Installs(task[i][t], v) /\ ~Installs(r, v),
           \A x \in Marks : Pledges(task[i][t].todo, x) => Pledges(r.todo, x)
    PROVE  ViewsPledged'
<1>1. \A v \in Views : <<"read", v>> \in Marks /\ <<"notify", v>> \in Marks
  BY DEF Marks
<1>2. r = task'[i][t] /\ (t = "admin" => r = task'[i]["admin"])
  BY DEF Turns
<1>3. \A j \in Instances, v \in Views :
        v \in missed[j] \cup inbox[j] \cup queued[j] => Pledged(j, v)'
  BY DEF Pledged, Announced
<1>4. \A j \in Instances, v \in Views :
        j # i /\ t = "admin" /\ Pledges(task[i][t].todo, <<"notify", v>>) => Announced(j, v)'
  BY <1>1, <1>2 DEF Announced
<1>5. \A v \in Views : Pledges(task[i][t].todo, <<"read", v>>) => Pledged(i, v)'
  BY <1>1, <1>2 DEF Pledged
<1> QED BY <1>3, <1>4, <1>5, ViewsKeep

\* The next step of a task, as its handler goes on.
LEMMA Advances ==
    ASSUME PlaneShape, NEW i \in Instances, NEW t \in Tasks, NEW op, Plane!At(i, t, op)
    PROVE  LET p == task[i][t].todo IN
           /\ task[i][t] \in Job /\ p \in Seq(Op) /\ p # <<>> /\ ListOK(t, p) /\ p[1] \in Op
           /\ p[1][1] = op /\ Plane!What(i, t) = p[1][2] /\ Plane!What(i, t) \in Words
           /\ p[1] = <<op, Plane!What(i, t)>>
<1> DEFINE p == task[i][t].todo
<1>1. task[i][t] \in Job /\ p \in Seq(Op) /\ p # <<>> /\ ListOK(t, p) /\ p[1][1] = op
      /\ Plane!What(i, t) = p[1][2]
  BY Starting DEF Starts
<1>2. p[1] \in Op
  BY <1>1, Tailed
<1> QED BY <1>1, <1>2 DEF Op

LEMMA TakeLockKeeps ==
    ASSUME PlaneInv, NEW i \in Instances, NEW t \in Tasks, Plane!TakeLock(i, t)
    PROVE  PlaneInv'
<1> DEFINE q == task[i][t]
           r == Plane!Continue(q)
<1>1. PlaneShape /\ Plane!At(i, t, "lock") /\ lock[i] = "none" /\ lock' = [lock EXCEPT ![i] = t]
  BY DEF PlaneInv, Plane!TakeLock
<1>2. /\ UNCHANGED <<auth, missedAuth, snap, models, config, inbox, queued, missed>>
      /\ task' = [task EXCEPT ![i][t] = r]
  BY DEF Plane!TakeLock, Plane!Done, Plane!authVars, Plane!runtimeVars, Plane!channelVars
<1>3. q \in Job /\ q.todo # <<>> /\ ListOK(t, q.todo) /\ q.todo[1][1] = "lock"
  BY <1>1, Advances
<1>4. r \in Job /\ r.todo = Tail(q.todo)
  BY <1>3, Continued
<1> HIDE DEF r
<1>5. Turns(i, t, r)
  BY <1>1, <1>2, <1>4, Turned
<1>6. /\ ListOK(t, r.todo) /\ ~Starts(r.todo, "install") /\ ~Starts(r.todo, "take")
      /\ \A x \in Marks : Pledges(q.todo, x) => Pledges(r.todo, x)
  <2>1. \A x \in Marks : x # q.todo[1]
    BY <1>3 DEF Marks, Drops, Plane!Drop, Plane!DropLogged
  <2> QED BY <1>3, <1>4, <2>1, RestKeeps DEF Starts, First
<1>7. PlaneShape'
  BY <1>1, <1>2, <1>5, <1>6 DEF PlaneShape, Turns
<1>8. Orderly'
  <2>1. \A u \in Tasks : ~Starts(task[i][u].todo, "read") /\ ~Starts(task[i][u].todo, "install")
    BY <1>1 DEF PlaneInv, Orderly, Tasks, Plane!Tasks
  <2>2. lock'[i] = t /\ \A j \in Instances : j # i => lock'[j] = lock[j]
    BY <1>1 DEF PlaneShape
  <2> QED BY <1>2, <1>5, <1>6, <2>1, <2>2 DEF PlaneInv, Orderly, Turns
<1>9. AuthPledged'
  BY <1>2, <1>5, <1>6 DEF PlaneInv, AuthPledged, Turns, Marks, Tasks, Plane!Tasks
<1>10. ViewsPledged'
  <2>1. \A v : ~Installs(q, v) /\ ~Installs(r, v)
    BY <1>3, <1>6 DEF Installs, Starts
  <2> QED BY <1>2, <1>5, <1>6, <2>1, ViewsPass
<1> QED BY <1>7, <1>8, <1>9, <1>10 DEF PlaneInv

LEMMA ReadTablesKeeps ==
    ASSUME PlaneInv, NEW i \in Instances, NEW t \in Tasks, Plane!ReadTables(i, t)
    PROVE  PlaneInv'
<1> DEFINE q == task[i][t]
           c == Plane!Continue(q)
           r == [c EXCEPT !.snap = TRUE]
           v == Plane!What(i, t)
<1>1. PlaneShape /\ Plane!At(i, t, "read") /\ "admin" \in Tasks
  BY DEF PlaneInv, Plane!ReadTables, Tasks, Plane!Tasks
<1>2. /\ UNCHANGED <<auth, missedAuth, snap, models, config, lock, inbox, queued, missed>>
      /\ task' = [task EXCEPT ![i][t] = r]
  BY DEF Plane!ReadTables, Plane!authVars, Plane!runtimeVars, Plane!channelVars
<1>3. q \in Job /\ q.todo # <<>> /\ ListOK(t, q.todo) /\ q.todo[1] = <<"read", v>>
      /\ q.todo[1][1] = "read" /\ q.todo[1][2] = v
  BY <1>1, Advances
<1>4. c \in Job /\ c.todo = Tail(q.todo)
  BY <1>3, Continued
<1> HIDE DEF c
<1>5. r \in Job /\ r.todo = Tail(q.todo) /\ r.snap = TRUE
  BY <1>4 DEF Job
<1> HIDE DEF r, v
<1>6. Turns(i, t, r)
  BY <1>1, <1>2, <1>5, Turned
<1>7. r.todo # <<>> /\ r.todo[1] = <<"install", v>>
  <2>1. Len(q.todo) > 1 /\ r.todo[1] = <<"install", v>> /\ q.todo \in Seq(Op)
    BY <1>3, <1>5, RestKeeps DEF ListOK, Sound
  <2>2. Len(r.todo) = Len(q.todo) - 1 /\ Len(q.todo) \in Nat
    BY <1>3, <1>5, <2>1, Tailed
  <2> QED BY <2>1, <2>2
<1>8. /\ ListOK(t, r.todo) /\ r.todo[1][1] = "install"
      /\ \A x : x # <<"read", v>> /\ Pledges(q.todo, x) => Pledges(r.todo, x)
  <2>1. ListOK(t, r.todo) /\ \A x : x # q.todo[1] /\ Pledges(q.todo, x) => Pledges(r.todo, x)
    <3>1. /\ ListOK(t, Tail(q.todo))
          /\ \A x : x # q.todo[1] /\ Pledges(q.todo, x) => Pledges(Tail(q.todo), x)
      BY <1>3, RestKeeps
    <3> QED BY <1>5, <3>1
  <2>2. r.todo[1][1] = "install"
    BY <1>7
  <2> QED BY <1>3, <2>1, <2>2
<1>9. PlaneShape'
  BY <1>1, <1>2, <1>6, <1>8 DEF PlaneShape, Turns
<1>10. Orderly'
  <2>1. lock[i] = t
    BY <1>3 DEF PlaneInv, Orderly, Starts
  <2> QED BY <1>2, <1>6, <1>8, <2>1 DEF PlaneInv, Orderly, Turns, Starts
<1>11. AuthPledged'
  <2>1. \A x \in Drops : x # <<"read", v>>
    BY DEF Drops, Plane!Drop, Plane!DropLogged
  <2> QED BY <1>1, <1>2, <1>6, <1>8, <2>1 DEF PlaneInv, AuthPledged, Turns
<1>12. ViewsPledged'
  <2>1. r = task'[i][t] /\ (t = "admin" => r = task'[i]["admin"])
    BY <1>6 DEF Turns
  <2>2. \A j \in Instances, w \in Views :
          w \in missed[j] \cup inbox[j] \cup queued[j] => Pledged(j, w)'
    BY <1>2 DEF Pledged, Announced
  <2>3. \A w \in Views : <<"notify", w>> # <<"read", v>>
    OBVIOUS
  <2>4. \A j \in Instances, w \in Views :
          j # i /\ t = "admin" /\ Pledges(q.todo, <<"notify", w>>) => Announced(j, w)'
    BY <1>8, <2>1, <2>3 DEF Announced
  <2>5. ASSUME NEW w \in Views, Pledges(q.todo, <<"read", w>>)
        PROVE  Pledged(i, w)'
    <3>1. CASE w = v
      BY <1>5, <1>7, <2>1, <3>1 DEF Pledged, Installs
    <3>2. CASE w # v
      <4>1. Pledges(r.todo, <<"read", w>>)
        BY <1>8, <2>5, <3>2
      <4> QED BY <2>1, <4>1 DEF Pledged
    <3> QED BY <3>1, <3>2
  <2>6. \A w \in Views : ~Installs(q, w)
    BY <1>3 DEF Installs
  <2> QED BY <1>2, <1>5, <1>6, <2>2, <2>4, <2>5, <2>6, ViewsKeep
<1> QED BY <1>9, <1>10, <1>11, <1>12 DEF PlaneInv

\* Of two reloads of an instance one is between its lock and its installation.
LEMMA Excluded ==
    ASSUME Orderly, NEW i \in Instances, NEW t \in Tasks, Starts(task[i][t].todo, "install"),
           NEW u \in Tasks, u # t
    PROVE  ~Starts(task[i][u].todo, "read") /\ ~Starts(task[i][u].todo, "install")
BY DEF Orderly

LEMMA InstallSnapshotKeeps ==
    ASSUME PlaneInv, NEW i \in Instances, NEW t \in Tasks, Plane!InstallSnapshot(i, t)
    PROVE  PlaneInv'
<1> DEFINE q == task[i][t]
           b == [q EXCEPT !.snap = FALSE]
           r == Plane!Continue(b)
           v == Plane!What(i, t)
<1>1. PlaneShape /\ Plane!At(i, t, "install") /\ "admin" \in Tasks
  BY DEF PlaneInv, Plane!InstallSnapshot, Tasks, Plane!Tasks
<1>2. /\ UNCHANGED <<auth, missedAuth, models, config, inbox, queued>>
      /\ task' = [task EXCEPT ![i][t] = r]
      /\ snap' = [snap EXCEPT ![i][v] = q.snap]
      /\ missed' = [missed EXCEPT ![i] = IF q.snap THEN missed[i] \ {v} ELSE missed[i]]
      /\ lock' = [lock EXCEPT ![i] = IF Plane!Ahead(i, t, <<"read", "mcp">>) /\ t = "flush"
                                     THEN lock[i] ELSE "none"]
  BY DEF Plane!InstallSnapshot, Plane!authVars, Plane!runtimeVars, Plane!channelVars
<1>3. /\ q \in Job /\ q.todo # <<>> /\ ListOK(t, q.todo) /\ q.todo[1] = <<"install", v>>
      /\ q.todo[1][1] = "install" /\ q.todo[1][2] = v /\ q.todo \in Seq(Op) /\ q.snap \in BOOLEAN
  BY <1>1, Advances DEF Job
<1>4. b \in Job /\ b.todo = q.todo /\ b.snap = FALSE
  BY <1>3 DEF Job
<1> HIDE DEF b
<1>5. r \in Job /\ r.todo = Tail(q.todo)
  BY <1>3, <1>4, Continued
<1> HIDE DEF r, v
<1>6. Turns(i, t, r)
  BY <1>1, <1>2, <1>5, Turned
<1>7. /\ ListOK(t, r.todo) /\ ~Starts(r.todo, "install") /\ ~Starts(r.todo, "take")
      /\ Starts(r.todo, "read") => t = "flush" /\ r.todo[1] = <<"read", "mcp">>
      /\ \A x \in Marks : Pledges(q.todo, x) => Pledges(r.todo, x)
  <2>1. \A x \in Marks : x # q.todo[1]
    BY <1>3 DEF Marks, Drops, Plane!Drop, Plane!DropLogged
  <2> QED BY <1>3, <1>5, <2>1, RestKeeps DEF Starts, First
<1>8. PlaneShape'
  <2>1. snap' \in [Instances -> [Views -> BOOLEAN]]
    BY <1>1, <1>2, <1>3 DEF PlaneShape
  <2>2. lock' \in [Instances -> Tasks \cup {"none"}]
    BY <1>1, <1>2 DEF PlaneShape
  <2>3. missed' \in [Instances -> SUBSET (Words \cup {"runtime"})]
    BY <1>1, <1>2 DEF PlaneShape
  <2> QED BY <1>1, <1>2, <1>6, <1>7, <2>1, <2>2, <2>3 DEF PlaneShape, Turns
<1>9. lock[i] = t /\ \A u \in Tasks : u # t =>
        ~Starts(task[i][u].todo, "read") /\ ~Starts(task[i][u].todo, "install")
  BY <1>3, Excluded DEF PlaneInv, Orderly, Starts
<1>10. Orderly'
  <2>1. Starts(r.todo, "read") => Plane!Ahead(i, t, <<"read", "mcp">>)
    <3>1. Starts(r.todo, "read") => q.todo[2] = <<"read", "mcp">> /\ 2 \in 1..Len(q.todo)
      <4>1. /\ r.todo \in Seq(Op)
            /\ \A k \in 1..Len(r.todo) : k + 1 \in 2..Len(q.todo) /\ r.todo[k] = q.todo[k + 1]
        BY <1>3, <1>5, Tailed
      <4>2. r.todo # <<>> => 1 \in 1..Len(r.todo)
        BY <4>1, Tailed
      <4> QED BY <1>7, <4>1, <4>2 DEF Starts
    <3> QED BY <1>1, <3>1, AheadIn
  <2>2. Starts(r.todo, "read") => lock'[i] = t
    BY <1>1, <1>2, <1>7, <1>9, <2>1 DEF PlaneShape
  <2>3. \A j \in Instances : j # i => lock'[j] = lock[j]
    BY <1>1, <1>2 DEF PlaneShape
  <2> QED BY <1>2, <1>6, <1>7, <1>9, <2>2, <2>3 DEF PlaneInv, Orderly, Turns
<1>11. AuthPledged'
  BY <1>1, <1>2, <1>6, <1>7 DEF PlaneInv, AuthPledged, Turns, Marks
<1>12. ASSUME NEW j \in Instances, NEW w \in Views, Pledged(j, w),
              j # i \/ w # v \/ ~q.snap
       PROVE  Pledged(j, w)'
  <2>0. <<"read", w>> \in Marks /\ <<"notify", w>> \in Marks
    BY DEF Marks
  <2>1. w \in missed[j] => w \in missed'[j]
    BY <1>1, <1>2, <1>12 DEF PlaneShape
  <2>2. \A k \in Instances, u \in Tasks : \A x \in Marks :
          Pledges(task[k][u].todo, x) => Pledges(task'[k][u].todo, x)
    BY <1>6, <1>7 DEF Turns
  <2>3. Announced(j, w) => Announced(j, w)'
    BY <1>1, <1>2, <2>0, <2>1, <2>2 DEF Announced
  <2>4. \A u \in Tasks : Installs(task[j][u], w) /\ task[j][u].snap => task'[j][u] = task[j][u]
    <3>1. j = i => ~(Installs(q, w) /\ q.snap)
      BY <1>3, <1>12 DEF Installs
    <3> QED BY <1>6, <3>1 DEF Turns
  <2> QED BY <1>12, <2>0, <2>2, <2>3, <2>4 DEF Pledged
<1>13. ViewsPledged'
  <2>1. ASSUME NEW j \in Instances, NEW w \in Views,
               ~snap'[j][w] \/ (\E u \in Tasks : Installs(task'[j][u], w) /\ ~task'[j][u].snap)
        PROVE  Pledged(j, w)'
    <3>1. \A u \in Tasks : Installs(task'[j][u], w) =>
            task'[j][u] = task[j][u] /\ j # i
      BY <1>6, <1>7, <1>9 DEF Turns, Installs, Starts
    <3>2. CASE j # i \/ w # v
      <4>1. snap'[j][w] = snap[j][w]
        BY <1>1, <1>2, <3>2 DEF PlaneShape
      <4>2. Pledged(j, w)
        BY <2>1, <3>1, <4>1 DEF PlaneInv, ViewsPledged
      <4> QED BY <1>12, <3>2, <4>2
    <3>3. CASE j = i /\ w = v
      <4>1. snap'[i][v] = q.snap
        BY <1>1, <1>2, <3>3 DEF PlaneShape
      <4>2. ~q.snap
        BY <2>1, <3>1, <3>3, <4>1
      <4>3. Installs(q, v)
        BY <1>3 DEF Installs
      <4>4. Pledged(i, v)
        BY <3>3, <4>2, <4>3 DEF PlaneInv, ViewsPledged
      <4> QED BY <1>12, <3>3, <4>2, <4>4
    <3> QED BY <3>2, <3>3
  <2> QED BY <2>1 DEF ViewsPledged
<1> QED BY <1>8, <1>10, <1>11, <1>13 DEF PlaneInv

LEMMA NotifyKeeps ==
    ASSUME PlaneInv, NEW i \in Instances, NEW t \in Tasks, Plane!At(i, t, "notify"), Plane!Done(i, t),
           UNCHANGED <<auth, missedAuth, snap, models, config, lock, queued>>,
           inbox' \in [Instances -> SUBSET Words],
           missed' \in [Instances -> SUBSET (Words \cup {"runtime"})],
           \A j \in Instances : inbox[j] \subseteq inbox'[j] /\ missed[j] \subseteq missed'[j],
           \A j \in Instances : j # i => Plane!What(i, t) \in inbox'[j] \cup missed'[j]
    PROVE  PlaneInv'
<1> DEFINE q == task[i][t]
           r == Plane!Continue(q)
           v == Plane!What(i, t)
<1>1. PlaneShape /\ "admin" \in Tasks
  BY DEF PlaneInv, Tasks, Plane!Tasks
<1>2. task' = [task EXCEPT ![i][t] = r]
  BY DEF Plane!Done
<1>3. /\ q \in Job /\ q.todo # <<>> /\ ListOK(t, q.todo) /\ q.todo[1] = <<"notify", v>>
      /\ q.todo[1][1] = "notify"
  BY <1>1, Advances
<1>4. r \in Job /\ r.todo = Tail(q.todo)
  BY <1>3, Continued
<1> HIDE DEF r
<1>5. Turns(i, t, r)
  BY <1>1, <1>2, <1>4, Turned
<1>6. /\ ListOK(t, r.todo)
      /\ \A op \in {"install", "read", "take"} : ~Starts(r.todo, op)
      /\ \A x : x # <<"notify", v>> /\ Pledges(q.todo, x) => Pledges(r.todo, x)
  <2> HIDE DEF q, v
  <2>1. ListOK(t, r.todo)
    BY <1>3, <1>4, RestKeeps
  <2>2. ~Starts(r.todo, "install") /\ ~Starts(r.todo, "read")
    BY <1>3, <1>4, RestKeeps
  <2>3. ~Starts(r.todo, "take")
    BY <1>3, <1>4, RestKeeps DEF Starts, First
  <2>4. \A x : x # <<"notify", v>> /\ Pledges(q.todo, x) => Pledges(r.todo, x)
    BY <1>3, <1>4, RestKeeps
  <2> QED BY <2>1, <2>2, <2>3, <2>4
<1>7. PlaneShape'
  BY <1>1, <1>5, <1>6 DEF PlaneShape, Turns
<1>8. Orderly'
  BY <1>5, <1>6 DEF PlaneInv, Orderly, Turns
<1>9. AuthPledged'
  <2>1. \A x \in Drops : x # <<"notify", v>>
    BY DEF Drops, Plane!Drop, Plane!DropLogged
  <2> QED BY <1>1, <1>5, <1>6, <2>1 DEF PlaneInv, AuthPledged, Turns
<1>10. ViewsPledged'
  <2>1. r = task'[i][t] /\ (t = "admin" => r = task'[i]["admin"])
    BY <1>5 DEF Turns
  <2>2. \A j \in Instances, w \in Views :
          w \in missed[j] \cup inbox[j] \cup queued[j] => Pledged(j, w)'
    BY DEF Pledged, Announced
  <2>3. ASSUME NEW j \in Instances, NEW w \in Views, j # i, t = "admin",
               Pledges(q.todo, <<"notify", w>>)
        PROVE  Announced(j, w)'
    <3>1. CASE w = v
      BY <2>3, <3>1 DEF Announced
    <3>2. CASE w # v
      <4>1. Pledges(r.todo, <<"notify", w>>)
        BY <1>6, <2>3, <3>2
      <4> QED BY <2>1, <2>3, <4>1 DEF Announced
    <3> QED BY <3>1, <3>2
  <2>4. \A w : <<"read", w>> # <<"notify", v>>
    OBVIOUS
  <2>5. \A w \in Views : Pledges(q.todo, <<"read", w>>) => Pledged(i, w)'
    BY <1>6, <2>1, <2>4 DEF Pledged
  <2>6. \A w \in Views : ~Installs(q, w) /\ ~Installs(r, w)
    BY <1>3, <1>6 DEF Installs, Starts
  <2> QED BY <1>5, <2>2, <2>3, <2>5, <2>6, ViewsKeep
<1> QED BY <1>7, <1>8, <1>9, <1>10 DEF PlaneInv

LEMMA NotifyOthersKeeps ==
    ASSUME PlaneInv, NEW i \in Instances, NEW t \in Tasks, Plane!NotifyOthers(i, t)
    PROVE  PlaneInv'
<1> DEFINE v == Plane!What(i, t)
<1>1. PlaneShape /\ Plane!At(i, t, "notify") /\ Plane!Done(i, t)
  BY DEF PlaneInv, Plane!NotifyOthers
<1>2. v \in Words
  BY <1>1, Advances
<1>3. UNCHANGED <<auth, missedAuth, snap, models, config, lock, queued>>
  BY DEF Plane!NotifyOthers, Plane!authVars, Plane!runtimeVars
<1>4. /\ inbox' = [j \in Instances |->
                     IF j \in Plane!Told(i) /\ listening[j] THEN inbox[j] \cup {v} ELSE inbox[j]]
      /\ missed' = [j \in Instances |->
                      IF j # i /\ ~listening[j] THEN missed[j] \cup {v} ELSE missed[j]]
  BY DEF Plane!NotifyOthers
<1> HIDE DEF v
<1>5. inbox' \in [Instances -> SUBSET Words] /\ \A j \in Instances : inbox[j] \subseteq inbox'[j]
  BY <1>1, <1>2, <1>4 DEF PlaneShape
<1>6. /\ missed' \in [Instances -> SUBSET (Words \cup {"runtime"})]
      /\ \A j \in Instances : missed[j] \subseteq missed'[j]
  BY <1>1, <1>2, <1>4 DEF PlaneShape
<1>7. \A j \in Instances : j # i => v \in inbox'[j] \cup missed'[j]
  BY <1>4 DEF Plane!Told
<1> QED BY <1>1, <1>3, <1>5, <1>6, <1>7, NotifyKeeps DEF v

LEMMA NotifyFailsKeeps ==
    ASSUME PlaneInv, NEW i \in Instances, NEW t \in Tasks, Plane!NotifyFails(i, t)
    PROVE  PlaneInv'
<1> DEFINE v == Plane!What(i, t)
<1>1. PlaneShape /\ Plane!At(i, t, "notify") /\ Plane!Done(i, t)
  BY DEF PlaneInv, Plane!NotifyFails
<1>2. v \in Words
  BY <1>1, Advances
<1>3. UNCHANGED <<auth, missedAuth, snap, models, config, lock, queued, inbox>>
  BY DEF Plane!NotifyFails, Plane!authVars, Plane!runtimeVars, Plane!channelVars
<1>4. missed' = [j \in Instances |-> IF j # i THEN missed[j] \cup {v} ELSE missed[j]]
  BY DEF Plane!NotifyFails
<1> HIDE DEF v
<1>5. /\ missed' \in [Instances -> SUBSET (Words \cup {"runtime"})]
      /\ \A j \in Instances : missed[j] \subseteq missed'[j]
      /\ \A j \in Instances : j # i => v \in inbox'[j] \cup missed'[j]
  BY <1>1, <1>2, <1>4 DEF PlaneShape
<1>6. inbox' \in [Instances -> SUBSET Words]
  BY <1>1, <1>3 DEF PlaneShape
<1> QED BY <1>1, <1>3, <1>5, <1>6, NotifyKeeps DEF v

LEMMA ListenerStopsKeeps ==
    ASSUME PlaneInv, NEW i \in Instances, Plane!ListenerStops(i)
    PROVE  PlaneInv'
<1>1. PlaneShape /\ UNCHANGED <<auth, missedAuth, snap, models, config, lock, queued, task>>
  BY DEF PlaneInv, Plane!ListenerStops, Plane!authVars, Plane!runtimeVars
<1>2. /\ inbox' = [inbox EXCEPT ![i] = {}]
      /\ missed' = [missed EXCEPT ![i] = missed[i] \cup inbox[i]]
  BY DEF Plane!ListenerStops
<1>3. /\ inbox' \in [Instances -> SUBSET Words]
      /\ missed' \in [Instances -> SUBSET (Words \cup {"runtime"})]
      /\ \A j \in Instances : missed[j] \cup inbox[j] \subseteq missed'[j] \cup inbox'[j]
  BY <1>1, <1>2 DEF PlaneShape
<1>4. PlaneShape' /\ Orderly' /\ AuthPledged'
  BY <1>1, <1>3 DEF PlaneInv, PlaneShape, Orderly, AuthPledged
<1>5. \A j \in Instances, v \in Views : Pledged(j, v) => Pledged(j, v)'
  BY <1>1, <1>3 DEF Pledged, Announced
<1>6. ViewsPledged'
  BY <1>1, <1>5 DEF PlaneInv, ViewsPledged
<1> QED BY <1>4, <1>6 DEF PlaneInv

LEMMA TakeStep ==
    LET p == <<<<"take", "queued">>>> IN
    p \in Seq(Op) /\ ListOK("flush", p) /\ p # <<>> /\ p[1][1] = "take" /\ Len(p) = 1
<1> DEFINE s == <<"take", "queued">>
           p == <<s>>
<1>1. s \in Op /\ s[1] = "take" /\ s[2] = "queued"
  BY DEF Op, Words
<1>2. s \notin KeyWrites /\ (\A v : s # <<"write", v>>) /\ s # <<"edit", "gone">>
  BY <1>1 DEF KeyWrites
<1> HIDE DEF s
<1>3. p \in Seq(Op) /\ Len(p) = 1 /\ p[1] = s /\ p # <<>>
  BY <1>1
<1> HIDE DEF p
<1>4. Followed(p) /\ Chained("flush", p)
  BY <1>1, <1>2, <1>3 DEF Followed, Chained
<1>5. Alone(p) /\ ReloadOnly(p)
  BY <1>1, <1>3 DEF Alone, ReloadOnly
<1> QED BY <1>1, <1>3, <1>4, <1>5 DEF ListOK, Sound, p, s

LEMMA ReceiveInvalidationKeeps ==
    ASSUME PlaneInv, NEW i \in Instances, NEW v \in Views, Plane!ReceiveInvalidation(i, v)
    PROVE  PlaneInv'
<1> DEFINE p == <<<<"take", "queued">>>>
           t == "flush"
<1>1. /\ PlaneShape /\ UNCHANGED <<auth, missedAuth, snap, models, config, lock, missed>>
      /\ t \in Tasks
  BY DEF PlaneInv, Plane!ReceiveInvalidation, Plane!authVars, Plane!runtimeVars, Tasks,
     Plane!Tasks
<1>2. /\ inbox' = [inbox EXCEPT ![i] = inbox[i] \ {v}]
      /\ queued' = [queued EXCEPT ![i] = queued[i] \cup {v}]
  BY DEF Plane!ReceiveInvalidation
<1>3. /\ inbox' \in [Instances -> SUBSET Words] /\ queued' \in [Instances -> SUBSET Views]
      /\ \A j \in Instances : inbox[j] \cup queued[j] \subseteq inbox'[j] \cup queued'[j]
      /\ \A j \in Instances : queued[j] \subseteq queued'[j]
      /\ queued'[i] # {}
  BY <1>1, <1>2 DEF PlaneShape
<1>4. \A j \in Instances, w \in Views :
        w \in missed[j] \cup inbox[j] \cup queued[j] => Pledged(j, w)'
  BY <1>1, <1>3 DEF Pledged, Announced
<1>5. CASE Plane!Idle(i, t)
  <2>1. task' = [task EXCEPT ![i][t].todo = p] /\ task[i][t].todo = <<>>
    BY <1>5 DEF Plane!ReceiveInvalidation, Plane!Idle
  <2>2. p \in Seq(Op) /\ ListOK(t, p) /\ p # <<>> /\ p[1][1] = "take"
    BY TakeStep
  <2> HIDE DEF p, t
  <2>3. PICK r \in Job : Turns(i, t, r) /\ r.todo = p
    BY <1>1, <2>1, <2>2, TurnedTodo
  <2>4. PlaneShape'
    BY <1>1, <1>3, <2>2, <2>3 DEF PlaneShape, Turns
  <2>5. Orderly'
    BY <1>1, <1>3, <2>2, <2>3 DEF PlaneInv, Orderly, Turns, Starts
  <2>6. \A w : ~Installs(r, w) /\ ~Installs(task[i][t], w) /\ ~Pledges(task[i][t].todo, w)
    BY <2>1, <2>2, <2>3 DEF Installs, Pledges
  <2>7. AuthPledged'
    <3>1. "admin" \in Tasks /\ t # "admin"
      BY DEF Tasks, Plane!Tasks, t
    <3> QED BY <1>1, <2>3, <3>1 DEF PlaneInv, AuthPledged, Turns
  <2>8. ViewsPledged'
    BY <1>1, <1>4, <2>3, <2>6, ViewsKeep
  <2> QED BY <2>4, <2>5, <2>7, <2>8 DEF PlaneInv
<1>6. CASE ~Plane!Idle(i, t)
  <2>1. task' = task
    BY <1>6 DEF Plane!ReceiveInvalidation
  <2>2. PlaneShape' /\ Orderly' /\ AuthPledged'
    BY <1>1, <1>3, <2>1 DEF PlaneInv, PlaneShape, Orderly, AuthPledged
  <2>3. \A j \in Instances, w \in Views : Pledged(j, w) => Pledged(j, w)'
    BY <1>1, <1>3, <2>1 DEF Pledged, Announced
  <2>4. ViewsPledged'
    BY <1>1, <2>1, <2>3 DEF PlaneInv, ViewsPledged
  <2> QED BY <2>2, <2>4 DEF PlaneInv
<1> QED BY <1>5, <1>6

\* The lists of the flush: one snapshot, or both under one lock.
FlushList(p, V) ==
    /\ p \in Seq(Op) /\ ListOK("flush", p) /\ p # <<>> /\ p[1][1] = "lock"
    /\ \A v \in V : Pledges(p, <<"read", v>>)

LEMMA OneFlushed ==
    ASSUME NEW v \in Views
    PROVE  FlushList(Plane!InvalidateLocal(v), {v})
<1> DEFINE a == <<"lock", v>>
           b == <<"read", v>>
           c == <<"install", v>>
           p == <<a, b, c>>
<1>1. /\ a \in Op /\ a[1] = "lock" /\ b \in Op /\ b[1] = "read" /\ c \in Op /\ c[1] = "install"
      /\ Plane!InvalidateLocal(v) = p
  BY DEF Op, Words, Views, Plane!Views, Plane!InvalidateLocal
<1>2. Body(Plane!InvalidateLocal(v))
  <2>1. Body(Plane!InvalidateLocal(v) \o <<>>)
    BY Block, EmptyBody DEF Views
  <2>2. Plane!InvalidateLocal(v) \in Seq(Op)
    BY <1>1
  <2> QED BY <2>1, <2>2, ConcatEmptySeq
<1> HIDE DEF a, b, c
<1>3. Len(p) = 3 /\ p[1] = a /\ p[2] = b /\ p[3] = c /\ p \in Seq(Op) /\ p # <<>>
  BY <1>1
<1>4. Sound("flush", p)
  BY <1>1, <1>2, Strict DEF Body
<1> HIDE DEF p
<1>5. \A k \in 1..Len(p) : k = 1 \/ k = 2 \/ k = 3
  BY <1>3
<1>6. ReloadOnly(p)
  BY <1>1, <1>3, <1>5 DEF ReloadOnly
<1>7. Alone(p) /\ ~Starts(p, "take")
  BY <1>1, <1>3 DEF Alone, Starts
<1>8. Pledges(p, b)
  BY <1>1, <1>3 DEF Pledges
<1> QED BY <1>1, <1>3, <1>4, <1>6, <1>7, <1>8 DEF FlushList, ListOK, b

LEMMA FiveSteps ==
    ASSUME NEW a \in Op, NEW b \in Op, NEW c \in Op, NEW x \in Op, NEW d \in Op, NEW e \in Op
    PROVE  <<a, b, c>> \o Tail(<<x, d, e>>) = <<a, b, c, d, e>>
<1> DEFINE l == <<a, b, c>> \o Tail(<<x, d, e>>)
           r == <<a, b, c, d, e>>
<1>1. Tail(<<x, d, e>>) = <<d, e>>
  OBVIOUS
<1>2. l = <<a, b, c>> \o <<d, e>>
  BY <1>1
<1>3. /\ l \in Seq(Op) /\ Len(l) = 5
      /\ l[1] = a /\ l[2] = b /\ l[3] = c /\ l[4] = d /\ l[5] = e
  BY <1>2
<1>4. /\ r \in Seq(Op) /\ Len(r) = 5
      /\ r[1] = a /\ r[2] = b /\ r[3] = c /\ r[4] = d /\ r[5] = e
  OBVIOUS
<1> HIDE DEF l, r
<1>5. l = r
  BY <1>3, <1>4, SeqEqual
<1> QED BY <1>5 DEF l, r

LEMMA BothFlushed ==
    FlushList(Plane!InvalidateLocal("targets") \o Tail(Plane!InvalidateLocal("mcp")), Views)
<1> DEFINE a == <<"lock", "targets">>
           b == <<"read", "targets">>
           c == <<"install", "targets">>
           d == <<"read", "mcp">>
           e == <<"install", "mcp">>
           p == <<a, b, c, d, e>>
<1>1. /\ a \in Op /\ b \in Op /\ c \in Op /\ d \in Op /\ e \in Op
      /\ a[1] = "lock" /\ b[1] = "read" /\ c[1] = "install" /\ d[1] = "read" /\ e[1] = "install"
      /\ b[2] = "targets" /\ c[2] = "targets" /\ d[2] = "mcp" /\ e[2] = "mcp"
  BY DEF Op, Words
<1>2. /\ c = <<"install", b[2]>> /\ b = <<"read", c[2]>> /\ a = <<"lock", b[2]>>
      /\ e = <<"install", d[2]>> /\ d = <<"read", e[2]>> /\ d = <<"read", "mcp">>
  BY <1>1
<1>3. \A x \in {a, b, c, d, e} :
        x \notin KeyWrites /\ (\A v : x # <<"write", v>>) /\ x # <<"edit", "gone">>
  BY <1>1 DEF KeyWrites
<1>4. Plane!InvalidateLocal("targets") \o Tail(Plane!InvalidateLocal("mcp")) = p
  <2> DEFINE x == <<"lock", "mcp">>
  <2>1. x \in Op
    BY DEF Op, Words
  <2>2. Plane!InvalidateLocal("targets") = <<a, b, c>> /\ Plane!InvalidateLocal("mcp") = <<x, d, e>>
    BY DEF Plane!InvalidateLocal
  <2> HIDE DEF a, b, c, d, e, x
  <2>3. <<a, b, c>> \o Tail(<<x, d, e>>) = <<a, b, c, d, e>>
    BY <1>1, <2>1, FiveSteps
  <2> QED BY <2>2, <2>3, Zenon
<1> HIDE DEF a, b, c, d, e
<1>5. /\ Len(p) = 5 /\ p[1] = a /\ p[2] = b /\ p[3] = c /\ p[4] = d /\ p[5] = e
      /\ p \in Seq(Op) /\ p # <<>>
  BY <1>1
<1> HIDE DEF p
<1>6. \A k \in 1..Len(p) : k = 1 \/ k = 2 \/ k = 3 \/ k = 4 \/ k = 5
  BY <1>5
<1>7. \A k \in 1..Len(p) : p[k] \in {a, b, c, d, e}
  BY <1>5, <1>6
<1>8. Followed(p)
  BY <1>3, <1>7 DEF Followed
<1>9. Chained("flush", p)
  <2>1. ASSUME NEW k \in 1..Len(p)
        PROVE  /\ p[k][1] = "read" => k < Len(p) /\ p[k + 1] = <<"install", p[k][2]>>
               /\ k > 1 => /\ p[k][1] \notin First
                           /\ p[k][1] = "install" => p[k - 1] = <<"read", p[k][2]>>
                           /\ p[k][1] = "read" => \/ p[k - 1] = <<"lock", p[k][2]>>
                                                  \/ p[k - 1][1] = "install" /\ p[k] = <<"read", "mcp">>
    BY <1>1, <1>2, <1>5, <1>6 DEF First
  <2> QED BY <1>3, <1>7, <2>1 DEF Chained
<1>10. ReloadOnly(p)
  BY <1>1, <1>7 DEF ReloadOnly
<1>11. Alone(p) /\ ~Starts(p, "take")
  BY <1>1, <1>5 DEF Alone, Starts
<1>12. Pledges(p, b) /\ Pledges(p, d)
  BY <1>1, <1>5 DEF Pledges
<1>13. \A v \in Views : Pledges(p, <<"read", v>>)
  BY <1>12 DEF Views, Plane!Views, b, d
<1> QED BY <1>1, <1>4, <1>5, <1>8, <1>9, <1>10, <1>11, <1>13 DEF FlushList, ListOK, Sound

LEMMA FlushRemoteTargetsKeeps ==
    ASSUME PlaneInv, NEW i \in Instances, Plane!FlushRemoteTargets(i)
    PROVE  PlaneInv'
<1> DEFINE t == "flush"
           q == task[i][t]
           p == CASE queued[i] = Plane!Views ->
                       Plane!InvalidateLocal("targets") \o Tail(Plane!InvalidateLocal("mcp"))
                  [] queued[i] = {"targets"} -> Plane!InvalidateLocal("targets")
                  [] queued[i] = {"mcp"} -> Plane!InvalidateLocal("mcp")
<1>1. /\ PlaneShape /\ UNCHANGED <<auth, missedAuth, snap, models, config, lock, inbox, missed>>
      /\ t \in Tasks /\ Plane!At(i, t, "take")
  BY DEF PlaneInv, Plane!FlushRemoteTargets, Plane!authVars, Plane!runtimeVars, Tasks,
     Plane!Tasks
<1>2. queued' = [queued EXCEPT ![i] = {}] /\ task' = [task EXCEPT ![i][t].todo = p]
  BY DEF Plane!FlushRemoteTargets
<1>3. q.todo # <<>> /\ ListOK(t, q.todo) /\ q.todo[1][1] = "take" /\ Len(q.todo) = 1
  BY <1>1, Advances DEF ListOK, Alone
<1>4. queued[i] # {} /\ queued[i] \subseteq Views
  BY <1>1, <1>3 DEF PlaneInv, Orderly, PlaneShape, Starts
<1>5. FlushList(p, queued[i])
  <2>1. queued[i] = Views \/ queued[i] = {"targets"} \/ queued[i] = {"mcp"}
    BY <1>4 DEF Views, Plane!Views
  <2>2. /\ Plane!Views = {"targets", "mcp"} /\ "targets" # "mcp"
        /\ Plane!Views # {"targets"} /\ Plane!Views # {"mcp"}
    BY DEF Plane!Views
  <2>3. CASE queued[i] = Views
    <3>1. p = Plane!InvalidateLocal("targets") \o Tail(Plane!InvalidateLocal("mcp"))
      BY <2>2, <2>3 DEF Views
    <3> QED BY <2>3, <3>1, BothFlushed
  <2>4. CASE queued[i] = {"targets"}
    <3>1. p = Plane!InvalidateLocal("targets")
      BY <2>2, <2>4
    <3> QED BY <2>2, <2>4, <3>1, OneFlushed DEF Views
  <2>5. CASE queued[i] = {"mcp"}
    <3>1. p = Plane!InvalidateLocal("mcp")
      BY <2>2, <2>5
    <3> QED BY <2>2, <2>5, <3>1, OneFlushed DEF Views
  <2> QED BY <2>1, <2>3, <2>4, <2>5
<1> HIDE DEF p, t
<1>6. /\ p \in Seq(Op) /\ ListOK(t, p) /\ p # <<>> /\ p[1][1] = "lock"
      /\ \A v \in queued[i] : Pledges(p, <<"read", v>>)
  BY <1>5 DEF FlushList, t
<1>7. PICK r \in Job : Turns(i, t, r) /\ r.todo = p
  BY <1>1, <1>2, <1>6, TurnedTodo
<1>8. queued' \in [Instances -> SUBSET Views] /\ \A j \in Instances : j # i => queued'[j] = queued[j]
  BY <1>1, <1>2 DEF PlaneShape
<1>9. PlaneShape'
  BY <1>1, <1>6, <1>7, <1>8 DEF PlaneShape, Turns
<1>10. Orderly'
  <2>1. \A u \in Tasks : u # t => ~Starts(task[i][u].todo, "take")
    BY <1>1 DEF PlaneShape, ListOK, t
  <2> QED BY <1>1, <1>6, <1>7, <1>8, <2>1 DEF PlaneInv, Orderly, Turns, Starts
<1>11. AuthPledged'
  <2>1. t # "admin" /\ "admin" \in Tasks
    BY DEF t, Tasks, Plane!Tasks
  <2> QED BY <1>1, <1>7, <2>1 DEF PlaneInv, AuthPledged, Turns
<1>12. ViewsPledged'
  <2>1. \A v \in Views : ~Pledges(q.todo, <<"read", v>>) /\ ~Installs(q, v)
    BY <1>3 DEF Pledges, Installs
  <2>2. \A v \in Views : ~Installs(r, v)
    BY <1>6, <1>7 DEF Installs
  <2>3. \A v \in queued[i] : Pledged(i, v)'
    BY <1>1, <1>6, <1>7 DEF Turns, Pledged
  <2>4. \A j \in Instances, v \in Views :
          v \in missed[j] \cup inbox[j] \cup queued[j] => Pledged(j, v)'
    BY <1>1, <1>8, <2>3 DEF Pledged, Announced
  <2>5. t # "admin"
    BY DEF t
  <2> QED BY <1>1, <1>7, <2>1, <2>2, <2>4, <2>5, ViewsKeep
<1> QED BY <1>9, <1>10, <1>11, <1>12 DEF PlaneInv

LEMMA RestartKeeps ==
    ASSUME PlaneInv, NEW i \in Instances, Plane!Restart(i)
    PROVE  PlaneInv'
<1> DEFINE idle == Plane!IdleTask
<1>1. PlaneShape /\ "admin" \in Tasks
  BY DEF PlaneInv, Tasks, Plane!Tasks
<1>2. /\ snap' = [snap EXCEPT ![i] = [v \in Views |-> TRUE]]
      /\ models' = [models EXCEPT ![i] = TRUE] /\ config' = [config EXCEPT ![i] = TRUE]
      /\ task' = [task EXCEPT ![i] = [t \in Tasks |-> idle]]
      /\ missed' = [j \in Instances |->
                      IF j # i THEN missed[j] \cup UNION {Plane!Unheard(i, t, j) : t \in Tasks}
                      ELSE {"runtime"} \cap {x \in {"runtime"} : groups2 = "stale"}]
      /\ missedAuth' = (missedAuth \/ \E t \in Tasks : Plane!Ahead(i, t, Plane!Drop)
                                                         \/ Plane!Ahead(i, t, Plane!DropLogged))
      /\ lock' = [lock EXCEPT ![i] = "none"]
      /\ inbox' = [inbox EXCEPT ![i] = {}] /\ queued' = [queued EXCEPT ![i] = {}]
      /\ auth' = auth
  BY DEF Plane!Restart, Views, Tasks
<1>3. idle \in Job /\ idle.todo = <<>>
  BY IdleJob
<1> HIDE DEF idle
<1>4. /\ task' \in [Instances -> [Tasks -> Job]]
      /\ \A u \in Tasks : task'[i][u].todo = <<>>
      /\ \A j \in Instances : j # i => task'[j] = task[j]
  BY <1>1, <1>2, <1>3 DEF PlaneShape
<1>5. \A t, j : Plane!Unheard(i, t, j) \subseteq Words \cup {"runtime"}
  BY DEF Plane!Unheard, Words, Plane!Views
<1>6. PlaneShape'
  <2>1. \A j \in Instances, u \in Tasks : ListOK(u, task'[j][u].todo)
    BY <1>1, <1>4, EmptyList DEF PlaneShape
  <2>2. missed' \in [Instances -> SUBSET (Words \cup {"runtime"})]
    <3>1. \A j \in Instances : missed'[j] \subseteq Words \cup {"runtime"}
      BY <1>1, <1>2, <1>5 DEF PlaneShape
    <3> QED BY <1>2, <3>1
  <2>3. /\ snap' \in [Instances -> [Views -> BOOLEAN]]
        /\ models' \in [Instances -> BOOLEAN] /\ config' \in [Instances -> BOOLEAN]
    BY <1>1, <1>2 DEF PlaneShape
  <2>4. /\ lock' \in [Instances -> Tasks \cup {"none"}]
        /\ inbox' \in [Instances -> SUBSET Words] /\ queued' \in [Instances -> SUBSET Views]
    BY <1>1, <1>2 DEF PlaneShape
  <2> QED BY <1>4, <2>1, <2>2, <2>3, <2>4 DEF PlaneShape
<1>7. \A j \in Instances : j # i =>
        /\ snap'[j] = snap[j] /\ lock'[j] = lock[j] /\ inbox'[j] = inbox[j] /\ queued'[j] = queued[j]
        /\ missed[j] \subseteq missed'[j]
  BY <1>1, <1>2 DEF PlaneShape
<1>8. Orderly'
  BY <1>4, <1>7 DEF PlaneInv, Orderly, Starts
<1>9. AuthPledged'
  <2>1. \A x \in Drops : Pledges(task[i]["admin"].todo, x) => missedAuth'
    BY <1>1, <1>2, AheadIn DEF Drops
  <2> QED BY <1>1, <1>2, <1>4, <2>1 DEF PlaneInv, AuthPledged
<1>10. ASSUME NEW j \in Instances, NEW v \in Views, j # i, Pledged(j, v)
       PROVE  Pledged(j, v)'
  <2>1. Pledges(task[i]["admin"].todo, <<"notify", v>>) => v \in missed'[j]
    <3>1. Pledges(task[i]["admin"].todo, <<"notify", v>>) => v \in Plane!Unheard(i, "admin", j)
      BY <1>1, <1>10, AheadIn DEF Plane!Unheard, Views
    <3> QED BY <1>1, <1>2, <1>10, <3>1
  <2>2. Announced(j, v) => Announced(j, v)'
    BY <1>4, <1>7, <1>10, <2>1 DEF Announced
  <2> QED BY <1>4, <1>10, <2>2 DEF Pledged
<1>11. ViewsPledged'
  <2>1. \A v \in Views : snap'[i][v] /\ \A u \in Tasks : ~Installs(task'[i][u], v)
    BY <1>1, <1>2, <1>4 DEF PlaneShape, Installs
  <2> QED BY <1>4, <1>7, <1>10, <2>1 DEF PlaneInv, ViewsPledged
<1> QED BY <1>6, <1>8, <1>9, <1>11 DEF PlaneInv

\* What a write makes of the other tasks: the lists stay.
LEMMA Spoiled ==
    ASSUME NEW q \in Job, NEW table, NEW own \in BOOLEAN
    PROVE  LET s == Plane!SpoilTask(q, table, own) IN
           /\ s \in Job /\ s.todo = q.todo
           /\ s.snap = (q.snap /\ ~(table \in Views /\ q.todo # <<>> /\ Head(q.todo)[2] = table))
BY DEF Plane!SpoilTask, Job, Views

\* The step of i that commits rows of a table.
Commits(i, table) ==
    /\ task' \in [Instances -> [Tasks -> Job]]
    /\ \A j \in Instances, u \in Tasks :
         /\ j # i \/ u # "admin" =>
              /\ task'[j][u].todo = task[j][u].todo
              /\ table \notin Views \/ task[j][u].todo = <<>> \/ Head(task[j][u].todo)[2] # table
                   => task'[j][u].snap = task[j][u].snap
    /\ task'[i]["admin"].todo = Tail(task[i]["admin"].todo)

LEMMA Committed ==
    ASSUME PlaneShape, NEW i \in Instances, NEW table, task[i]["admin"].todo # <<>>,
           Plane!Commit(i, "admin", table)
    PROVE  /\ Commits(i, table)
           /\ models' \in [Instances -> BOOLEAN] /\ config' \in [Instances -> BOOLEAN]
           /\ snap' \in [Instances -> [Views -> BOOLEAN]]
           /\ \A j \in Instances, v \in Views : v # table => snap'[j][v] = snap[j][v]
           /\ auth' = "stale" => auth = "stale" \/ table \in {"key", "owner", "gone"}
           /\ UNCHANGED <<lock, inbox, queued>>
<1> DEFINE s(j, u) == Plane!SpoilTask(task[j][u], table, <<j, u>> = <<i, "admin">> /\ table = "settings")
<1>1. task' = [j \in Instances |-> [u \in Tasks |->
                 IF <<j, u>> = <<i, "admin">> THEN Plane!Continue(s(j, u)) ELSE s(j, u)]]
  BY DEF Plane!Commit, Tasks
<1>2. ASSUME NEW j \in Instances, NEW u \in Tasks
      PROVE  /\ s(j, u) \in Job /\ s(j, u).todo = task[j][u].todo
             /\ s(j, u).snap = (task[j][u].snap /\ ~(/\ table \in Views /\ task[j][u].todo # <<>>
                                                      /\ Head(task[j][u].todo)[2] = table))
             /\ task[j][u].snap \in BOOLEAN
  <2>1. task[j][u] \in Job
    BY DEF PlaneShape
  <2>2. task[j][u].snap \in BOOLEAN
    BY <2>1 DEF Job
  <2> QED BY <2>1, <2>2, Spoiled
<1> HIDE DEF s
<1>3. "admin" \in Tasks
  BY DEF Tasks, Plane!Tasks
<1>4. Plane!Continue(s(i, "admin")) \in Job /\ Plane!Continue(s(i, "admin")).todo = Tail(task[i]["admin"].todo)
  BY <1>2, <1>3, Continued
<1>5. Commits(i, table)
  <2>1. task'[i]["admin"] = Plane!Continue(s(i, "admin"))
    BY <1>1, <1>3
  <2>2. \A j \in Instances, u \in Tasks : j # i \/ u # "admin" => task'[j][u] = s(j, u)
    BY <1>1
  <2>3. task' \in [Instances -> [Tasks -> Job]]
    BY <1>1, <1>2, <1>4
  <2>4. \A j \in Instances, u \in Tasks : j # i \/ u # "admin" =>
          task'[j][u].todo = task[j][u].todo
    BY <1>2, <2>2
  <2>5. \A j \in Instances, u \in Tasks : j # i \/ u # "admin" =>
          (table \notin Views \/ task[j][u].todo = <<>> \/ Head(task[j][u].todo)[2] # table
              => task'[j][u].snap = task[j][u].snap)
    BY <1>2, <2>2
  <2> QED BY <1>4, <2>1, <2>3, <2>4, <2>5 DEF Commits
<1>6. models' \in [Instances -> BOOLEAN] /\ config' \in [Instances -> BOOLEAN]
  BY DEF Plane!Commit, PlaneShape
<1>7. /\ snap' \in [Instances -> [Views -> BOOLEAN]]
      /\ \A j \in Instances, v \in Views : v # table => snap'[j][v] = snap[j][v]
  BY DEF Plane!Commit, PlaneShape, Views
<1>8. auth' = "stale" => auth = "stale" \/ table \in {"key", "owner", "gone"}
  BY DEF Plane!Commit, Plane!Spoil
<1>9. UNCHANGED <<lock, inbox, queued>>
  BY DEF Plane!Commit, Plane!channelVars
<1> QED BY <1>5, <1>6, <1>7, <1>8, <1>9

LEMMA HasSteps ==
    ASSUME NEW p \in Seq(Op), NEW k \in 1..Len(p)
    PROVE  p # <<>>
OBVIOUS

LEMMA CommitKeeps ==
    ASSUME PlaneInv, NEW i \in Instances, NEW op \in {"write", "edit"}, Plane!At(i, "admin", op),
           Plane!Commit(i, "admin", Plane!What(i, "admin")),
           missedAuth => missedAuth',
           missed' \in [Instances -> SUBSET (Words \cup {"runtime"})],
           \A j \in Instances : missed[j] \subseteq missed'[j],
           Plane!What(i, "admin") \in Views =>
               \A j \in Instances : \/ Plane!What(i, "admin") \in missed'[j]
                                    \/ <<op, Plane!What(i, "admin")>> = <<"write", Plane!What(i, "admin")>>,
           Plane!What(i, "admin") \in {"key", "owner", "gone"} =>
               \/ missedAuth'
               \/ <<op, Plane!What(i, "admin")>> \in KeyWrites
    PROVE  PlaneInv'
<1> DEFINE t == "admin"
           p == task[i][t].todo
<1>0. PICK table : table = Plane!What(i, t)
  OBVIOUS
<1>1. PlaneShape /\ t \in Tasks
  BY DEF PlaneInv, Tasks, Plane!Tasks
<1>2. /\ p \in Seq(Op) /\ p # <<>> /\ ListOK(t, p) /\ p[1] = <<op, table>> /\ p[1][1] = op
  BY <1>0, <1>1, Advances
<1>3. /\ Commits(i, table)
      /\ models' \in [Instances -> BOOLEAN] /\ config' \in [Instances -> BOOLEAN]
      /\ snap' \in [Instances -> [Views -> BOOLEAN]]
      /\ \A j \in Instances, v \in Views : v # table => snap'[j][v] = snap[j][v]
      /\ auth' = "stale" => auth = "stale" \/ table \in {"key", "owner", "gone"}
      /\ UNCHANGED <<lock, inbox, queued>>
  BY <1>0, <1>1, <1>2, Committed
<1>4. /\ task'[i][t].todo = Tail(p)
      /\ \A j \in Instances, u \in Tasks : j # i \/ u # t => task'[j][u].todo = task[j][u].todo
  BY <1>3 DEF Commits
<1>5. /\ ListOK(t, Tail(p))
      /\ \A o \in {"install", "read", "take"} : ~Starts(Tail(p), o)
      /\ \A x \in Marks : Pledges(p, x) => Pledges(Tail(p), x)
      /\ Tail(p) # <<>> => Tail(p)[1][1] \notin First
  <2>1. \A x \in Marks : x # p[1]
    BY <1>2 DEF Marks, Drops, Plane!Drop, Plane!DropLogged
  <2> QED BY <1>2, <2>1, RestKeeps DEF Starts, First
<1>6. \* What follows the write.
      ASSUME NEW S, \E m \in (1 + 1)..Len(p) : p[m] \in S
      PROVE  \E x \in S : Pledges(Tail(p), x)
  <2>1. PICK m \in 2..Len(p) : p[m] \in S
    BY <1>6
  <2>2. m - 1 \in 1..Len(Tail(p)) /\ Tail(p)[m - 1] = p[m] /\ Tail(p) \in Seq(Op)
    BY <1>2, Tailed
  <2>3. Tail(p) # <<>>
    BY <2>2, HasSteps
  <2> QED BY <1>5, <2>1, <2>2, <2>3 DEF Pledges, First
<1>7. 1 \in 1..Len(p) /\ Followed(p)
  BY <1>2, Tailed DEF ListOK, Sound
<1>8. p[1] \in KeyWrites => \E x \in Drops : Pledges(Tail(p), x)
  BY <1>6, <1>7 DEF Followed
<1>9. ASSUME NEW v \in Views, p[1] = <<"write", v>>
      PROVE  Pledges(Tail(p), <<"read", v>>) /\ Pledges(Tail(p), <<"notify", v>>)
  <2>1. /\ \E m \in (1 + 1)..Len(p) : p[m] \in {<<"read", v>>}
        /\ \E m \in (1 + 1)..Len(p) : p[m] \in {<<"notify", v>>}
    BY <1>7, <1>9 DEF Followed, Views
  <2>2. (\E x \in {<<"read", v>>} : Pledges(Tail(p), x)) /\ \E x \in {<<"notify", v>>} : Pledges(Tail(p), x)
    BY <1>6, <2>1
  <2> QED BY <2>2
<1> HIDE DEF t, p
<1>10. PlaneShape'
  <2>1. \A j \in Instances, u \in Tasks : ListOK(u, task'[j][u].todo)
    BY <1>1, <1>4, <1>5 DEF PlaneShape
  <2> QED BY <1>1, <1>3, <2>1 DEF PlaneShape, Commits
<1>11. Orderly'
  <2>1. \A j \in Instances, u \in Tasks : \A o \in {"install", "read", "take"} :
          Starts(task'[j][u].todo, o) => Starts(task[j][u].todo, o)
    BY <1>4, <1>5
  <2> QED BY <1>3, <2>1 DEF PlaneInv, Orderly
<1>12. \A j \in Instances, u \in Tasks : \A x \in Marks :
         Pledges(task[j][u].todo, x) => Pledges(task'[j][u].todo, x)
  BY <1>4, <1>5 DEF p
<1>13. AuthPledged'
  <2>1. table \in {"key", "owner", "gone"} => missedAuth' \/ p[1] \in KeyWrites
    BY <1>0, <1>2 DEF t
  <2>2. table \in {"key", "owner", "gone"} => missedAuth' \/ \E x \in Drops : Pledges(task'[i][t].todo, x)
    BY <1>4, <1>8, <2>1
  <2>3. \A j \in Instances : \A x \in Drops : Pledges(task[j][t].todo, x) => Pledges(task'[j][t].todo, x)
    BY <1>1, <1>12 DEF Marks
  <2> QED BY <1>3, <2>2, <2>3 DEF PlaneInv, AuthPledged, t
<1>14. ASSUME NEW j \in Instances, table \in Views
       PROVE  Pledged(j, table)'
  <2>1. table \in missed'[j] \/ p[1] = <<"write", table>>
    BY <1>0, <1>2, <1>14 DEF t
  <2>2. CASE table \in missed'[j]
    BY <2>2 DEF Pledged, Announced
  <2>3. CASE p[1] = <<"write", table>>
    <3>1. Pledges(task'[i][t].todo, <<"read", table>>) /\ Pledges(task'[i][t].todo, <<"notify", table>>)
      BY <1>4, <1>9, <1>14, <2>3
    <3>2. CASE j = i
      BY <1>1, <3>1, <3>2 DEF Pledged
    <3>3. CASE j # i
      BY <3>1, <3>3 DEF Pledged, Announced, t
    <3> QED BY <3>2, <3>3
  <2> QED BY <2>1, <2>2, <2>3
<1>15. \A j \in Instances, u \in Tasks, v \in Views : v # table =>
         /\ Installs(task'[j][u], v) => Installs(task[j][u], v) /\ task'[j][u].snap = task[j][u].snap
         /\ Installs(task[j][u], v) => Installs(task'[j][u], v) /\ task'[j][u].snap = task[j][u].snap
  <2> SUFFICES ASSUME NEW j \in Instances, NEW u \in Tasks, NEW v \in Views, v # table
               PROVE  /\ Installs(task'[j][u], v) => /\ Installs(task[j][u], v)
                                                     /\ task'[j][u].snap = task[j][u].snap
                      /\ Installs(task[j][u], v) => /\ Installs(task'[j][u], v)
                                                    /\ task'[j][u].snap = task[j][u].snap
    OBVIOUS
  <2>1. CASE j = i /\ u = t
    <3>1. ~Installs(task[i][t], v)
      BY <1>2 DEF Installs, p
    <3>2. ~Starts(task'[i][t].todo, "install")
      BY <1>4, <1>5
    <3>3. ~Installs(task'[i][t], v)
      BY <3>2 DEF Installs, Starts
    <3> QED BY <2>1, <3>1, <3>3
  <2>2. CASE ~(j = i /\ u = t)
    <3>1. task'[j][u].todo = task[j][u].todo
      BY <1>4, <2>2
    <3>2. Installs(task[j][u], v) => Head(task[j][u].todo)[2] # table
      <4>1. task[j][u].todo # <<>> => Head(task[j][u].todo) = task[j][u].todo[1]
        BY <1>1, Starting
      <4> QED BY <4>1 DEF Installs
    <3>3. Installs(task[j][u], v) => task'[j][u].snap = task[j][u].snap
      BY <1>3, <2>2, <3>2 DEF Commits, t
    <3> QED BY <3>1, <3>3 DEF Installs
  <2> QED BY <2>1, <2>2
<1>16. ASSUME NEW j \in Instances, NEW v \in Views, v # table, Pledged(j, v)
       PROVE  Pledged(j, v)'
  <2>1. <<"read", v>> \in Marks /\ <<"notify", v>> \in Marks
    BY DEF Marks
  <2>2. Announced(j, v) => Announced(j, v)'
    BY <1>1, <1>3, <1>12, <2>1 DEF Announced, t
  <2> QED BY <1>12, <1>15, <1>16, <2>1, <2>2 DEF Pledged
<1>17. ViewsPledged'
  <2>1. ASSUME NEW j \in Instances, NEW v \in Views, v # table,
               ~snap'[j][v] \/ (\E u \in Tasks : Installs(task'[j][u], v) /\ ~task'[j][u].snap)
        PROVE  Pledged(j, v)'
    <3>1. ~snap[j][v] \/ (\E u \in Tasks : Installs(task[j][u], v) /\ ~task[j][u].snap)
      BY <1>3, <1>15, <2>1
    <3> QED BY <1>16, <2>1, <3>1 DEF PlaneInv, ViewsPledged
  <2> QED BY <1>14, <2>1 DEF ViewsPledged
<1> QED BY <1>10, <1>11, <1>13, <1>17 DEF PlaneInv

LEMMA WriteRowsKeeps ==
    ASSUME PlaneInv, NEW i \in Instances, Plane!WriteRows(i)
    PROVE  PlaneInv'
<1> DEFINE table == Plane!What(i, "admin")
<1>1. /\ Plane!At(i, "admin", "write") /\ Plane!Commit(i, "admin", table)
      /\ missedAuth' = missedAuth /\ missed' = missed
  BY DEF Plane!WriteRows
<1>2. missed' \in [Instances -> SUBSET (Words \cup {"runtime"})]
  BY <1>1 DEF PlaneInv, PlaneShape
<1>3. table \in {"key", "owner", "gone"} => <<"write", table>> \in KeyWrites
  BY DEF KeyWrites
<1> HIDE DEF table
<1>4. \A j \in Instances : missed[j] \subseteq missed'[j]
  BY <1>1
<1> QED BY <1>1, <1>2, <1>3, <1>4, CommitKeeps DEF table

LEMMA EditRowsKeeps ==
    ASSUME PlaneInv, NEW i \in Instances, Plane!EditRows(i)
    PROVE  PlaneInv'
<1> DEFINE table == Plane!What(i, "admin")
<1>1. /\ Plane!At(i, "admin", "edit") /\ Plane!Commit(i, "admin", table)
      /\ missedAuth' = (missedAuth \/ table \in {"key", "owner"})
      /\ missed' = [j \in Instances |-> missed[j] \cup ({table} \cap Plane!Views)]
      /\ PlaneShape /\ "admin" \in Tasks
  BY DEF Plane!EditRows, PlaneInv, Tasks, Plane!Tasks
<1>2. table # "gone"
  <2> DEFINE p == task[i]["admin"].todo
  <2>1. p \in Seq(Op) /\ p # <<>> /\ ListOK("admin", p) /\ p[1] = <<"edit", table>>
    BY <1>1, Advances
  <2>2. 1 \in 1..Len(p)
    BY <2>1, Tailed
  <2> QED BY <2>1, <2>2 DEF ListOK, Sound, Chained
<1> HIDE DEF table
<1>3. /\ missed' \in [Instances -> SUBSET (Words \cup {"runtime"})]
      /\ \A j \in Instances : missed[j] \subseteq missed'[j]
      /\ table \in Views => \A j \in Instances : table \in missed'[j]
  BY <1>1 DEF PlaneShape, Views, Plane!Views, Words
<1>4. (missedAuth => missedAuth') /\ (table \in {"key", "owner", "gone"} => missedAuth')
  BY <1>1, <1>2
<1> QED BY <1>1, <1>3, <1>4, CommitKeeps DEF table

LEMMA PlaneInitially == Plane!Init => PlaneInv
<1> SUFFICES ASSUME Plane!Init PROVE PlaneInv
  OBVIOUS
<1> DEFINE idle == Plane!IdleTask
<1>1. idle \in Job /\ idle.todo = <<>>
  BY IdleJob
<1>2. task = [i \in Instances |-> [t \in Tasks |-> idle]]
  BY DEF Plane!Init, Tasks
<1> HIDE DEF idle
<1>3. /\ task \in [Instances -> [Tasks -> Job]]
      /\ \A i \in Instances, t \in Tasks : task[i][t].todo = <<>>
  BY <1>1, <1>2
<1>4. PlaneShape
  <2>1. \A i \in Instances, t \in Tasks : ListOK(t, task[i][t].todo)
    BY <1>3, EmptyList
  <2>2. /\ snap \in [Instances -> [Views -> BOOLEAN]]
        /\ models \in [Instances -> BOOLEAN] /\ config \in [Instances -> BOOLEAN]
        /\ lock \in [Instances -> Tasks \cup {"none"}]
        /\ inbox \in [Instances -> SUBSET Words] /\ queued \in [Instances -> SUBSET Views]
        /\ missed \in [Instances -> SUBSET (Words \cup {"runtime"})]
    BY DEF Plane!Init, Views
  <2> QED BY <1>3, <2>1, <2>2 DEF PlaneShape
<1>5. Orderly
  BY <1>3 DEF Orderly, Starts
<1>6. AuthPledged
  BY DEF Plane!Init, AuthPledged
<1>7. ViewsPledged
  <2>1. \A i \in Instances, v \in Views : snap[i][v]
    BY DEF Plane!Init, Views
  <2> QED BY <1>3, <2>1 DEF ViewsPledged, Installs
<1> QED BY <1>4, <1>5, <1>6, <1>7 DEF PlaneInv

\* The families of handlers that the model has.
KnownFamilies == Families \subseteq {"keys", "governance", "scope policies", "runtime"}

LEMMA TaskStepKeeps ==
    ASSUME PlaneInv, NEW i \in Instances, NEW t \in Tasks, Plane!TaskStep(i, t)
    PROVE  PlaneInv'
BY TakeLockKeeps, ReadTablesKeeps, InstallSnapshotKeeps, NotifyOthersKeeps,
   UncacheGroupsKeeps, GetConfigKeeps, LoadModelsKeeps, GetGroupsKeeps,
   ListRuntimeGroupsKeeps, StoreGroupsKeeps, BuildRegistryKeeps, TuneSchedulerKeeps,
   FollowCatalogKeeps, PublishEventKeeps, LoadConfigKeeps, ApplyConfigKeeps, Zenon
   DEF Plane!TaskStep

LEMMA FaultKeeps ==
    ASSUME PlaneInv, NEW i \in Instances, Plane!Fault(i)
    PROVE  PlaneInv'
BY DropFailsKeeps, ListenerStopsKeeps, FollowerStopsKeeps, RestartKeeps, NotifyFailsKeeps,
   UncacheGroupsKeeps, StoreGroupsKeeps, PublishFailsKeeps, TaskFailsKeeps, Zenon
   DEF Plane!Fault, Tasks

LEMMA PlaneStep ==
    ASSUME KnownFamilies, PlaneInv, Plane!Next
    PROVE  PlaneInv'
<1>1. ASSUME NEW i \in Instances, Plane!StartHandler(i)
      PROVE  PlaneInv'
  BY <1>1, AllPrograms, StartHandlerKeeps DEF KnownFamilies
<1>2. ASSUME NEW i \in Instances, Plane!TimerFires(i)
      PROVE  PlaneInv'
  <2>1. Plane!StartReload(i, "poll", "config") \/ \E level \in {1, 2} : Plane!GroupsExpire(i, level)
    BY <1>2 DEF Plane!TimerFires
  <2>2. CASE Plane!StartReload(i, "poll", "config")
    BY <2>2, StartReloadKeeps
  <2> QED BY <2>1, <2>2, GroupsExpireKeeps
<1>3. ASSUME NEW i \in Instances, Plane!AdminStep(i)
      PROVE  PlaneInv'
  BY <1>3, AcceptsKeeps, RejectsKeeps, WriteRowsKeeps, EditRowsKeeps, DropRecordsKeeps,
     Zenon DEF Plane!AdminStep
<1>4. ASSUME NEW i \in Instances, NEW event \in {"model", "config"}, Plane!StartReload(i, "listener", event)
      PROVE  PlaneInv'
  BY <1>4, StartReloadKeeps
<1>5. ASSUME NEW i \in Readers, Plane!ValidateKey(i) \/ Plane!GetByToken(i) \/ Plane!CacheRecord(i)
      PROVE  PlaneInv'
  BY <1>5, RecordKeeps, Zenon
<1>6. CASE Plane!RecordExpires
  BY <1>6, RecordKeeps, Zenon
<1> QED
  BY <1>1, <1>2, <1>3, <1>4, <1>5, <1>6, FaultKeeps, FlushRemoteTargetsKeeps,
     SubscribeKeeps, ReceiveInvalidationKeeps, TaskStepKeeps, Zenon DEF Plane!Next, Views,
     Tasks

LEMMA PlaneStutters ==
    ASSUME PlaneInv, UNCHANGED Plane!vars
    PROVE  PlaneInv'
<1>1. task' = task /\ Steady
  BY DEF Plane!vars, Steady, Quietly, PlaneInv, PlaneShape
<1> QED BY <1>1, IdleKeeps

\* The invariant of the control plane for every set of instances, faults and
\* bounds: a stale copy has a promise to be dropped or reloaded, in the list of a
\* handler that has passed its checks, in a message, in the queue of the flush
\* (governance_invalidation.py), or it is known to be missed.
THEOREM PlaneInvariance ==
    ASSUME KnownFamilies
    PROVE  Plane!SafetySpec => []PlaneInv
<1>1. PlaneInv /\ [Plane!Next]_Plane!vars => PlaneInv'
  BY PlaneStep, PlaneStutters
<1> QED BY <1>1, PlaneInitially, PTL DEF Plane!SafetySpec

\* AuthRecordsFollow: a cached key record that no longer agrees with its rows is
\* about to be dropped by the handler that wrote them, or the loss is on record
\* (services/key_service.py, the handlers of keys and their owners).
THEOREM AuthSafe ==
    ASSUME KnownFamilies
    PROVE  Plane!SafetySpec => []Plane!AuthRecordsFollow
<1>1. PlaneInv => Plane!AuthRecordsFollow
  <2> SUFFICES ASSUME PlaneInv, auth = "stale", ~missedAuth
               PROVE  \E i \in Instances : \/ Plane!Ahead(i, "admin", Plane!Drop)
                                           \/ Plane!Ahead(i, "admin", Plane!DropLogged)
    BY DEF Plane!AuthRecordsFollow
  <2>1. PICK i \in Instances, x \in Drops : Pledges(task[i]["admin"].todo, x)
    BY DEF PlaneInv, AuthPledged
  <2>2. Plane!Ahead(i, "admin", x)
    BY <2>1, AheadIn DEF PlaneInv, Tasks, Plane!Tasks
  <2> QED BY <2>2 DEF Drops
<1> QED BY <1>1, PlaneInvariance, PTL

\* SnapshotsFollow: a snapshot that misses a committed write has its reload ahead
\* or the message on its way, or a fault took it
\* (services/governance_invalidation.py).
THEOREM SnapshotsSafe ==
    ASSUME KnownFamilies
    PROVE  Plane!SafetySpec => []Plane!SnapshotsFollow
<1>1. PlaneInv => Plane!SnapshotsFollow
  <2> SUFFICES ASSUME PlaneInv, NEW i \in Instances, NEW v \in Views, ~snap[i][v]
               PROVE  \/ v \in missed[i] \cup inbox[i] \cup queued[i]
                      \/ \E t \in Tasks :
                           \/ Plane!Ahead(i, t, <<"read", v>>)
                           \/ Plane!Ahead(i, t, <<"install", v>>) /\ task[i][t].snap
                      \/ \E j \in Instances \ {i} : Plane!Ahead(j, "admin", <<"notify", v>>)
    BY DEF Plane!SnapshotsFollow, Views, Tasks
  <2>1. PlaneShape /\ Pledged(i, v) /\ "admin" \in Tasks
    BY DEF PlaneInv, ViewsPledged, Tasks, Plane!Tasks
  <2>2. \A j \in Instances, t \in Tasks : \A x : Pledges(task[j][t].todo, x) => Plane!Ahead(j, t, x)
    BY <2>1, AheadIn
  <2>3. \A t \in Tasks : Installs(task[i][t], v) => Plane!Ahead(i, t, <<"install", v>>)
    <3> SUFFICES ASSUME NEW t \in Tasks, Installs(task[i][t], v)
                 PROVE  Plane!Ahead(i, t, <<"install", v>>)
      OBVIOUS
    <3>1. task[i][t].todo \in Seq(Op)
      BY <2>1, Starting
    <3>2. 1 \in 1..Len(task[i][t].todo)
      BY <3>1, Tailed DEF Installs
    <3> QED BY <2>1, <3>2, AheadIn DEF Installs
  <2> QED BY <2>1, <2>2, <2>3 DEF Pledged, Announced
<1> QED BY <1>1, PlaneInvariance, PTL
=============================================================================
