---------------------------- MODULE RoutingProofs ----------------------------
(***************************************************************************)
(* Proofs about Routing for every number of deployments and requests,      *)
(* every chain of fallbacks, and every threshold and number of retries.    *)
(*                                                                         *)
(* ActiveCounted: a step of a coroutine changes the counter of every       *)
(* deployment by as much as it changes the attempts the coroutine holds    *)
(* there (CountStep), and nobody else touches the counters.                *)
(*                                                                         *)
(* OnlyFaultyLeaveRotation: whoever is about to take a deployment out of   *)
(* rotation has seen it fail (Blame).  The fallbacks for classified errors *)
(* make this delicate: the passive tracker blames the deployment that was  *)
(* attempted last, so the theorem needs that an error with a               *)
(* context-window or content-policy message is the caller's own.           *)
(*                                                                         *)
(* The second half proves RuntimeFollows of ControlPlane: the deployments, *)
(* route groups and settings the router is built from follow what the      *)
(* administrators store.                                                   *)
(***************************************************************************)
EXTENDS Routing, FiniteSetTheorems, SequenceTheorems, TLAPS

\* A coroutine's record has these fields, and only an attempt in progress can
\* have led to the fallbacks for classified errors.
Shape(q) ==
    /\ DOMAIN q = {"stage", "chain", "extra", "cur", "outer", "last", "attempt",
                   "affects", "classified", "outerAffects"}
    /\ q.stage \in {"idle", "next", "served", "failed", "mark"} => q.outer = NoDeployment

Shaped ==
    /\ DOMAIN req = Requests
    /\ \A r \in Requests : Shape(req[r])
    /\ req = [r \in Requests |-> req[r]]

-----------------------------------------------------------------------------
(* The active counters.                                                    *)

Holders(n, d) == {r \in Requests : Held(req[r], d) > n}

CountInv ==
    /\ Shaped
    /\ active \in [Deployments -> Int]
    /\ leaked \in [Deployments -> Nat]
    /\ \A d \in Deployments : IsFiniteSet(Holders(0, d)) /\ IsFiniteSet(Holders(1, d))
    /\ ActiveCounted

\* A step of coroutine r: each counter moves with what r holds; the counts of
\* a dead process go to leaked.
CountStep(r, q) ==
    /\ Shape(q)
    /\ req' = [req EXCEPT ![r] = q]
    /\ leaked' \in [Deployments -> Nat]
    /\ active' \in [Deployments -> Int]
    /\ \A d \in Deployments :
          active'[d] - leaked'[d] = active[d] - leaked[d] + Held(q, d) - Held(req[r], d)

LEMMA HeldRange ==
    ASSUME NEW q, NEW d
    PROVE  Held(q, d) \in 0..2
BY DEF Held

\* Sets that differ in one element at most.
LEMMA CardinalityMoves ==
    ASSUME NEW S, NEW T, NEW x, IsFiniteSet(S), S \ {x} = T \ {x}
    PROVE  /\ IsFiniteSet(T)
           /\ Cardinality(S) \in Nat /\ Cardinality(T) \in Nat
           /\ x \in S => Cardinality(S) >= 1
           /\ Cardinality(T) + (IF x \in S THEN 1 ELSE 0)
                = Cardinality(S) + (IF x \in T THEN 1 ELSE 0)
<1> DEFINE U == S \ {x}
<1>1. IsFiniteSet(U) /\ Cardinality(U) \in Nat
  BY FS_Subset, FS_CardinalityType
<1>2. /\ IsFiniteSet(U \cup {x})
      /\ Cardinality(U \cup {x}) = Cardinality(U) + 1
  BY <1>1, FS_AddElement
<1>3. S = IF x \in S THEN U \cup {x} ELSE U
  OBVIOUS
<1>4. T = IF x \in T THEN U \cup {x} ELSE U
  OBVIOUS
<1> HIDE DEF U
<1>5. Cardinality(S) = Cardinality(U) + (IF x \in S THEN 1 ELSE 0)
  BY <1>1, <1>2, <1>3
<1>6. IsFiniteSet(T) /\ Cardinality(T) = Cardinality(U) + (IF x \in T THEN 1 ELSE 0)
  BY <1>1, <1>2, <1>4
<1> QED BY <1>1, <1>5, <1>6

\* The number of attempts in progress at a deployment moves with what r holds.
LEMMA HoldersMove ==
    ASSUME CountInv, NEW r \in Requests, NEW q, req' = [req EXCEPT ![r] = q],
           NEW d \in Deployments
    PROVE  /\ IsFiniteSet(Holders(0, d)') /\ IsFiniteSet(Holders(1, d)')
           /\ Cardinality(Holders(0, d)') + Cardinality(Holders(1, d)') + Held(req[r], d)
                = Cardinality(Holders(0, d)) + Cardinality(Holders(1, d)) + Held(q, d)
           /\ Cardinality(Holders(0, d)) + Cardinality(Holders(1, d)) >= Held(req[r], d)
<1> DEFINE H(n) == Holders(n, d)
           K(n) == Holders(n, d)'
<1>1. req'[r] = q /\ \A p \in Requests \ {r} : req'[p] = req[p]
  BY DEF CountInv, Shaped
<1>2. ASSUME NEW n \in {0, 1}
      PROVE  /\ H(n) \ {r} = K(n) \ {r}
             /\ r \in H(n) <=> Held(req[r], d) > n
             /\ r \in K(n) <=> Held(q, d) > n
             /\ IsFiniteSet(H(n))
  BY <1>1, <1>2 DEF Holders, CountInv
<1> HIDE DEF H, K
<1>3. /\ IsFiniteSet(K(0)) /\ Cardinality(K(0)) \in Nat /\ Cardinality(H(0)) \in Nat
      /\ Cardinality(K(0)) + (IF r \in H(0) THEN 1 ELSE 0)
           = Cardinality(H(0)) + (IF r \in K(0) THEN 1 ELSE 0)
      /\ r \in H(0) => Cardinality(H(0)) >= 1
  BY <1>2, CardinalityMoves
<1>4. /\ IsFiniteSet(K(1)) /\ Cardinality(K(1)) \in Nat /\ Cardinality(H(1)) \in Nat
      /\ Cardinality(K(1)) + (IF r \in H(1) THEN 1 ELSE 0)
           = Cardinality(H(1)) + (IF r \in K(1) THEN 1 ELSE 0)
      /\ r \in H(1) => Cardinality(H(1)) >= 1
  BY <1>2, CardinalityMoves
<1>5. Held(req[r], d) \in 0..2 /\ Held(q, d) \in 0..2
  BY HeldRange
<1>6. /\ Cardinality(K(0)) + Cardinality(K(1)) + Held(req[r], d)
           = Cardinality(H(0)) + Cardinality(H(1)) + Held(q, d)
      /\ Cardinality(H(0)) + Cardinality(H(1)) >= Held(req[r], d)
  BY <1>2, <1>3, <1>4, <1>5
<1> QED BY <1>3, <1>4, <1>6 DEF H, K

LEMMA CountStepKeeps ==
    ASSUME CountInv, NEW r \in Requests, NEW q, CountStep(r, q)
    PROVE  CountInv'
<1> USE DEF CountStep
<1>1. Shaped'
  BY DEF CountInv, Shaped
<1>2. ASSUME NEW d \in Deployments
      PROVE  /\ IsFiniteSet(Holders(0, d)') /\ IsFiniteSet(Holders(1, d)')
             /\ active'[d] = leaked'[d] + Cardinality(Holders(0, d)')
                             + Cardinality(Holders(1, d)')
  <2> DEFINE h0 == Cardinality(Holders(0, d))
             h1 == Cardinality(Holders(1, d))
             k0 == Cardinality(Holders(0, d)')
             k1 == Cardinality(Holders(1, d)')
  <2>1. /\ IsFiniteSet(Holders(0, d)') /\ IsFiniteSet(Holders(1, d)')
        /\ k0 + k1 + Held(req[r], d) = h0 + h1 + Held(q, d)
    BY HoldersMove
  <2>2. h0 \in Nat /\ h1 \in Nat /\ k0 \in Nat /\ k1 \in Nat
    BY <2>1, FS_CardinalityType DEF CountInv
  <2>3. active[d] = leaked[d] + h0 + h1
    BY DEF CountInv, ActiveCounted, Holders
  <2>4. /\ active[d] \in Int /\ leaked[d] \in Int /\ active'[d] \in Int /\ leaked'[d] \in Int
        /\ Held(req[r], d) \in Int /\ Held(q, d) \in Int
    BY HeldRange DEF CountInv
  <2>5. active'[d] - leaked'[d] = active[d] - leaked[d] + Held(q, d) - Held(req[r], d)
    OBVIOUS
  <2> HIDE DEF h0, h1, k0, k1
  <2>6. active'[d] = leaked'[d] + k0 + k1
    BY <2>1, <2>2, <2>3, <2>4, <2>5
  <2> QED BY <2>1, <2>6 DEF k0, k1
<1>3. ActiveCounted'
  BY <1>2 DEF ActiveCounted, Holders
<1> QED BY <1>1, <1>2, <1>3 DEF CountInv

LEMMA IdleHoldsNothing ==
    /\ Shape(IdleRequest)
    /\ \A d \in Deployments : Held(IdleRequest, d) = 0
BY RoutingAssumption DEF Shape, IdleRequest, Held

\* What a coroutine holds is counted, so a decrement never meets a zero.
LEMMA HeldIsCounted ==
    ASSUME CountInv, NEW r \in Requests, NEW d \in Deployments
    PROVE  active[d] >= Held(req[r], d)
<1>1. Cardinality(Holders(0, d)) + Cardinality(Holders(1, d)) >= Held(req[r], d)
  <2>1. /\ IsFiniteSet(Holders(0, d)) /\ IsFiniteSet(Holders(1, d))
        /\ r \in Holders(0, d) <=> Held(req[r], d) > 0
        /\ r \in Holders(1, d) <=> Held(req[r], d) > 1
    BY DEF CountInv, Holders
  <2>2. /\ Cardinality(Holders(0, d)) \in Nat /\ Cardinality(Holders(1, d)) \in Nat
        /\ r \in Holders(0, d) => Cardinality(Holders(0, d)) >= 1
        /\ r \in Holders(1, d) => Cardinality(Holders(1, d)) >= 1
    BY <2>1, CardinalityMoves
  <2> QED BY <2>1, <2>2, HeldRange
<1>2. active[d] = leaked[d] + Cardinality(Holders(0, d)) + Cardinality(Holders(1, d))
  BY DEF CountInv, ActiveCounted, Holders
<1>3. Cardinality(Holders(0, d)) \in Nat /\ Cardinality(Holders(1, d)) \in Nat
  BY FS_CardinalityType DEF CountInv
<1> QED BY <1>1, <1>2, <1>3, HeldRange DEF CountInv

LEMMA ReleasedCounts ==
    ASSUME CountInv, NEW r \in Requests, ReleaseAll(req[r]), UNCHANGED leaked,
           NEW q, Shape(q), \A d \in Deployments : Held(q, d) = 0,
           req' = [req EXCEPT ![r] = q]
    PROVE  CountInv'
<1>1. CountStep(r, q)
  BY HeldRange DEF CountInv, CountStep, ReleaseAll
<1> QED BY <1>1, CountStepKeeps

\* A decrement of the counter of a deployment at which r holds an attempt.
LEMMA DecrementCounts ==
    ASSUME CountInv, NEW r \in Requests, NEW e, DecrementActive(e),
           NEW q, Shape(q), req' = [req EXCEPT ![r] = q], UNCHANGED leaked,
           \A d \in Deployments : Held(q, d) = Held(req[r], d) - (IF d = e THEN 1 ELSE 0)
    PROVE  CountInv'
<1>1. active' \in [Deployments -> Int]
  <2>1. CASE e \in Deployments
    <3>1. active[e] \in Int /\ (IF active[e] > 0 THEN active[e] - 1 ELSE 0) \in Int
      BY <2>1 DEF CountInv
    <3> QED BY <3>1 DEF CountInv, DecrementActive
  <2>2. CASE e \notin Deployments
    BY <2>2 DEF CountInv, DecrementActive
  <2> QED BY <2>1, <2>2
<1>2. ASSUME NEW d \in Deployments
      PROVE  active'[d] = active[d] - (IF d = e THEN 1 ELSE 0)
  BY HeldIsCounted, HeldRange DEF CountInv, DecrementActive
<1>3. CountStep(r, q)
  BY <1>1, <1>2, HeldRange DEF CountInv, CountStep
<1> QED BY <1>3, CountStepKeeps

LEMMA IncrementCounts ==
    ASSUME CountInv, NEW r \in Requests, NEW e, IncrementActive(e),
           NEW q, Shape(q), req' = [req EXCEPT ![r] = q], UNCHANGED leaked,
           \A d \in Deployments : Held(q, d) = Held(req[r], d) + (IF d = e THEN 1 ELSE 0)
    PROVE  CountInv'
<1>1. active' \in [Deployments -> Int]
  <2>1. CASE e \in Deployments
    <3>1. active[e] + 1 \in Int
      BY <2>1 DEF CountInv
    <3> QED BY <3>1 DEF CountInv, IncrementActive
  <2>2. CASE e \notin Deployments
    BY <2>2 DEF CountInv, IncrementActive
  <2> QED BY <2>1, <2>2
<1>2. ASSUME NEW d \in Deployments
      PROVE  active'[d] = active[d] + (IF d = e THEN 1 ELSE 0)
  BY DEF CountInv, IncrementActive
<1>3. CountStep(r, q)
  BY <1>1, <1>2, HeldRange DEF CountInv, CountStep
<1> QED BY <1>3, CountStepKeeps

\* A step that keeps the counters keeps what its coroutine holds.
LEMMA HoldingCounts ==
    ASSUME CountInv, NEW r \in Requests, UNCHANGED <<active, leaked>>,
           NEW q, Shape(q), req' = [req EXCEPT ![r] = q],
           \A d \in Deployments : Held(q, d) = Held(req[r], d)
    PROVE  CountInv'
<1>1. CountStep(r, q)
  BY HeldRange DEF CountInv, CountStep
<1> QED BY <1>1, CountStepKeeps

LEMMA SelectCounts ==
    ASSUME CountInv, NEW r \in Requests, SelectDeployment(r)
    PROVE  CountInv'
<1> PICK p : req' = [req EXCEPT ![r] = [IdleRequest EXCEPT !.stage = "next",
                                           !.chain = BuildFallbackChain(p)]]
  BY DEF SelectDeployment
<1> DEFINE q == [IdleRequest EXCEPT !.stage = "next", !.chain = BuildFallbackChain(p)]
<1>1. Shape(q) /\ \A d \in Deployments : Held(q, d) = 0
  BY RoutingAssumption DEF Shape, IdleRequest, Held
<1>2. \A d \in Deployments : Held(req[r], d) = 0
  BY RoutingAssumption DEF CountInv, Shaped, Shape, SelectDeployment, Held
<1>3. req' = [req EXCEPT ![r] = q] /\ UNCHANGED <<active, leaked>>
  BY DEF SelectDeployment, deploymentVars
<1> HIDE DEF q
<1> QED BY <1>1, <1>2, <1>3, HoldingCounts

LEMMA RequestCounts ==
    ASSUME CountInv, NEW r \in Requests, RequestStep(r) \/ Disconnect(r)
    PROVE  CountInv'
<1> USE RoutingAssumption
<1> DEFINE q == req[r]
<1>0. Shape(q) /\ req = [req EXCEPT ![r] = q]
  BY DEF CountInv, Shaped
<1>1. CASE SkipDeployment(r)
  <2> DEFINE p == [q EXCEPT !.chain = Tail(q.chain)]
  <2>1. /\ req' = [req EXCEPT ![r] = p] /\ UNCHANGED <<active, leaked>>
        /\ q.stage = "next"
    BY <1>1 DEF SkipDeployment, deploymentVars
  <2>2. Shape(p) /\ \A d \in Deployments : Held(p, d) = Held(q, d)
    BY <1>0, <2>1 DEF Shape, Held
  <2> HIDE DEF p
  <2> QED BY <2>1, <2>2, HoldingCounts
<1>2. CASE StartAttempt(r)
  <2> DEFINE p == [q EXCEPT !.stage = "calling", !.chain = Tail(q.chain), !.cur = Head(q.chain),
                            !.last = Head(q.chain), !.attempt = 0]
  <2>1. /\ req' = [req EXCEPT ![r] = p] /\ UNCHANGED leaked
        /\ IncrementActive(Head(q.chain))
        /\ q.stage = "next"
    BY <1>2 DEF StartAttempt
  <2>2. Shape(p) /\ \A d \in Deployments :
                        Held(p, d) = Held(q, d) + (IF d = Head(q.chain) THEN 1 ELSE 0)
    BY <1>0, <2>1 DEF Shape, Held
  <2> HIDE DEF p
  <2> QED BY <2>1, <2>2, IncrementCounts
<1>3. CASE Exhausted(r)
  <2> DEFINE p == [q EXCEPT !.stage = "failed"]
  <2>1. /\ req' = [req EXCEPT ![r] = IF q.last = NoDeployment THEN IdleRequest ELSE p]
        /\ UNCHANGED <<active, leaked>> /\ q.stage = "next"
    BY <1>3 DEF Exhausted, deploymentVars
  <2>2. Shape(p) /\ \A d \in Deployments : Held(p, d) = Held(q, d) /\ Held(q, d) = 0
    BY <1>0, <2>1 DEF Shape, Held
  <2> HIDE DEF p
  <2> QED BY <2>1, <2>2, IdleHoldsNothing, HoldingCounts
<1>4. CASE CallSucceeds(r)
  <2> DEFINE p == [IdleRequest EXCEPT !.stage = "served", !.last = q.cur]
  <2>1. /\ req' = [req EXCEPT ![r] = p] /\ UNCHANGED leaked /\ ReleaseAll(q)
        /\ q.stage = "calling"
    BY <1>4 DEF CallSucceeds
  <2>2. Shape(p) /\ \A d \in Deployments : Held(p, d) = 0
    BY <1>0, <2>1 DEF Shape, Held, IdleRequest
  <2> HIDE DEF p
  <2> QED BY <2>1, <2>2, ReleasedCounts
<1>5. CASE EmitSuccess(r)
  <2>1. /\ req' = [req EXCEPT ![r] = IdleRequest] /\ UNCHANGED <<active, leaked>>
        /\ q.stage \in {"next", "served", "failed", "mark"}
    BY <1>5 DEF EmitSuccess, deploymentVars
  <2>2. \A d \in Deployments : Held(q, d) = 0
    BY <1>0, <2>1 DEF Shape, Held
  <2> QED BY <2>1, <2>2, IdleHoldsNothing, HoldingCounts
<1>6. CASE \E affects, classified \in BOOLEAN : CallFails(r, affects, classified)
  <2> PICK affects \in BOOLEAN, classified \in BOOLEAN : CallFails(r, affects, classified)
    BY <1>6
  <2> DEFINE s == IF CountsAgainst(affects) /\ FailuresAfter(q.cur) > AllowedFails
                     THEN "cooling" ELSE "decide"
             p == [q EXCEPT !.stage = s, !.affects = affects, !.classified = classified]
  <2>1. /\ req' = [req EXCEPT ![r] = p] /\ UNCHANGED <<active, leaked>>
        /\ q.stage = "calling" /\ s \in {"cooling", "decide"}
    BY DEF CallFails
  <2> HIDE DEF s
  <2>2. Shape(p) /\ \A d \in Deployments : Held(p, d) = Held(q, d)
    BY <1>0, <2>1 DEF Shape, Held
  <2> HIDE DEF p
  <2> QED BY <2>1, <2>2, HoldingCounts
<1>7. CASE SetCooldown(r)
  <2> DEFINE p == [q EXCEPT !.stage = "sicken"]
  <2>1. /\ req' = [req EXCEPT ![r] = p] /\ UNCHANGED <<active, leaked>>
        /\ q.stage = "cooling"
    BY <1>7 DEF SetCooldown, deploymentVars
  <2>2. Shape(p) /\ \A d \in Deployments : Held(p, d) = Held(q, d)
    BY <1>0, <2>1 DEF Shape, Held
  <2> HIDE DEF p
  <2> QED BY <2>1, <2>2, HoldingCounts
<1>8. CASE SetUnhealthy(r)
  <2> DEFINE p == [q EXCEPT !.stage = "decide"]
  <2>1. /\ req' = [req EXCEPT ![r] = p] /\ UNCHANGED <<active, leaked>>
        /\ q.stage = "sicken"
    BY <1>8 DEF SetUnhealthy, deploymentVars
  <2>2. Shape(p) /\ \A d \in Deployments : Held(p, d) = Held(q, d)
    BY <1>0, <2>1 DEF Shape, Held
  <2> HIDE DEF p
  <2> QED BY <2>1, <2>2, HoldingCounts
<1>9. CASE TryClassified(r)
  <2> DEFINE p == [q EXCEPT !.stage = "extra", !.outer = q.cur, !.extra = ClassifiedFallbacks,
                            !.outerAffects = q.affects]
  <2>1. /\ req' = [req EXCEPT ![r] = p] /\ UNCHANGED <<active, leaked>>
        /\ q.stage = "decide" /\ q.outer = NoDeployment
    BY <1>9 DEF TryClassified, deploymentVars
  <2>2. Shape(p) /\ \A d \in Deployments : Held(p, d) = Held(q, d)
    BY <1>0, <2>1 DEF Shape, Held
  <2> HIDE DEF p
  <2> QED BY <2>1, <2>2, HoldingCounts
<1>10. CASE RaiseClientError(r)
  BY <1>10, IdleHoldsNothing, ReleasedCounts DEF RaiseClientError
<1>11. CASE Retry(r)
  <2> DEFINE p == [q EXCEPT !.stage = "calling", !.attempt = @ + 1]
  <2>1. /\ req' = [req EXCEPT ![r] = p] /\ UNCHANGED <<active, leaked>>
        /\ q.stage = "decide"
    BY <1>0, <1>11 DEF Retry, deploymentVars
  <2>2. Shape(p) /\ \A d \in Deployments : Held(p, d) = Held(q, d)
    BY <1>0, <2>1 DEF Shape, Held
  <2> HIDE DEF p
  <2> QED BY <2>1, <2>2, HoldingCounts
<1>12. CASE NextDeployment(r)
  <2> DEFINE p == [q EXCEPT !.stage = "next"]
  <2>1. /\ req' = [req EXCEPT ![r] = p] /\ UNCHANGED leaked /\ DecrementActive(q.cur)
        /\ q.stage = "decide" /\ q.outer = NoDeployment
    BY <1>12 DEF NextDeployment
  <2>2. Shape(p) /\ \A d \in Deployments :
                        Held(p, d) = Held(q, d) - (IF d = q.cur THEN 1 ELSE 0)
    BY <1>0, <2>1 DEF Shape, Held
  <2> HIDE DEF p
  <2> QED BY <2>1, <2>2, DecrementCounts
<1>13. CASE SkipExtra(r)
  <2> DEFINE p == [q EXCEPT !.extra = Tail(q.extra)]
  <2>1. /\ req' = [req EXCEPT ![r] = p] /\ UNCHANGED <<active, leaked>>
        /\ q.stage = "extra"
    BY <1>13 DEF SkipExtra, deploymentVars
  <2>2. Shape(p) /\ \A d \in Deployments : Held(p, d) = Held(q, d)
    BY <1>0, <2>1 DEF Shape, Held
  <2> HIDE DEF p
  <2> QED BY <2>1, <2>2, HoldingCounts
<1>14. CASE StartExtra(r)
  <2> DEFINE p == [q EXCEPT !.stage = "calling", !.extra = Tail(q.extra), !.cur = Head(q.extra),
                            !.last = Head(q.extra)]
  <2>1. /\ req' = [req EXCEPT ![r] = p] /\ UNCHANGED leaked
        /\ IncrementActive(Head(q.extra))
        /\ q.stage = "extra"
    BY <1>14 DEF StartExtra
  <2>2. Shape(p) /\ \A d \in Deployments :
                        Held(p, d) = Held(q, d) + (IF d = Head(q.extra) THEN 1 ELSE 0)
    BY <1>0, <2>1 DEF Shape, Held
  <2> HIDE DEF p
  <2> QED BY <2>1, <2>2, IncrementCounts
<1>15. CASE ExtraExhausted(r)
  <2> DEFINE p == AfterExtra(q)
  <2>1. /\ req' = [req EXCEPT ![r] = p] /\ UNCHANGED <<active, leaked>>
        /\ q.stage = "extra"
    BY <1>15 DEF ExtraExhausted, deploymentVars
  <2>2. Shape(p) /\ \A d \in Deployments : Held(p, d) = Held(q, d)
    BY <1>0, <2>1 DEF Shape, Held, AfterExtra
  <2> HIDE DEF p
  <2> QED BY <2>1, <2>2, HoldingCounts
<1>16. CASE ExtraFailed(r)
  <2> DEFINE p == [q EXCEPT !.stage = "extra"]
  <2>1. /\ req' = [req EXCEPT ![r] = p] /\ UNCHANGED leaked /\ DecrementActive(q.cur)
        /\ q.stage = "decide"
    BY <1>16 DEF ExtraFailed
  <2>2. Shape(p) /\ \A d \in Deployments :
                        Held(p, d) = Held(q, d) - (IF d = q.cur THEN 1 ELSE 0)
    BY <1>0, <2>1 DEF Shape, Held
  <2> HIDE DEF p
  <2> QED BY <2>1, <2>2, DecrementCounts
<1>17. CASE ExtraRaises(r)
  BY <1>17, IdleHoldsNothing, ReleasedCounts DEF ExtraRaises
<1>18. CASE ReportFailure(r)
  <2> DEFINE p == [q EXCEPT !.stage = "mark"]
  <2>1. /\ req' = [req EXCEPT ![r] = IdleRequest] \/ req' = [req EXCEPT ![r] = p]
        /\ UNCHANGED <<active, leaked>> /\ q.stage = "failed"
    BY <1>18 DEF ReportFailure
  <2>2. Shape(p) /\ \A d \in Deployments : Held(p, d) = Held(q, d) /\ Held(q, d) = 0
    BY <1>0, <2>1 DEF Shape, Held
  <2> HIDE DEF p
  <2> QED BY <2>1, <2>2, IdleHoldsNothing, HoldingCounts
<1>19. CASE MarkUnhealthy(r)
  <2>1. /\ req' = [req EXCEPT ![r] = IdleRequest] /\ UNCHANGED <<active, leaked>>
        /\ q.stage \in {"next", "served", "failed", "mark"}
    BY <1>19 DEF MarkUnhealthy, deploymentVars
  <2>2. \A d \in Deployments : Held(q, d) = 0
    BY <1>0, <2>1 DEF Shape, Held
  <2> QED BY <2>1, <2>2, IdleHoldsNothing, HoldingCounts
<1>20. CASE Disconnect(r)
  BY <1>20, IdleHoldsNothing, ReleasedCounts DEF Disconnect
<1> QED
  BY <1>1, <1>2, <1>3, <1>4, <1>5, <1>6, <1>7, <1>8, <1>9, <1>10, <1>11, <1>12, <1>13,
     <1>14, <1>15, <1>16, <1>17, <1>18, <1>19, <1>20 DEF RequestStep

LEMMA CrashCounts ==
    ASSUME CountInv, NEW r \in Requests, Crash(r)
    PROVE  CountInv'
<1>1. /\ leaked' = [d \in Deployments |-> leaked[d] + Held(req[r], d)]
      /\ req' = [req EXCEPT ![r] = IdleRequest] /\ UNCHANGED active
  BY DEF Crash, deploymentVars
<1>2. CountStep(r, IdleRequest)
  BY <1>1, IdleHoldsNothing, HeldRange DEF CountInv, CountStep
<1> QED BY <1>2, CountStepKeeps

LEMMA DeploymentCounts ==
    ASSUME CountInv, NEW d \in Deployments,
           \/ CheckerStep(d) \/ CheckDeploymentOnce(d)
           \/ CooldownExpires(d) \/ FailuresExpire(d) \/ ProviderChanges(d)
    PROVE  UNCHANGED <<active, leaked, req>>
BY DEF CheckerStep, CheckDeploymentOnce, CooldownExpires, FailuresExpire, ProviderChanges,
   RunHealthCheck, StartProbe, ApplyHealthyResult, ClearCooldown, ApplyUnhealthyResult,
   deploymentVars

LEMMA CountUnchanged ==
    ASSUME CountInv, UNCHANGED <<active, leaked, req>>
    PROVE  CountInv'
BY DEF CountInv, Shaped, ActiveCounted, Holders

LEMMA CountInit == Init => CountInv
<1> SUFFICES ASSUME Init PROVE CountInv
  OBVIOUS
<1>1. \A r \in Requests : req[r] = IdleRequest
  BY DEF Init
<1>2. Shaped
  BY <1>1, IdleHoldsNothing DEF Init, Shaped
<1>3. \A d \in Deployments : Holders(0, d) = {} /\ Holders(1, d) = {}
  BY <1>1, IdleHoldsNothing DEF Holders
<1>4. \A d \in Deployments : active[d] = 0 /\ leaked[d] = 0
  BY DEF Init
<1>5. ActiveCounted
  BY <1>3, <1>4, FS_EmptySet DEF ActiveCounted, Holders
<1> QED BY <1>2, <1>3, <1>5, FS_EmptySet DEF Init, CountInv

\* CountInv is an invariant: what the counters of router/state.py hold, the
\* attempts in progress in every coroutine and the counts lost with a process.
THEOREM CountInvariance == SafetySpec => []CountInv
<1>1. CountInv /\ [Next]_vars => CountInv'
  <2> SUFFICES ASSUME CountInv, [Next]_vars PROVE CountInv'
    OBVIOUS
  <2>1. ASSUME NEW r \in Requests,
               SelectDeployment(r) \/ RequestStep(r) \/ Disconnect(r) \/ Crash(r)
        PROVE  CountInv'
    BY <2>1, SelectCounts, RequestCounts, CrashCounts
  <2>2. ASSUME NEW d \in Deployments,
               \/ CheckerStep(d) \/ CheckDeploymentOnce(d)
               \/ CooldownExpires(d) \/ FailuresExpire(d) \/ ProviderChanges(d)
        PROVE  CountInv'
    BY <2>2, DeploymentCounts, CountUnchanged
  <2>3. CASE UNCHANGED vars
    BY <2>3, CountUnchanged DEF vars
  <2> QED BY <2>1, <2>2, <2>3 DEF Next
<1> QED BY <1>1, CountInit, PTL DEF SafetySpec

LEMMA ActiveAlways == SafetySpec => []ActiveCounted
<1>1. CountInv => ActiveCounted
  BY DEF CountInv
<1> QED BY <1>1, CountInvariance, PTL

\* ActiveCounted for every number of deployments, requests and retries and
\* every chain of fallbacks: the counter the least-busy strategy reads is the
\* number of attempts in progress, over every retry, fallback, cancellation and
\* error path of failover.py, plus what processes took with them when they died.
THEOREM ActiveSafe == Spec => []ActiveCounted
  BY ActiveAlways, PTL DEF Spec

-----------------------------------------------------------------------------
(* Blame: who may take a deployment out of rotation.                       *)

\* f is the set of deployments that failed so far.
BlamesOnly(q, f) ==
    /\ q.stage \in {"cooling", "sicken"} => q.cur \in f
    /\ (q.stage \in {"calling", "cooling", "sicken"} /\ q.outer = NoDeployment)
          => q.last = q.cur
    /\ (q.stage = "decide" /\ q.outer = NoDeployment /\ q.affects)
          => q.last = q.cur /\ q.cur \in f
    /\ q.stage = "next" => q.last \in f \cup {NoDeployment}
    /\ q.stage \in {"failed", "mark"} => q.last \in f
    /\ (q.stage = "extra" \/ q.outer # NoDeployment) => ~q.outerAffects
    /\ (q.stage \in {"cooling", "sicken", "decide"} /\ q.classified) => ~q.affects

BlameInv ==
    /\ health \in [Deployments -> BOOLEAN] /\ cooled \in [Deployments -> BOOLEAN]
    /\ \A d \in Deployments : (cooled[d] \/ ~health[d]) => d \in faulted
    /\ \A r \in Requests : BlamesOnly(req[r], faulted)

LEMMA BlameGrows ==
    ASSUME NEW q, NEW f, NEW g, f \subseteq g, BlamesOnly(q, f)
    PROVE  BlamesOnly(q, g)
BY DEF BlamesOnly

\* A step of r blames only the deployments that failed; the others' blame stays.
LEMMA BlameStep ==
    ASSUME Shaped, BlameInv, NEW r \in Requests, NEW q,
           req' = [req EXCEPT ![r] = q], faulted \subseteq faulted', BlamesOnly(q, faulted')
    PROVE  \A p \in Requests : BlamesOnly(req'[p], faulted')
<1> TAKE p \in Requests
<1>1. req'[r] = q /\ (p # r => req'[p] = req[p])
  BY DEF Shaped
<1>2. BlamesOnly(req[p], faulted')
  BY BlameGrows DEF BlameInv
<1> QED BY <1>1, <1>2

LEMMA IdleBlamesNobody ==
    ASSUME NEW f
    PROVE  BlamesOnly(IdleRequest, f)
BY DEF BlamesOnly, IdleRequest

\* A step that leaves rotation alone.
LEMMA RotationKept ==
    ASSUME Shaped, BlameInv, NEW r \in Requests, NEW q,
           UNCHANGED <<health, cooled, faulted>>,
           req' = [req EXCEPT ![r] = q], BlamesOnly(q, faulted)
    PROVE  BlameInv'
BY BlameStep DEF BlameInv

LEMMA SelectBlames ==
    ASSUME Shaped, BlameInv, NEW r \in Requests, SelectDeployment(r)
    PROVE  BlameInv'
<1> PICK p : req' = [req EXCEPT ![r] = [IdleRequest EXCEPT !.stage = "next",
                                           !.chain = BuildFallbackChain(p)]]
  BY DEF SelectDeployment
<1> DEFINE q == [IdleRequest EXCEPT !.stage = "next", !.chain = BuildFallbackChain(p)]
<1>1. BlamesOnly(q, faulted)
  BY DEF BlamesOnly, IdleRequest
<1>2. req' = [req EXCEPT ![r] = q] /\ UNCHANGED <<health, cooled, faulted>>
  BY DEF SelectDeployment, deploymentVars
<1> HIDE DEF q
<1> QED BY <1>1, <1>2, RotationKept

LEMMA RequestBlames ==
    ASSUME Shaped, BlameInv, ~ClassifiedServerErrors, NEW r \in Requests,
           RequestStep(r) \/ Disconnect(r) \/ Crash(r)
    PROVE  BlameInv'
<1> USE RoutingAssumption
<1> DEFINE q == req[r]
<1>0. Shape(q) /\ BlamesOnly(q, faulted)
  BY DEF Shaped, BlameInv
<1>1. CASE SkipDeployment(r)
  <2> DEFINE p == [q EXCEPT !.chain = Tail(q.chain)]
  <2>1. /\ req' = [req EXCEPT ![r] = p] /\ UNCHANGED <<health, cooled, faulted>>
        /\ q.stage = "next"
    BY <1>1 DEF SkipDeployment, deploymentVars
  <2>2. BlamesOnly(p, faulted)
    BY <1>0, <2>1 DEF Shape, BlamesOnly
  <2> HIDE DEF p
  <2> QED BY <2>1, <2>2, RotationKept
<1>2. CASE StartAttempt(r)
  <2> DEFINE p == [q EXCEPT !.stage = "calling", !.chain = Tail(@), !.cur = Head(q.chain),
                            !.last = Head(q.chain), !.attempt = 0]
  <2>1. /\ req' = [req EXCEPT ![r] = p] /\ UNCHANGED <<health, cooled, faulted>>
        /\ q.stage = "next"
    BY <1>2 DEF StartAttempt, deploymentVars
  <2>2. BlamesOnly(p, faulted)
    BY <1>0, <2>1 DEF Shape, BlamesOnly
  <2> HIDE DEF p
  <2> QED BY <2>1, <2>2, RotationKept
<1>3. CASE Exhausted(r)
  <2> DEFINE p == [q EXCEPT !.stage = "failed"]
  <2>1. /\ req' = [req EXCEPT ![r] = IF q.last = NoDeployment THEN IdleRequest ELSE p]
        /\ UNCHANGED <<health, cooled, faulted>> /\ q.stage = "next"
    BY <1>3 DEF Exhausted, deploymentVars
  <2>2. q.last # NoDeployment => BlamesOnly(p, faulted)
    BY <1>0, <2>1 DEF Shape, BlamesOnly
  <2> HIDE DEF p
  <2> QED BY <2>1, <2>2, IdleBlamesNobody, RotationKept
<1>4. CASE CallSucceeds(r)
  <2> DEFINE p == [IdleRequest EXCEPT !.stage = "served", !.last = q.cur]
             e == q.cur
  <2>1. /\ req' = [req EXCEPT ![r] = p] /\ UNCHANGED <<cooled, faulted>>
        /\ health' = [health EXCEPT ![e] = TRUE]
    BY <1>4 DEF CallSucceeds, RecordSuccess
  <2>2. BlamesOnly(p, faulted)
    BY DEF BlamesOnly, IdleRequest
  <2> HIDE DEF p, e
  <2> QED BY <2>1, <2>2, BlameStep DEF BlameInv
<1>5. CASE EmitSuccess(r)
  <2> DEFINE p == IdleRequest
             e == q.last
  <2>1. /\ req' = [req EXCEPT ![r] = p] /\ UNCHANGED <<cooled, faulted>>
        /\ health' = [health EXCEPT ![e] = TRUE]
    BY <1>5 DEF EmitSuccess, RecordSuccess
  <2>2. BlamesOnly(p, faulted)
    BY DEF BlamesOnly, IdleRequest
  <2> HIDE DEF p, e
  <2> QED BY <2>1, <2>2, BlameStep DEF BlameInv
<1>6. CASE \E affects, classified \in BOOLEAN : CallFails(r, affects, classified)
  <2> PICK affects \in BOOLEAN, classified \in BOOLEAN : CallFails(r, affects, classified)
    BY <1>6
  <2> DEFINE s == IF CountsAgainst(affects) /\ FailuresAfter(q.cur) > AllowedFails
                     THEN "cooling" ELSE "decide"
             p == [q EXCEPT !.stage = s, !.affects = affects, !.classified = classified]
  <2>1. /\ req' = [req EXCEPT ![r] = p] /\ UNCHANGED <<health, cooled>>
        /\ q.stage = "calling" /\ ~(affects /\ classified)
        /\ faulted' = IF affects THEN faulted \cup {q.cur} ELSE faulted
    BY DEF CallFails
  <2>2. s = "decide" \/ (s = "cooling" /\ affects)
    BY DEF CountsAgainst
  <2> HIDE DEF s
  <2>3. BlamesOnly(p, faulted')
    BY <1>0, <2>1, <2>2 DEF Shape, BlamesOnly
  <2> HIDE DEF p
  <2> QED BY <2>1, <2>3, BlameStep DEF BlameInv
<1>7. CASE SetCooldown(r)
  <2> DEFINE p == [q EXCEPT !.stage = "sicken"]
  <2>1. /\ req' = [req EXCEPT ![r] = p] /\ UNCHANGED <<health, faulted>> /\ q.stage = "cooling"
        /\ cooled' = [cooled EXCEPT ![q.cur] = TRUE]
    BY <1>7 DEF SetCooldown
  <2>2. BlamesOnly(p, faulted) /\ q.cur \in faulted
    BY <1>0, <2>1 DEF Shape, BlamesOnly
  <2> HIDE DEF p
  <2> QED BY <2>1, <2>2, BlameStep DEF BlameInv
<1>8. CASE SetUnhealthy(r)
  <2> DEFINE p == [q EXCEPT !.stage = "decide"]
  <2>1. /\ req' = [req EXCEPT ![r] = p] /\ UNCHANGED <<cooled, faulted>> /\ q.stage = "sicken"
        /\ health' = [health EXCEPT ![q.cur] = FALSE]
    BY <1>8 DEF SetUnhealthy
  <2>2. BlamesOnly(p, faulted) /\ q.cur \in faulted
    BY <1>0, <2>1 DEF Shape, BlamesOnly
  <2> HIDE DEF p
  <2> QED BY <2>1, <2>2, BlameStep DEF BlameInv
<1>9. CASE TryClassified(r)
  <2> DEFINE p == [q EXCEPT !.stage = "extra", !.outer = q.cur, !.extra = ClassifiedFallbacks,
                            !.outerAffects = q.affects]
  <2>1. /\ req' = [req EXCEPT ![r] = p] /\ UNCHANGED <<health, cooled, faulted>>
        /\ q.stage = "decide" /\ q.classified
    BY <1>9 DEF TryClassified, Classified, deploymentVars
  <2>2. BlamesOnly(p, faulted)
    BY <1>0, <2>1 DEF Shape, BlamesOnly
  <2> HIDE DEF p
  <2> QED BY <2>1, <2>2, RotationKept
<1>10. CASE RaiseClientError(r)
  BY <1>10, IdleBlamesNobody, RotationKept DEF RaiseClientError, deploymentVars
<1>11. CASE Retry(r)
  <2> DEFINE p == [q EXCEPT !.stage = "calling", !.attempt = @ + 1]
  <2>1. /\ req' = [req EXCEPT ![r] = p] /\ UNCHANGED <<health, cooled, faulted>>
        /\ q.stage = "decide" /\ q.outer = NoDeployment /\ q.affects
    BY <1>11 DEF Retry, deploymentVars
  <2>2. BlamesOnly(p, faulted)
    BY <1>0, <2>1 DEF Shape, BlamesOnly
  <2> HIDE DEF p
  <2> QED BY <2>1, <2>2, RotationKept
<1>12. CASE NextDeployment(r)
  <2> DEFINE p == [q EXCEPT !.stage = "next"]
  <2>1. /\ req' = [req EXCEPT ![r] = p] /\ UNCHANGED <<health, cooled, faulted>>
        /\ q.stage = "decide" /\ q.outer = NoDeployment /\ q.affects
    BY <1>12 DEF NextDeployment, deploymentVars
  <2>2. BlamesOnly(p, faulted)
    BY <1>0, <2>1 DEF Shape, BlamesOnly
  <2> HIDE DEF p
  <2> QED BY <2>1, <2>2, RotationKept
<1>13. CASE SkipExtra(r)
  <2> DEFINE p == [q EXCEPT !.extra = Tail(q.extra)]
  <2>1. /\ req' = [req EXCEPT ![r] = p] /\ UNCHANGED <<health, cooled, faulted>>
        /\ q.stage = "extra"
    BY <1>13 DEF SkipExtra, deploymentVars
  <2>2. BlamesOnly(p, faulted)
    BY <1>0, <2>1 DEF Shape, BlamesOnly
  <2> HIDE DEF p
  <2> QED BY <2>1, <2>2, RotationKept
<1>14. CASE StartExtra(r)
  <2> DEFINE p == [q EXCEPT !.stage = "calling", !.extra = Tail(@), !.cur = Head(q.extra),
                            !.last = Head(q.extra)]
  <2>1. /\ req' = [req EXCEPT ![r] = p] /\ UNCHANGED <<health, cooled, faulted>>
        /\ q.stage = "extra"
    BY <1>14 DEF StartExtra, deploymentVars
  <2>2. BlamesOnly(p, faulted)
    BY <1>0, <2>1 DEF Shape, BlamesOnly
  <2> HIDE DEF p
  <2> QED BY <2>1, <2>2, RotationKept
<1>15. CASE ExtraExhausted(r)
  <2> DEFINE p == AfterExtra(q)
  <2>1. /\ req' = [req EXCEPT ![r] = p] /\ UNCHANGED <<health, cooled, faulted>>
        /\ q.stage = "extra"
    BY <1>15 DEF ExtraExhausted, deploymentVars
  <2>2. BlamesOnly(p, faulted)
    BY <1>0, <2>1 DEF Shape, BlamesOnly, AfterExtra
  <2> HIDE DEF p
  <2> QED BY <2>1, <2>2, RotationKept
<1>16. CASE ExtraFailed(r)
  <2> DEFINE p == [q EXCEPT !.stage = "extra"]
  <2>1. /\ req' = [req EXCEPT ![r] = p] /\ UNCHANGED <<health, cooled, faulted>>
        /\ q.stage = "decide" /\ q.outer # NoDeployment
    BY <1>16 DEF ExtraFailed, deploymentVars
  <2>2. BlamesOnly(p, faulted)
    BY <1>0, <2>1 DEF Shape, BlamesOnly
  <2> HIDE DEF p
  <2> QED BY <2>1, <2>2, RotationKept
<1>17. CASE ExtraRaises(r)
  BY <1>17, IdleBlamesNobody, RotationKept DEF ExtraRaises, deploymentVars
<1>18. CASE ReportFailure(r)
  <2> DEFINE p == [q EXCEPT !.stage = "mark"]
  <2>1. /\ req' = [req EXCEPT ![r] = IdleRequest] \/ req' = [req EXCEPT ![r] = p]
        /\ UNCHANGED <<health, cooled, faulted>> /\ q.stage = "failed"
    BY <1>18 DEF ReportFailure
  <2>2. BlamesOnly(p, faulted)
    BY <1>0, <2>1 DEF Shape, BlamesOnly
  <2> HIDE DEF p
  <2> QED BY <2>1, <2>2, IdleBlamesNobody, RotationKept
<1>19. CASE MarkUnhealthy(r)
  <2>1. /\ req' = [req EXCEPT ![r] = IdleRequest] /\ UNCHANGED <<cooled, faulted>>
        /\ q.stage = "mark" /\ health' = [health EXCEPT ![q.last] = FALSE]
    BY <1>19 DEF MarkUnhealthy
  <2>2. q.last \in faulted
    BY <1>0, <2>1 DEF BlamesOnly
  <2> QED BY <2>1, <2>2, IdleBlamesNobody, BlameStep DEF BlameInv
<1>20. CASE Disconnect(r)
  BY <1>20, IdleBlamesNobody, RotationKept DEF Disconnect, deploymentVars
<1>21. CASE Crash(r)
  BY <1>21, IdleBlamesNobody, RotationKept DEF Crash, deploymentVars
<1> QED
  BY <1>1, <1>2, <1>3, <1>4, <1>5, <1>6, <1>7, <1>8, <1>9, <1>10, <1>11, <1>12, <1>13,
     <1>14, <1>15, <1>16, <1>17, <1>18, <1>19, <1>20, <1>21 DEF RequestStep

LEMMA DeploymentBlames ==
    ASSUME BlameInv, NEW d \in Deployments,
           \/ CheckerStep(d) \/ CheckDeploymentOnce(d)
           \/ CooldownExpires(d) \/ FailuresExpire(d) \/ ProviderChanges(d)
    PROVE  BlameInv'
<1>1. /\ UNCHANGED req /\ faulted \subseteq faulted'
      /\ \/ UNCHANGED health
         \/ health' = [health EXCEPT ![d] = TRUE]
         \/ health' = [health EXCEPT ![d] = FALSE] /\ d \in faulted'
      /\ UNCHANGED cooled \/ cooled' = [cooled EXCEPT ![d] = FALSE]
  BY DEF CheckerStep, CheckDeploymentOnce, CooldownExpires, FailuresExpire,
     ProviderChanges, RunHealthCheck, StartProbe, ApplyHealthyResult, ClearCooldown,
     ApplyUnhealthyResult, HealthAfterProbe, deploymentVars
<1>2. \A r \in Requests : BlamesOnly(req'[r], faulted')
  BY <1>1, BlameGrows DEF BlameInv
<1> QED BY <1>1, <1>2 DEF BlameInv

\* BlameInv is an invariant: a coroutine about to cool down or mark a deployment,
\* in _enter_cooldown or in the passive tracker, has seen that one fail.
THEOREM BlameInvariance ==
    ASSUME ~ClassifiedServerErrors
    PROVE  SafetySpec => []BlameInv
<1>1. Init => BlameInv
  BY IdleBlamesNobody DEF Init, BlameInv
<1>2. CountInv /\ BlameInv /\ [Next]_vars => BlameInv'
  <2> SUFFICES ASSUME CountInv, BlameInv, [Next]_vars PROVE BlameInv'
    OBVIOUS
  <2>0. Shaped
    BY DEF CountInv
  <2>1. ASSUME NEW r \in Requests,
               SelectDeployment(r) \/ RequestStep(r) \/ Disconnect(r) \/ Crash(r)
        PROVE  BlameInv'
    BY <2>0, <2>1, SelectBlames, RequestBlames
  <2>2. ASSUME NEW d \in Deployments,
               \/ CheckerStep(d) \/ CheckDeploymentOnce(d)
               \/ CooldownExpires(d) \/ FailuresExpire(d) \/ ProviderChanges(d)
        PROVE  BlameInv'
    BY <2>2, DeploymentBlames
  <2>3. CASE UNCHANGED vars
    BY <2>3 DEF vars, BlameInv
  <2> QED BY <2>1, <2>2, <2>3 DEF Next
<1> QED BY <1>1, <1>2, CountInvariance, PTL DEF SafetySpec

\* OnlyFaultyLeaveRotation for every number of deployments, requests and retries
\* and every threshold, when an error with a context-window or content-policy
\* message is always the caller's: no sequence of bad requests and no failure of
\* another deployment takes a deployment out of rotation (health_policy.py:31).
THEOREM RotationSafe ==
    ASSUME ~ClassifiedServerErrors
    PROVE  Spec => []OnlyFaultyLeaveRotation
<1>1. BlameInv => OnlyFaultyLeaveRotation
  BY DEF BlameInv, OnlyFaultyLeaveRotation, FilterHealthy
<1> QED BY <1>1, BlameInvariance, PTL DEF Spec

-----------------------------------------------------------------------------
(***************************************************************************)
(* What the router is built from.                                          *)
(*                                                                         *)
(* A handler or a reload is a list of steps, so the lists come first: Asks *)
(* says what a step needs to have behind it in its list (a write of models *)
(* its announcement, a load of the route groups the build of the           *)
(* registry), and every list a task starts with, and every rest of one, is *)
(* Ordered.                                                                *)
(*                                                                         *)
(* RuntimeInv says of each of the four sources of an instance which step   *)
(* will bring it up to date (Covered).  It cannot be any step: a build     *)
(* brings the models if the instance's model registry is fresh, whoever    *)
(* loaded it; the groups if this task's are; a load of the groups if       *)
(* neither cache level is stale; and a message about the settings counts   *)
(* only while the instance's own settings are stale, for a reload that     *)
(* finds them unchanged does nothing.  A handler counts from its check on  *)
(* (Will).                                                                 *)
(*                                                                         *)
(* A step either leaves what was coming as it was (Carries), or is a step  *)
(* of one task whose effect on the four sources is shown one by one.       *)
(***************************************************************************)
CONSTANTS Instances, Families, Readers, Faults, MaxHandlers, MaxFaults, MaxTimers
VARIABLES auth, gone, reader, snap, models, config, registry, groups1, groups2, lock,
          inbox, queued, listening, events, following, task, missed, missedAuth, used

Plane == INSTANCE ControlPlane

\* The tasks that set up the router, and those that do so without a handler.
Workers == {"admin", "listener", "poll"}

\* The steps of an administrative handler that ask nothing of the steps after them ...
Reloading(S) == {<<op, v>> : op \in S, v \in Plane!Views}
Calm ==
    {Plane!Check, Plane!Drop, Plane!DropLogged, Plane!Tune, <<"get", "config">>,
     <<"follow", "targets">>, <<"publish", "model">>, <<"publish", "config">>}
        \cup {<<"write", x>> : x \in {"key", "owner", "gone", "targets", "mcp"}}
        \cup {<<"edit", x>> : x \in {"owner", "mcp"}}
        \cup Reloading({"lock", "read", "install", "notify"})

\* ... and those that do.
LoadModels == <<"models", "load">>
LoadGroups == <<"groups", "load">>
QueryGroups == <<"query", "groups">>
StoreGroups == <<"store", "groups">>
Build == <<"build", "registry">>
GetOwn == <<"get", "own">>
Refresh == {Plane!Uncache, LoadModels, LoadGroups, QueryGroups, StoreGroups, Build}
Demanding ==
    {<<"write", "models">>, <<"write", "groups">>, <<"write", "settings">>, GetOwn} \cup Refresh

\* A message or the poll: the whole list of its task.
Events == {"model", "config"}
Single == {<<op, e>> : op \in {"load", "apply"}, e \in Events}

Background == {"listener", "poll"}
StepsOf(t) ==
    CASE t = "admin" -> Calm \cup Demanding
      [] t = "flush" -> {<<"take", "queued">>} \cup Reloading({"lock", "read", "install"})
      [] OTHER -> Single \cup Refresh \cup {Plane!Tune} \cup Reloading({"lock", "read", "install"})

\* What a step asks of the set S of steps that come after it.
Asks(s, S) ==
    /\ s \in {<<"write", "models">>, <<"write", "groups">>} => <<"publish", "model">> \in S
    /\ s \in {<<"write", "settings">>, GetOwn} => <<"publish", "config">> \in S
    /\ s = GetOwn => Plane!Tune \in S /\ <<"get", "config">> \notin S
    /\ s \in {Plane!Uncache, LoadModels} => LoadGroups \in S
    /\ s \in (Refresh \ {Build}) \cup {GetOwn} => Build \in S
    /\ s \in {LoadGroups, QueryGroups, StoreGroups, Build} => LoadGroups \notin S
    /\ s \in Demanding => Plane!Check \notin S
    /\ s \in Single => S = {}
    /\ S \cap Single = {}

Later(p, k) == {p[m] : m \in (k + 1)..Len(p)}
On(p) == {p[m] : m \in 1..Len(p)}
Ordered(p) == \A k \in 1..Len(p) : Asks(p[k], Later(p, k))

\* What a task will do: nothing for sure before its check.
Will(q) == IF Plane!Check \in On(q.todo) THEN {} ELSE On(q.todo)

Publishes(q, e) == <<"publish", e>> \in Will(q)
BringsModels(q, current) ==
    \/ \E x \in {<<"load", "model">>, <<"apply", "model">>, LoadModels} : x \in Will(q)
    \/ q.models /\ LoadGroups \in Will(q)
    \/ current /\ Build \in Will(q)
BringsGroups(q, usable) ==
    \/ \E x \in {<<"load", "model">>, <<"apply", "model">>, Plane!Uncache, QueryGroups} : x \in Will(q)
    \/ usable /\ LoadGroups \in Will(q)
    \/ q.groups /\ Build \in Will(q) /\ LoadGroups \notin Will(q)
BringsConfig(q) ==
    \E e \in Events : <<"load", e>> \in Will(q) \/ (q.config /\ <<"apply", e>> \in Will(q))
BringsSettings(q) == q.config /\ Build \in Will(q) /\ <<"get", "config">> \notin Will(q)
Tunes(q) == Plane!Tune \in Will(q)

Announced(e) == \E j \in Instances : Publishes(task[j]["admin"], e)
Usable(i) == groups1[i] # "stale" /\ groups2 # "stale"
ModelsComing(i) ==
    \/ Announced("model") \/ "model" \in events[i]
    \/ \E t \in Background : BringsModels(task[i][t], models[i])
GroupsComing(i) ==
    \/ Announced("model") \/ "model" \in events[i]
    \/ \E t \in Background : BringsGroups(task[i][t], Usable(i))
ConfigComing(i) ==
    ~config[i] /\ (\/ Announced("config") \/ events[i] # {}
                   \/ \E t \in Background : BringsConfig(task[i][t]))
SettingsComing(i) == ConfigComing(i) \/ \E t \in Workers : BringsSettings(task[i][t])
SchedulerComing(i) == ConfigComing(i) \/ (config[i] /\ \E t \in Workers : Tunes(task[i][t]))

Covered(i) ==
    "runtime" \notin missed[i] =>
        /\ registry[i]["models"] \/ ModelsComing(i)
        /\ registry[i]["groups"] \/ GroupsComing(i)
        /\ registry[i]["settings"] \/ SettingsComing(i)
        /\ registry[i]["scheduler"] \/ SchedulerComing(i)

-----------------------------------------------------------------------------
(* Lists of steps *)

Steps == UNION {StepsOf(t) : t \in Plane!Tasks}

LEMMA Beginning ==
    ASSUME NEW S, NEW p \in Seq(S), p # <<>>
    PROVE  /\ Tail(p) \in Seq(S) /\ Len(p) \in Nat \ {0} /\ Len(Tail(p)) = Len(p) - 1
           /\ Head(p) = p[1] /\ p[1] \in S
           /\ \A k \in 1..Len(Tail(p)) : k + 1 \in 2..Len(p) /\ Tail(p)[k] = p[k + 1]
           /\ \A k \in 2..Len(p) : k - 1 \in 1..Len(Tail(p)) /\ p[k] = Tail(p)[k - 1]
OBVIOUS

LEMMA Shortened ==
    ASSUME NEW S, NEW p \in Seq(S), p # <<>>
    PROVE  On(p) = {p[1]} \cup On(Tail(p)) /\ (Ordered(p) => Ordered(Tail(p)) /\ Asks(p[1], On(Tail(p))))
<1> DEFINE q == Tail(p)
<1>1. /\ Len(p) \in Nat \ {0} /\ Len(q) = Len(p) - 1
      /\ \A k \in 1..Len(q) : k + 1 \in 2..Len(p) /\ q[k] = p[k + 1]
      /\ \A k \in 2..Len(p) : k - 1 \in 1..Len(q) /\ p[k] = q[k - 1]
  BY Beginning
<1> HIDE DEF q
<1>2. On(p) = {p[1]} \cup On(q)
  BY <1>1 DEF On
<1>3. ASSUME NEW k \in 0..Len(q) PROVE Later(q, k) = Later(p, k + 1)
  <2>1. \A m \in (k + 1)..Len(q) : m + 1 \in ((k + 1) + 1)..Len(p) /\ q[m] = p[m + 1]
    BY <1>1
  <2>2. \A m \in ((k + 1) + 1)..Len(p) : m - 1 \in (k + 1)..Len(q) /\ p[m] = q[m - 1]
    BY <1>1
  <2>3. Later(q, k) \subseteq Later(p, k + 1)
    BY <2>1 DEF Later
  <2>4. Later(p, k + 1) \subseteq Later(q, k)
    BY <2>2 DEF Later
  <2> QED BY <2>3, <2>4
<1>4. Later(q, 0) = On(q)
  BY DEF Later, On
<1>5. Ordered(p) => Asks(p[1], On(q))
  BY <1>1, <1>3, <1>4 DEF Ordered
<1>6. ASSUME Ordered(p), NEW k \in 1..Len(q) PROVE Asks(q[k], Later(q, k))
  <2>1. k + 1 \in 1..Len(p) /\ q[k] = p[k + 1] /\ k \in 0..Len(q)
    BY <1>1
  <2> QED BY <1>3, <1>6, <2>1 DEF Ordered
<1> QED BY <1>2, <1>5, <1>6 DEF Ordered, q

LEMMA Prefixed ==
    ASSUME NEW S, NEW s \in S, NEW q \in Seq(S)
    PROVE  /\ Cons(s, q) \in Seq(S) /\ On(Cons(s, q)) = {s} \cup On(q) /\ Cons(s, q) # <<>>
           /\ Ordered(q) /\ Asks(s, On(q)) => Ordered(Cons(s, q))
<1> DEFINE p == <<s>> \o q
<1>1. /\ p \in Seq(S) /\ Len(p) = Len(q) + 1 /\ Len(q) \in Nat /\ p[1] = s /\ p # <<>>
      /\ \A k \in 1..Len(q) : p[k + 1] = q[k]
      /\ \A k \in 2..(Len(q) + 1) : p[k] = q[k - 1] /\ k - 1 \in 1..Len(q)
  OBVIOUS
<1> HIDE DEF p
<1>2. On(p) = {s} \cup On(q)
  <2>1. \A k \in 1..Len(p) : k = 1 \/ k \in 2..(Len(q) + 1)
    BY <1>1
  <2>2. On(p) \subseteq {s} \cup On(q)
    BY <1>1, <2>1 DEF On
  <2>3. \A k \in 1..Len(q) : k + 1 \in 1..Len(p)
    BY <1>1
  <2>4. On(q) \subseteq On(p)
    BY <1>1, <2>3 DEF On
  <2>5. s \in On(p)
    BY <1>1 DEF On
  <2> QED BY <2>2, <2>4, <2>5
<1>3. ASSUME NEW k \in 1..Len(p) PROVE Later(p, k) = Later(q, k - 1)
  <2>1. \A m \in ((k - 1) + 1)..Len(q) : m + 1 \in (k + 1)..Len(p) /\ q[m] = p[m + 1]
    BY <1>1
  <2>2. \A m \in (k + 1)..Len(p) : m - 1 \in ((k - 1) + 1)..Len(q) /\ p[m] = q[m - 1]
    BY <1>1
  <2>3. Later(q, k - 1) \subseteq Later(p, k)
    BY <2>1 DEF Later
  <2>4. Later(p, k) \subseteq Later(q, k - 1)
    BY <2>2 DEF Later
  <2> QED BY <2>3, <2>4
<1>4. ASSUME Ordered(q), Asks(s, On(q)), NEW k \in 1..Len(p) PROVE Asks(p[k], Later(p, k))
  <2>1. CASE k = 1
    <3>2. Later(q, 0) = On(q)
      BY DEF Later, On
    <3>1. Later(p, k) = On(q)
      BY <1>3, <2>1, <3>2
    <3> QED BY <1>1, <1>4, <2>1, <3>1
  <2>2. CASE k # 1
    <3>1. k - 1 \in 1..Len(q) /\ p[k] = q[k - 1]
      BY <1>1, <2>2
    <3> QED BY <1>3, <1>4, <3>1 DEF Ordered
  <2> QED BY <2>1, <2>2
<1> QED BY <1>1, <1>2, <1>4 DEF Ordered, Cons, p

LEMMA Nothing == On(<<>>) = {} /\ Ordered(<<>>) /\ \A S : <<>> \in Seq(S)
BY DEF On, Ordered

LEMMA Joined ==
    ASSUME NEW S, NEW p \in Seq(S), NEW q \in Seq(S)
    PROVE  On(p \o q) = On(p) \cup On(q) /\ p \o q \in Seq(S)
<1> DEFINE r == p \o q
<1>1. /\ r \in Seq(S) /\ Len(r) = Len(p) + Len(q) /\ Len(p) \in Nat /\ Len(q) \in Nat
      /\ \A k \in 1..Len(p) : r[k] = p[k]
      /\ \A k \in (Len(p) + 1)..Len(r) : r[k] = q[k - Len(p)]
  OBVIOUS
<1> HIDE DEF r
<1>2. \A k \in 1..Len(q) : k + Len(p) \in 1..Len(r) /\ r[k + Len(p)] = q[k]
  BY <1>1
<1>3. \A k \in 1..Len(r) : r[k] \in On(p) \cup On(q)
  <2> TAKE k \in 1..Len(r)
  <2>1. CASE k <= Len(p)
    BY <1>1, <2>1 DEF On
  <2>2. CASE k > Len(p)
    <3>1. k - Len(p) \in 1..Len(q) /\ r[k] = q[k - Len(p)]
      BY <1>1, <2>2
    <3> QED BY <3>1 DEF On
  <2> QED BY <1>1, <2>1, <2>2
<1>4. On(p) \subseteq On(r)
  BY <1>1 DEF On
<1>5. On(q) \subseteq On(r)
  BY <1>2 DEF On
<1> QED BY <1>1, <1>3, <1>4, <1>5 DEF On, r

\* Calm steps ask for nothing.
LEMMA CalmAsks ==
    ASSUME NEW s \in Calm, NEW S, S \cap Single = {}
    PROVE  Asks(s, S)
<1>1. s \notin Demanding /\ s \notin Single
  BY DEF Calm, Demanding, Refresh, Single, Events, LoadModels, LoadGroups, QueryGroups, StoreGroups,
     Build, GetOwn, Plane!Uncache, Plane!Check, Plane!Drop, Plane!DropLogged, Plane!Tune, Reloading,
     Plane!Views
<1> QED BY <1>1 DEF Asks, Demanding, Refresh

LEMMA CalmThen ==
    ASSUME NEW S, Calm \subseteq S, NEW p \in Seq(Calm), NEW q \in Seq(S),
           Ordered(q), On(q) \cap Single = {}
    PROVE  p \o q \in Seq(S) /\ Ordered(p \o q) /\ On(p \o q) = On(p) \cup On(q)
<1> DEFINE r == p \o q
<1>0. p \in Seq(S)
  OBVIOUS
<1>1. /\ r \in Seq(S) /\ Len(r) = Len(p) + Len(q) /\ Len(p) \in Nat /\ Len(q) \in Nat
      /\ \A k \in 1..Len(p) : r[k] = p[k] /\ p[k] \in Calm
      /\ \A k \in (Len(p) + 1)..Len(r) : r[k] = q[k - Len(p)]
      /\ \A k \in 1..Len(q) : r[k + Len(p)] = q[k]
  BY <1>0
<1>2. On(r) = On(p) \cup On(q)
  BY <1>0, Joined
<1> HIDE DEF r
<1>3. On(r) \cap Single = {}
  <2>1. On(p) \subseteq Calm
    BY <1>1 DEF On
  <2>2. Calm \cap Single = {}
    BY DEF Calm, Single, Events, Plane!Check, Plane!Drop, Plane!DropLogged, Plane!Tune, Reloading,
       Plane!Views
  <2> QED BY <1>2, <2>1, <2>2
<1>4. ASSUME NEW k \in 1..Len(r) PROVE Asks(r[k], Later(r, k))
  <2>1. CASE k <= Len(p)
    <3>1. Later(r, k) \subseteq On(r)
      BY <1>1 DEF Later, On
    <3> QED BY <1>1, <1>3, <2>1, <3>1, CalmAsks
  <2>2. CASE k > Len(p)
    <3> DEFINE n == k - Len(p)
    <3>1. n \in 1..Len(q) /\ r[k] = q[n]
      BY <1>1, <2>2
    <3>2. \A m \in (n + 1)..Len(q) : m + Len(p) \in (k + 1)..Len(r) /\ r[m + Len(p)] = q[m]
      BY <1>1, <2>2
    <3>3. \A m \in (k + 1)..Len(r) : m - Len(p) \in (n + 1)..Len(q) /\ r[m] = q[m - Len(p)]
      BY <1>1, <2>2
    <3> HIDE DEF n
    <3>4. Later(r, k) \subseteq Later(q, n)
      <4> SUFFICES ASSUME NEW m \in (k + 1)..Len(r) PROVE r[m] \in Later(q, n)
        BY DEF Later
      <4> QED BY <3>3 DEF Later
    <3>5. Later(q, n) \subseteq Later(r, k)
      <4> SUFFICES ASSUME NEW m \in (n + 1)..Len(q) PROVE q[m] \in Later(r, k)
        BY DEF Later
      <4> QED BY <3>2 DEF Later
    <3>6. Later(r, k) = Later(q, n)
      BY <3>4, <3>5
    <3> QED BY <3>1, <3>6 DEF Ordered
  <2> QED BY <1>1, <2>1, <2>2
<1> QED BY <1>1, <1>2, <1>4 DEF Ordered, r

LEMMA CalmOnly ==
    ASSUME NEW p \in Seq(Calm)
    PROVE  Ordered(p) /\ On(p) \subseteq Calm
<1>1. p \o <<>> = p
  OBVIOUS
<1>2. Ordered(p \o <<>>)
  BY CalmThen, Nothing
<1>3. On(p) \subseteq Calm
  BY DEF On
<1> QED BY <1>1, <1>2, <1>3

-----------------------------------------------------------------------------
(* The lists of the handlers *)

Two(a, b, r) == <<a, b>> \o r
Three(a, b, c, r) == <<a, b, c>> \o r

LEMMA Unfolding ==
    ASSUME NEW S, NEW a \in S, NEW b \in S, NEW c \in S, NEW r \in Seq(S)
    PROVE  Two(a, b, r) = Cons(a, Cons(b, r)) /\ Three(a, b, c, r) = Cons(a, Cons(b, Cons(c, r)))
<1> DEFINE q == <<c>> \o r
<1>1. <<a>> \in Seq(S) /\ <<b>> \in Seq(S) /\ <<c>> \in Seq(S) /\ <<a, b>> \in Seq(S) /\ q \in Seq(S)
  OBVIOUS
<1>2. <<a, b, c>> = <<a, b>> \o <<c>>
  OBVIOUS
<1>3. <<a, b>> = <<a>> \o <<b>>
  <2> DEFINE e == <<a, b>>
             f == <<a>> \o <<b>>
  <2>1. e \in Seq(S) /\ Len(e) = 2 /\ e[1] = a /\ e[2] = b
    OBVIOUS
  <2>2. f \in Seq(S) /\ Len(f) = 2 /\ f[1] = a /\ f[2] = b
    OBVIOUS
  <2> HIDE DEF e, f
  <2>3. e = f
    BY <2>1, <2>2, SeqEqual
  <2> QED BY <2>3 DEF e, f
<1>4. <<a, b, c>> \o r = <<a, b>> \o q
  BY <1>1, <1>2, ConcatAssociative
<1> HIDE DEF q
<1>5. <<a, b>> \o q = <<a>> \o (<<b>> \o q)
  BY <1>1, <1>3, ConcatAssociative
<1>6. <<a, b>> \o r = <<a>> \o (<<b>> \o r)
  BY <1>1, <1>3, ConcatAssociative
<1> QED BY <1>4, <1>5, <1>6 DEF q, Cons, Two, Three

\* The names of steps are different.
LEMMA StepNames ==
    /\ Demanding \cap Single = {} /\ Calm \cap Single = {} /\ Calm \cap Demanding = {}
    /\ Plane!Check \in Calm
    /\ Refresh \subseteq Demanding /\ GetOwn \in Demanding /\ GetOwn \notin Refresh
    /\ \A x \in {"models", "groups", "settings"} :
          <<"write", x>> \in Demanding /\ <<"write", x>> \notin Refresh \cup {GetOwn}
    /\ <<"write", "settings">> \notin {<<"write", "models">>, <<"write", "groups">>}
    /\ \A t \in Plane!Tasks \ {"flush"} : Refresh \subseteq StepsOf(t)
    /\ LoadModels \notin {LoadGroups, QueryGroups, StoreGroups, Build, Plane!Uncache}
    /\ LoadGroups \notin {QueryGroups, StoreGroups, Build, Plane!Uncache}
    /\ QueryGroups \notin {StoreGroups, Build, Plane!Uncache}
    /\ StoreGroups \notin {Build, Plane!Uncache} /\ Build # Plane!Uncache
BY DEF Calm, Demanding, Refresh, Single, Events, LoadModels, LoadGroups, QueryGroups, StoreGroups,
   Build, GetOwn, Plane!Uncache, Plane!Check, Plane!Drop, Plane!DropLogged, Plane!Tune, Reloading,
   Plane!Views, Plane!Tasks, StepsOf

LEMMA CalmSteps ==
    /\ \A x \in {"key", "owner", "gone", "targets", "mcp"} : Plane!Write(x) \in Calm
    /\ \A x \in {"owner", "mcp"} : Plane!Edit(x) \in Calm
    /\ \A v \in Plane!Views : /\ Plane!Notify(v) \in Calm
                              /\ Plane!InvalidateLocal(v) \in Seq(Calm)
    /\ {Plane!Check, Plane!Drop, Plane!DropLogged, Plane!Tune, <<"get", "config">>,
        <<"follow", "targets">>, <<"publish", "model">>, <<"publish", "config">>} \subseteq Calm
BY DEF Calm, Reloading, Plane!Write, Plane!Edit, Plane!Notify, Plane!InvalidateLocal, Plane!Views,
   Plane!Check, Plane!Drop, Plane!DropLogged, Plane!Tune

LEMMA Checks ==
    /\ \A v \in Plane!Views : Plane!Check \notin On(Plane!InvalidateLocal(v))
    /\ Plane!Check \notin On(<<<<"follow", "targets">>, <<"publish", "model">>>>)
    /\ Plane!Check \notin On(<<Plane!Tune, <<"publish", "config">>>>)
    /\ Plane!Check \notin On(<<Plane!Tune>>)
    /\ <<"publish", "model">> \in On(<<<<"follow", "targets">>, <<"publish", "model">>>>)
    /\ {Plane!Tune, <<"publish", "config">>} \subseteq On(<<Plane!Tune, <<"publish", "config">>>>)
    /\ Plane!Tune \in On(<<Plane!Tune>>)
    /\ \A v \in Plane!Views : <<"get", "config">> \notin On(Plane!InvalidateLocal(v))
    /\ <<"get", "config">> \notin On(<<Plane!Tune, <<"publish", "config">>>>)
    /\ <<"get", "config">> \notin On(<<Plane!Tune>>)
BY DEF On, Plane!InvalidateLocal, Plane!Check, Plane!Tune, Plane!Views

CalmProgram(p) == p \in Seq(Calm) /\ Plane!Check \in On(p)

\* A handler's list: in order, and nothing is certain before its check.
Program(p) == p \in Seq(StepsOf("admin")) /\ Ordered(p) /\ Plane!Check \in On(p)

LEMMA CalmPrograms == \A p \in Plane!KeyHandlers \cup Plane!GovernanceHandlers : CalmProgram(p)
<1> DEFINE C == Plane!Check
           T == Plane!ReloadTargets
           G == Plane!ReloadRuntimeGovernance
<1>1. T \in Seq(Calm) /\ G \in Seq(Calm)
  <2> DEFINE a == Plane!InvalidateLocal("targets")
             b == Plane!InvalidateLocal("mcp")
             x == Plane!Notify("targets")
             y == Plane!Notify("mcp")
  <2>1. a \in Seq(Calm) /\ b \in Seq(Calm) /\ x \in Calm /\ y \in Calm
    BY CalmSteps DEF Plane!Views
  <2> HIDE DEF a, b, x, y
  <2>2. a \o <<x>> \in Seq(Calm) /\ b \o <<y>> \in Seq(Calm)
    BY <2>1
  <2> QED BY <2>2 DEF a, b, x, y, Plane!ReloadTargets, Plane!ReloadRuntimeGovernance
<1>2. C \in Calm
  BY CalmSteps
<1> HIDE DEF C, T, G
<1>3. CalmProgram(<<C>>)
  BY <1>2 DEF CalmProgram, On, C
<1>4. \A x \in Calm : CalmProgram(<<C, x>>)
  BY <1>2 DEF CalmProgram, On, C
<1>5. \A x \in Calm, y \in Calm : CalmProgram(<<C, x, y>>)
  BY <1>2 DEF CalmProgram, On, C
<1>6. \A p, q : CalmProgram(p) /\ q \in Seq(Calm) => CalmProgram(p \o q)
  BY Joined DEF CalmProgram
<1>7. \A x \in Calm, y \in Calm : <<x>> \in Seq(Calm) /\ <<x, y>> \in Seq(Calm)
  OBVIOUS
<1>8. \A p : CalmProgram(p) => /\ CalmProgram(p \o T) /\ CalmProgram(p \o G)
                              /\ \A x \in Calm, y \in Calm : CalmProgram(p \o <<x>>) /\ CalmProgram(p \o <<x, y>>)
  BY <1>1, <1>6, <1>7
<1> DEFINE W(x) == Plane!Write(x)
           E(x) == Plane!Edit(x)
<1>9. /\ W("key") \in Calm /\ W("owner") \in Calm /\ W("gone") \in Calm /\ W("targets") \in Calm
      /\ W("mcp") \in Calm /\ E("owner") \in Calm /\ E("mcp") \in Calm
      /\ Plane!Drop \in Calm /\ Plane!DropLogged \in Calm
  BY CalmSteps
<1> HIDE DEF W, E
<1>10. \A p \in Plane!KeyHandlers : CalmProgram(p)
  BY <1>3, <1>4, <1>5, <1>8, <1>9, Zenon DEF C, T, W, E, Plane!KeyHandlers, Plane!CreateKey, Plane!CreateTeam,
     Plane!CreateServiceAccount, Plane!UpdateKey, Plane!RegenerateKey, Plane!RevokeKey, Plane!DeleteKey,
     Plane!UpdateUser, Plane!UpdateTeam, Plane!DeleteTeam, Plane!RemoveTeamMember,
     Plane!UpdateScopedGuardrails, Plane!DeleteScopedGuardrails, Plane!SyncOrgBindings,
     Plane!CreateOrganization, Plane!UpdateOrganization
<1>11. CalmProgram(Plane!SyncScopeAssetAccess)
  BY <1>3, <1>8, <1>9, Zenon DEF C, T, W, Plane!SyncScopeAssetAccess, Plane!SyncScopeBindings,
     Plane!SyncScopeAccessGroupBindings, Plane!SyncScopePolicy, Plane!TargetBindingRow,
     Plane!RouteGroupBindingRow, Plane!AccessGroupBindingRow, Plane!ScopePolicyRow
<1>12. \A p \in Plane!GovernanceHandlers : CalmProgram(p)
  BY <1>4, <1>5, <1>8, <1>9, <1>11, Zenon DEF C, T, G, W, E, Plane!GovernanceHandlers,
     Plane!UpdateOrganizationAssetAccess, Plane!UpdateKeyAssetAccess, Plane!UpdateTeamAssetAccess,
     Plane!UpdateUserAssetAccess, Plane!TargetBindingRow, Plane!RouteGroupBindingRow,
     Plane!AccessGroupBindingRow, Plane!ScopePolicyRow, Plane!McpServerRow, Plane!McpServerStatus,
     Plane!McpBindingRow, Plane!McpScopePolicyRow, Plane!McpToolPolicyRow,
     Plane!UpsertCallableTargetBinding, Plane!DeleteCallableTargetBinding,
     Plane!UpsertAccessGroupBinding, Plane!DeleteAccessGroupBinding, Plane!UpsertScopePolicy,
     Plane!DeleteScopePolicy, Plane!BackfillCallableTargets, Plane!UpsertRouteGroupBinding,
     Plane!DeleteRouteGroupBinding, Plane!CreateMcpServer, Plane!UpdateMcpServer,
     Plane!DeleteMcpServer, Plane!UpsertMcpBinding, Plane!DeleteMcpBinding,
     Plane!UpsertMcpScopePolicy, Plane!DeleteMcpScopePolicy, Plane!UpsertMcpToolPolicy,
     Plane!DeleteMcpToolPolicy, Plane!BackfillMcp, Plane!RefreshMcpCapabilities,
     Plane!HealthCheckMcpServer
<1> QED BY <1>10, <1>12

\* The models, the groups and the new registry, then calm steps.
Loading(z) == Cons(LoadModels, Cons(LoadGroups, Cons(Build, z)))

LEMMA Loaded ==
    ASSUME NEW S, Refresh \subseteq S, NEW z \in Seq(Calm), z \in Seq(S), Plane!Check \notin On(z)
    PROVE  /\ Loading(z) \in Seq(S) /\ Ordered(Loading(z)) /\ Plane!Check \notin On(Loading(z))
           /\ On(Loading(z)) = {LoadModels, LoadGroups, Build} \cup On(z)
           /\ On(Loading(z)) \cap Single = {}
<1> DEFINE a == LoadModels
           b == LoadGroups
           c == Build
           x == Cons(c, z)
           y == Cons(b, x)
<1>1. a \in S /\ b \in S /\ c \in S
  BY DEF Refresh
<1>2. Ordered(z) /\ On(z) \subseteq Calm
  BY CalmOnly
<1>3. a \in Demanding /\ b \in Demanding /\ c \in Demanding
  BY StepNames DEF Refresh
<1> HIDE DEF x, y
<1>4. x \in Seq(S) /\ Ordered(x) /\ On(x) = {c} \cup On(z)
  <2>1. Asks(c, On(z))
    BY <1>2, StepNames DEF Asks, Refresh
  <2> QED BY <1>1, <1>2, <2>1, Prefixed DEF x
<1>5. y \in Seq(S) /\ Ordered(y) /\ On(y) = {b} \cup On(x)
  <2>1. Asks(b, On(x))
    BY <1>2, <1>4, StepNames DEF Asks, Refresh
  <2>2. b \in S /\ x \in Seq(S) /\ Ordered(x)
    BY <1>1, <1>4
  <2>3. Cons(b, x) \in Seq(S)
    BY ONLY <2>2, Prefixed
  <2>4. On(Cons(b, x)) = {b} \cup On(x)
    BY ONLY <2>2, Prefixed
  <2>5. Ordered(Cons(b, x))
    BY ONLY <2>1, <2>2, Prefixed
  <2> QED BY <2>3, <2>4, <2>5 DEF y
<1>6. Cons(a, y) \in Seq(S) /\ Ordered(Cons(a, y)) /\ On(Cons(a, y)) = {a} \cup On(y)
  <2>1. Asks(a, On(y))
    BY <1>2, <1>4, <1>5, StepNames DEF Asks, Refresh
  <2>2. a \in S /\ y \in Seq(S) /\ Ordered(y)
    BY <1>1, <1>5
  <2>3. Cons(a, y) \in Seq(S)
    BY ONLY <2>2, Prefixed
  <2>4. On(Cons(a, y)) = {a} \cup On(y)
    BY ONLY <2>2, Prefixed
  <2>5. Ordered(Cons(a, y))
    BY ONLY <2>1, <2>2, Prefixed
  <2> QED BY <2>3, <2>4, <2>5
<1>7. Loading(z) = Cons(a, y)
  BY DEF Loading, x, y
<1>8. On(Loading(z)) = {a, b, c} \cup On(z)
  BY <1>4, <1>5, <1>6, <1>7
<1> QED BY <1>2, <1>3, <1>6, <1>7, <1>8, StepNames

\* reload_runtime, update_config and what a message leads to.
LEMMA Reconfigures ==
    ASSUME NEW z \in Seq(Calm), Plane!Check \notin On(z)
    PROVE  LET m == Plane!InvalidateLocal("targets") \o z IN
           /\ m \in Seq(Calm) /\ Plane!Check \notin On(m)
           /\ On(m) = On(Plane!InvalidateLocal("targets")) \cup On(z)
           /\ Plane!ApplyRuntimeConfig \o z = Loading(m)
           /\ Plane!ApplyRuntimeConfig \in Seq(Calm \cup Refresh)
<1> DEFINE v == Plane!InvalidateLocal("targets")
           m == v \o z
           e == <<LoadModels, LoadGroups, Build>>
           S == Calm \cup Refresh
<1>1. v \in Seq(Calm) /\ Plane!Check \notin On(v)
  BY CalmSteps, Checks DEF Plane!Views
<1>2. Plane!ApplyRuntimeConfig = e \o v
  BY DEF Plane!ApplyRuntimeConfig, LoadModels, LoadGroups, Build
<1>3. LoadModels \in S /\ LoadGroups \in S /\ Build \in S
  BY DEF Refresh
<1> HIDE DEF v
<1>4. m \in Seq(Calm) /\ On(m) = On(v) \cup On(z)
  BY <1>1, Joined
<1>5. v \in Seq(S) /\ z \in Seq(S) /\ m \in Seq(S)
  BY <1>1, <1>4
<1>6. e \in Seq(S)
  BY <1>3
<1>7. (e \o v) \o z = e \o m
  BY <1>5, <1>6, ConcatAssociative
<1>8. e \o m = Loading(m)
  <2> DEFINE a == LoadModels
             b == LoadGroups
             c == Build
  <2> HIDE DEF a, b, c, m, S
  <2>1. a \in S /\ b \in S /\ c \in S /\ m \in Seq(S)
    BY <1>3, <1>5 DEF a, b, c
  <2>2. Three(a, b, c, m) = Cons(a, Cons(b, Cons(c, m)))
    BY ONLY <2>1, Unfolding
  <2> QED BY <2>2 DEF Loading, Three, a, b, c
<1>9. e \o v \in Seq(S)
  BY <1>5, <1>6
<1> QED BY <1>1, <1>2, <1>4, <1>7, <1>8, <1>9 DEF v

\* A handler's list behind its check.
Body(p) ==
    p \in Seq(StepsOf("admin")) /\ Ordered(p) /\ Plane!Check \notin On(p) /\ On(p) \cap Single = {}

LEMMA BodyBefore ==
    ASSUME NEW s, NEW p, Body(p), s \in StepsOf("admin"), Asks(s, On(p))
    PROVE  /\ s # Plane!Check => Body(Cons(s, p))
           /\ On(Cons(s, p)) = {s} \cup On(p)
           /\ Program(Cons(Plane!Check, p))
<1> DEFINE A == StepsOf("admin")
           C == Plane!Check
<1>1. A = Calm \cup Demanding /\ C \in A /\ A \cap Single = {} /\ C \in Calm
  BY StepNames DEF StepsOf
<1> HIDE DEF A, C
<1>2. p \in Seq(A) /\ Ordered(p) /\ C \notin On(p) /\ On(p) \cap Single = {} /\ s \in A
  BY DEF Body, A, C
<1>3. Cons(s, p) \in Seq(A) /\ On(Cons(s, p)) = {s} \cup On(p) /\ Ordered(Cons(s, p))
  BY ONLY <1>2, Asks(s, On(p)), Prefixed
<1>4. Asks(C, On(p))
  BY <1>1, <1>2, CalmAsks
<1>5. Cons(C, p) \in Seq(A) /\ On(Cons(C, p)) = {C} \cup On(p) /\ Ordered(Cons(C, p))
  BY ONLY <1>1, <1>2, <1>4, Prefixed
<1>6. s \notin Single
  BY <1>1, <1>2
<1> QED BY <1>2, <1>3, <1>5, <1>6 DEF Body, Program, A, C

LEMMA Reloads ==
    /\ Body(Plane!ReloadRuntime) /\ Program(Cons(Plane!Check, Plane!UpdateConfig))
    /\ {<<"publish", "model">>, LoadGroups, Build} \subseteq On(Plane!ReloadRuntime)
<1> DEFINE A == StepsOf("admin")
           y == <<<<"follow", "targets">>, <<"publish", "model">>>>
           z == <<Plane!Tune, <<"publish", "config">>>>
           v == Plane!InvalidateLocal("targets")
           m == v \o y
           n == v \o z
           g == <<"get", "config">>
           p == Plane!ApplyRuntimeConfig
           B == Calm \cup Refresh
<1>1. y \in Seq(Calm) /\ z \in Seq(Calm) /\ g \in Calm
  BY CalmSteps
<1>2. Plane!Check \notin On(y) /\ Plane!Check \notin On(z)
  BY Checks
<1>3. A = Calm \cup Demanding /\ Refresh \subseteq A /\ GetOwn \in A /\ <<"write", "settings">> \in A /\ Plane!Uncache \in A
  BY StepNames DEF StepsOf, Refresh, Demanding
<1>17. g \notin On(v) /\ g \notin On(z) /\ <<"publish", "model">> \in On(y)
       /\ <<"publish", "config">> \in On(z) /\ Plane!Tune \in On(z)
  BY Checks DEF Plane!Views
<1> HIDE DEF y, z, v, g
<1>4. /\ m \in Seq(Calm) /\ Plane!Check \notin On(m) /\ On(m) = On(v) \cup On(y) /\ p \o y = Loading(m)
      /\ n \in Seq(Calm) /\ Plane!Check \notin On(n) /\ On(n) = On(v) \cup On(z) /\ p \o z = Loading(n)
      /\ p \in Seq(B)
  BY <1>1, <1>2, Reconfigures DEF v
<1> HIDE DEF m, n, A, B, p
<1>5. m \in Seq(A) /\ n \in Seq(A)
  BY <1>3, <1>4
<1>6. /\ Body(Loading(m)) /\ On(Loading(m)) = {LoadModels, LoadGroups, Build} \cup On(m)
      /\ Body(Loading(n)) /\ On(Loading(n)) = {LoadModels, LoadGroups, Build} \cup On(n)
  BY <1>3, <1>4, <1>5, Loaded DEF Body, A
<1>7. Plane!ReloadRuntime = Cons(g, Loading(m))
  <2>1. y \in Seq(B) /\ <<g>> \in Seq(B)
    BY <1>1 DEF B
  <2> DEFINE h == <<g>>
  <2>3. h \in Seq(B) /\ p \in Seq(B) /\ y \in Seq(B)
    BY <1>4, <2>1
  <2> HIDE DEF h
  <2>4. (h \o p) \o y = h \o (p \o y)
    BY ONLY <2>3, ConcatAssociative
  <2>2. (<<g>> \o p) \o y = <<g>> \o (p \o y)
    BY <2>4 DEF h
  <2> QED BY <1>4, <2>2 DEF Cons, Plane!ReloadRuntime, y, g, p
<1>8. g # Plane!Check /\ g \in A
  BY <1>1, <1>3 DEF g, Plane!Check
<1>9. Asks(g, On(Loading(m)))
  BY <1>1, <1>6, CalmAsks DEF Body
<1>10. Body(Plane!ReloadRuntime) /\ On(Plane!ReloadRuntime) = {g} \cup On(Loading(m))
  BY <1>6, <1>7, <1>8, <1>9, BodyBefore DEF A
<1> DEFINE w == <<"write", "settings">>
           u == Plane!Uncache
           l == Loading(n)
<1>11. Plane!UpdateConfig = Cons(w, Cons(GetOwn, Cons(u, l)))
  <2> HIDE DEF w, u, l
  <2> DEFINE o == GetOwn
             D == A \cup B
  <2> HIDE DEF o, D
  <2>1. /\ w \in A /\ o \in A /\ u \in A /\ w \in D /\ o \in D /\ u \in D /\ z \in Seq(D) /\ p \in Seq(D)
        /\ <<w, o, u>> \in Seq(D)
    BY <1>1, <1>3, <1>4 DEF w, o, u, D, B
  <2> DEFINE h == <<w, o, u>>
  <2>5. h \in Seq(D) /\ p \in Seq(D) /\ z \in Seq(D)
    BY <2>1
  <2> HIDE DEF h
  <2>6. (h \o p) \o z = h \o (p \o z)
    BY ONLY <2>5, ConcatAssociative
  <2>2. (<<w, o, u>> \o p) \o z = <<w, o, u>> \o l
    BY <1>4, <2>6 DEF l, h
  <2>3. l \in Seq(A)
    BY <1>6 DEF Body, A, l
  <2>4. Three(w, o, u, l) = Cons(w, Cons(o, Cons(u, l)))
    BY ONLY <2>1, <2>3, Unfolding
  <2> QED BY <2>2, <2>4 DEF Plane!UpdateConfig, Three, w, o, u, z, p, GetOwn
<1>12. g \notin On(l) /\ {Plane!Tune, <<"publish", "config">>, LoadGroups, Build} \subseteq On(l)
  BY <1>4, <1>6, <1>17 DEF g, LoadModels, LoadGroups, Build
<1> HIDE DEF l, w
<1>13. Body(Cons(u, l)) /\ On(Cons(u, l)) = {u} \cup On(l)
  <2>1. Asks(u, On(l)) /\ u # Plane!Check
    BY <1>6, <1>12, StepNames DEF Asks, Body, l, Refresh
  <2> QED BY <1>3, <1>6, <2>1, BodyBefore DEF A, l
<1>14. Body(Cons(GetOwn, Cons(u, l))) /\ On(Cons(GetOwn, Cons(u, l))) = {GetOwn, u} \cup On(l)
  <2>1. g # u
    BY DEF g, Plane!Uncache
  <2>2. Asks(GetOwn, On(Cons(u, l))) /\ GetOwn # Plane!Check
    BY <1>12, <1>13, <2>1, StepNames DEF Asks, Body, Refresh, GetOwn, g
  <2> QED BY <1>3, <1>13, <2>2, BodyBefore DEF A
<1>15. Body(Cons(w, Cons(GetOwn, Cons(u, l))))
  <2>1. Asks(w, On(Cons(GetOwn, Cons(u, l)))) /\ w # Plane!Check
    BY <1>12, <1>13, <1>14, StepNames DEF Asks, Body, Refresh, w
  <2> QED BY <1>3, <1>14, <2>1, BodyBefore DEF A, w
<1>16. Program(Cons(Plane!Check, Plane!UpdateConfig))
  <2>1. Asks(Plane!Check, On(Plane!UpdateConfig))
    BY <1>11, <1>15, CalmAsks, StepNames DEF Body
  <2> QED BY <1>3, <1>11, <1>15, <2>1, StepNames, BodyBefore DEF A
<1> QED BY <1>4, <1>6, <1>10, <1>16, <1>17

LEMMA RuntimePrograms == \A p \in Plane!RuntimeHandlers : Program(p)
<1> DEFINE A == StepsOf("admin")
           C == Plane!Check
           m == Plane!Write("models")
           g == Plane!Write("groups")
           t == Plane!Write("targets")
           u == Plane!Uncache
           R == Plane!ReloadRuntime
           T == Plane!ReloadTargets
<1>1. A = Calm \cup Demanding /\ C \in Calm /\ t \in Calm /\ {m, g, u} \subseteq Demanding
      /\ {C, m, g, t, u} \subseteq A /\ u # C /\ m # C /\ g # C /\ t # C
  BY StepNames, CalmSteps DEF StepsOf, Refresh, Plane!Write, Plane!Check, Plane!Uncache
<1>2. Body(R) /\ {<<"publish", "model">>, LoadGroups, Build} \subseteq On(R)
  BY Reloads
<1>3. \A p : Body(p) => p \in Seq(A) /\ C \notin On(p) /\ On(p) \cap Single = {}
  BY DEF Body, A
<1>4. \A p : Body(p) /\ {LoadGroups, Build} \subseteq On(p) => Asks(u, On(p))
  BY <1>3, StepNames DEF Asks, Refresh
<1>5. \A p : Body(p) /\ <<"publish", "model">> \in On(p) => Asks(m, On(p)) /\ Asks(g, On(p))
  BY <1>3, StepNames DEF Asks, Refresh, Plane!Write
<1>6. \A p, x : Body(p) /\ x \in Calm => Asks(x, On(p))
  BY <1>3, CalmAsks
<1> HIDE DEF A, C, m, g, t, u, R, T
<1>7. \A p, x : Body(p) /\ x \in A /\ x # C /\ Asks(x, On(p)) => Body(Cons(x, p)) /\ On(Cons(x, p)) = {x} \cup On(p)
  BY BodyBefore DEF A, C
<1>8. \A p : Body(p) => Program(Cons(C, p))
  BY <1>1, <1>6, BodyBefore DEF A, C
<1>9. Body(Cons(u, R)) /\ On(Cons(u, R)) = {u} \cup On(R)
  BY <1>1, <1>2, <1>4, <1>7
<1>10. Body(Cons(m, R)) /\ Body(Cons(m, Cons(u, R))) /\ Body(Cons(g, Cons(u, R)))
  BY <1>1, <1>2, <1>5, <1>7, <1>9
<1>11. \A a \in A, b \in A, c \in A, r \in Seq(A) :
          Two(a, b, r) = Cons(a, Cons(b, r)) /\ Three(a, b, c, r) = Cons(a, Cons(b, Cons(c, r)))
  BY Unfolding
<1>12. Program(<<C>> \o (<<m, u>> \o R))
  <2>1. Two(m, u, R) = Cons(m, Cons(u, R))
    BY <1>1, <1>2, <1>3, <1>11 DEF A
  <2> QED BY <1>8, <1>10, <2>1 DEF Cons, Two
<1>13. Program(<<C, m>> \o R)
  <2>1. Two(C, m, R) = Cons(C, Cons(m, R))
    BY <1>1, <1>2, <1>3, <1>11 DEF A
  <2> QED BY <1>8, <1>10, <2>1 DEF Two
<1>14. Program(<<C, g, u>> \o R)
  <2>1. Three(C, g, u, R) = Cons(C, Cons(g, Cons(u, R)))
    BY <1>1, <1>2, <1>3, <1>11 DEF A
  <2> QED BY <1>8, <1>10, <2>1 DEF Three
<1>15. Program(<<C>> \o Plane!UpdateConfig)
  BY Reloads DEF Cons, C
<1>16. Program(<<C>>)
  <2>1. CalmProgram(<<C>>) /\ Calm \subseteq A
    BY <1>1, CalmPrograms DEF Plane!KeyHandlers, Plane!CreateKey, C
  <2> DEFINE c == <<C>>
  <2> HIDE DEF c
  <2>2. c \in Seq(Calm) /\ C \in On(c)
    BY <2>1 DEF CalmProgram, c, C
  <2>3. Ordered(c)
    BY ONLY <2>2, CalmOnly
  <2>4. c \in Seq(A)
    BY ONLY <2>1, <2>2
  <2> QED BY <2>2, <2>3, <2>4 DEF Program, A, C, c
<1>17. Program(((<<C, g, t>> \o T) \o <<u>>) \o R)
  <2>1. T \in Seq(Calm) /\ C \notin On(T)
    <3> DEFINE a == Plane!InvalidateLocal("targets")
               x == Plane!Notify("targets")
    <3>1. a \in Seq(Calm) /\ x \in Calm /\ C \notin On(a)
      BY CalmSteps, Checks DEF Plane!Views, C
    <3>4. x # C
      BY DEF C, Plane!Check, Plane!Notify
    <3> HIDE DEF a, x
    <3>2. <<x>> \in Seq(Calm) /\ C \notin On(<<x>>)
      BY <3>1, <3>4 DEF On
    <3>3. a \o <<x>> \in Seq(Calm) /\ On(a \o <<x>>) = On(a) \cup On(<<x>>)
      BY <3>1, <3>2, Joined
    <3> QED BY <3>1, <3>2, <3>3 DEF T, Plane!ReloadTargets, a, x
  <2> DEFINE l == <<u>> \o R
             n == T \o l
             h == <<C, g, t>>
             i == <<u>>
  <2>2. Body(l) /\ On(l) = {u} \cup On(R) /\ l \in Seq(A)
    BY <1>3, <1>9 DEF Cons
  <2>3. T \in Seq(A) /\ h \in Seq(A) /\ i \in Seq(A) /\ R \in Seq(A) /\ h \o T \in Seq(A)
    BY <1>1, <1>2, <1>3, <2>1
  <2> HIDE DEF l, h, i
  <2>4. n \in Seq(A) /\ Ordered(n) /\ On(n) = On(T) \cup On(l)
    BY <1>1, <2>1, <2>2, <1>3, CalmThen DEF Body
  <2>5. Body(n) /\ <<"publish", "model">> \in On(n)
    <3>1. On(T) \subseteq Calm
      BY <2>1, CalmOnly
    <3> QED BY <1>2, <1>3, <2>1, <2>2, <2>4, <3>1, StepNames DEF Body, C, A
  <2>6. ((h \o T) \o i) \o R = (h \o T) \o l
    BY <2>3, ConcatAssociative DEF l, i
  <2>7. (h \o T) \o l = h \o n
    <3>1. l \in Seq(A) /\ T \in Seq(A) /\ h \in Seq(A)
      BY <2>2, <2>3
    <3> QED BY ONLY <3>1, ConcatAssociative
  <2> HIDE DEF n
  <2>8. Body(Cons(t, n)) /\ On(Cons(t, n)) = {t} \cup On(n)
    BY <1>1, <1>6, <1>7, <2>5
  <2>9. Body(Cons(g, Cons(t, n)))
    BY <1>1, <1>5, <1>7, <2>5, <2>8
  <2>10. Three(C, g, t, n) = Cons(C, Cons(g, Cons(t, n)))
    BY <1>1, <1>11, <2>4
  <2> QED BY <1>8, <2>6, <2>7, <2>9, <2>10 DEF Three, h, i
<1> QED
  BY <1>12, <1>13, <1>14, <1>15, <1>16, <1>17, Zenon DEF Plane!RuntimeHandlers, C, m, g, t, u, R, T,
     Plane!DeploymentRow, Plane!CredentialRow, Plane!GroupRow, Plane!GroupMemberRow,
     Plane!TargetBindingRow, Plane!AddModel, Plane!ReplaceModel, Plane!RemoveModel,
     Plane!CreateModel, Plane!UpdateModel, Plane!DeleteModel, Plane!CreateNamedCredential,
     Plane!UpdateNamedCredential, Plane!DeleteNamedCredential, Plane!ConvertInlineGroup,
     Plane!CreateRouteGroup, Plane!UpdateRouteGroup, Plane!DeleteRouteGroup,
     Plane!UpsertRouteGroupMember, Plane!DeleteRouteGroupMember,
     Plane!PublishRouteGroupPolicy, Plane!PublishRouteGroupPolicyV2,
     Plane!RollbackRouteGroupPolicy, Plane!UpdateRouting, Plane!UpdateSettings,
     Plane!UpdateBatchSchedulerMode

KnownFamilies == Families \subseteq {"keys", "governance", "scope policies", "runtime"}

LEMMA AllPrograms ==
    ASSUME KnownFamilies
    PROVE  \A p \in Plane!Programs : Program(p)
<1>1. {Plane!UpsertScopePolicy, Plane!DeleteScopePolicy} \subseteq Plane!GovernanceHandlers
  BY DEF Plane!GovernanceHandlers
<1>2. \A p : CalmProgram(p) => Program(p)
  <2>1. Calm \subseteq StepsOf("admin")
    BY DEF StepsOf
  <2> QED BY <2>1, CalmOnly DEF CalmProgram, Program
<1> QED BY <1>1, <1>2, CalmPrograms, RuntimePrograms DEF Plane!Programs, KnownFamilies

-----------------------------------------------------------------------------
(* The invariant *)

Job ==
    [todo : Seq(Steps), snap : BOOLEAN, models : BOOLEAN, groups : BOOLEAN, config : BOOLEAN]

ListOK(t, p) == p \in Seq(StepsOf(t)) /\ Ordered(p)

Typed ==
    /\ models \in [Instances -> BOOLEAN] /\ config \in [Instances -> BOOLEAN]
    /\ registry \in [Instances -> [Plane!Sources -> BOOLEAN]]
    /\ groups1 \in [Instances -> Plane!Cell] /\ groups2 \in Plane!Cell
    /\ inbox \in [Instances -> SUBSET Plane!Views] /\ queued \in [Instances -> SUBSET Plane!Views]
    /\ events \in [Instances -> SUBSET Events]
    /\ missed \in [Instances -> SUBSET (Plane!Views \cup {"runtime"})]

Listed ==
    /\ task \in [Instances -> [Plane!Tasks -> Job]]
    /\ \A i \in Instances, t \in Plane!Tasks : ListOK(t, task[i][t].todo)

Take == <<"take", "queued">>
Waiting == \A i \in Instances : Take \in On(task[i]["flush"].todo) => queued[i] # {}

RuntimeInv == Typed /\ Listed /\ Waiting /\ \A i \in Instances : Covered(i)

\* Task t of i becomes r.
Turns(i, t, r) ==
    /\ r \in Job /\ task' \in [Instances -> [Plane!Tasks -> Job]]
    /\ task'[i][t] = r
    /\ \A j \in Instances, u \in Plane!Tasks : j # i \/ u # t => task'[j][u] = task[j][u]

LEMMA Turned ==
    ASSUME Listed, NEW i \in Instances, NEW t \in Plane!Tasks, NEW r \in Job,
           task' = [task EXCEPT ![i][t] = r]
    PROVE  Turns(i, t, r)
BY DEF Listed, Turns

\* A step s is taken: the rest X of what was certain, W.
Passing(s, W, X) == \/ s \in Calm /\ W = {} /\ X = {}
                    \/ W = {s} \cup X /\ Asks(s, X)

SameReads(q, r) == q.models = r.models /\ q.groups = r.groups /\ q.config = r.config

LEMMA Starting ==
    ASSUME Listed, NEW i \in Instances, NEW t \in Plane!Tasks
    PROVE  /\ task[i][t] \in Job /\ task[i][t].todo \in Seq(StepsOf(t)) /\ Ordered(task[i][t].todo)
           /\ \A op : Plane!At(i, t, op) => /\ task[i][t].todo # <<>> /\ task[i][t].todo[1][1] = op
                                            /\ task[i][t].todo[1] \in StepsOf(t)
                                            /\ Plane!What(i, t) = task[i][t].todo[1][2]
<1> DEFINE p == task[i][t].todo
<1>1. task[i][t] \in Job /\ p \in Seq(StepsOf(t)) /\ Ordered(p)
  BY DEF Listed, ListOK
<1>2. p # <<>> => Head(p) = p[1] /\ p[1] \in StepsOf(t)
  BY <1>1, Beginning
<1> QED BY <1>1, <1>2 DEF Plane!At, Plane!What

\* The tasks that take a step of a kind, and which step it is.
LEMMA Kinds ==
    ASSUME NEW t \in Plane!Tasks, NEW s \in StepsOf(t)
    PROVE  /\ s[1] = "models" => s = LoadModels /\ t \in Workers
           /\ s[1] = "groups" => s = LoadGroups /\ t \in Workers
           /\ s[1] = "query" => s = QueryGroups /\ t \in Workers
           /\ s[1] = "store" => s = StoreGroups /\ t \in Workers
           /\ s[1] = "build" => s = Build /\ t \in Workers
           /\ s[1] = "uncache" => s = Plane!Uncache /\ t \in Workers
           /\ s[1] = "tune" => s = Plane!Tune /\ t \in Workers
           /\ s[1] = "follow" => s = <<"follow", "targets">> /\ t = "admin"
           /\ s[1] = "check" => s = Plane!Check /\ t = "admin"
           /\ s[1] = "take" => s = Take /\ t = "flush"
           /\ s[1] = "get" => s \in {GetOwn, <<"get", "config">>} /\ t = "admin"
           /\ s[1] = "publish" => s \in {<<"publish", e>> : e \in Events} /\ t = "admin"
           /\ s[1] = "load" => s \in {<<"load", e>> : e \in Events} /\ t \in Background
           /\ s[1] = "apply" => s \in {<<"apply", e>> : e \in Events} /\ t \in Background
           /\ s[1] = "install" => s \in {<<"install", v>> : v \in Plane!Views}
           /\ s[1] = "notify" => s[2] \in Plane!Views
           /\ s[1] = "write" => t = "admin" /\ s \in {<<"write", x>> : x \in
                  {"key", "owner", "gone", "targets", "mcp", "models", "groups", "settings"}}
           /\ s[1] = "edit" => t = "admin" /\ s \in {<<"edit", x>> : x \in {"owner", "mcp"}}
<1>1. CASE t = "admin"
  BY <1>1 DEF StepsOf, Calm, Demanding, Refresh, Reloading, LoadModels, LoadGroups, QueryGroups,
     StoreGroups, Build, GetOwn, Take, Plane!Uncache, Plane!Check, Plane!Drop, Plane!DropLogged,
     Plane!Tune, Workers, Background, Events, Plane!Views
<1>2. CASE t = "flush"
  BY <1>2 DEF StepsOf, Reloading, Take, Plane!Views
<1>3. CASE t \in Background
  BY <1>3 DEF StepsOf, Single, Refresh, Reloading, LoadModels, LoadGroups, QueryGroups,
     StoreGroups, Build, Take, Plane!Uncache, Plane!Tune, Workers, Background, Events, Plane!Views
<1> QED BY <1>1, <1>2, <1>3 DEF Plane!Tasks, Background

LEMMA Rest ==
    ASSUME NEW t \in Plane!Tasks, NEW q \in Job, ListOK(t, q.todo), q.todo # <<>>,
           NEW r \in Job, r.todo = Tail(q.todo), q.todo[1] # Plane!Check
    PROVE  ListOK(t, r.todo) /\ Passing(q.todo[1], Will(q), Will(r)) /\ On(r.todo) \subseteq On(q.todo)
<1> DEFINE p == q.todo
           s == p[1]
<1>1. p \in Seq(StepsOf(t)) /\ Ordered(p) /\ p # <<>>
  BY DEF ListOK
<1>2. Tail(p) \in Seq(StepsOf(t)) /\ s \in StepsOf(t)
  BY <1>1, Beginning
<1>3. On(p) = {s} \cup On(Tail(p)) /\ Ordered(Tail(p)) /\ Asks(s, On(Tail(p)))
  BY <1>1, Shortened
<1>4. Plane!Check \in On(Tail(p)) => s \in Calm
  <2>1. (s \notin Demanding /\ s \notin Single) \/ Plane!Check \notin On(Tail(p))
    BY <1>3 DEF Asks
  <2>2. Plane!Check \in On(Tail(p)) => t = "admin"
    <3>1. Plane!Check \in On(Tail(p)) => Plane!Check \in StepsOf(t)
      BY <1>2 DEF On
    <3> QED BY <3>1, Kinds DEF Plane!Check
  <2> QED BY <1>2, <2>1, <2>2 DEF StepsOf
<1> QED BY <1>2, <1>3, <1>4 DEF ListOK, Passing, Will

LEMMA Continued ==
    ASSUME NEW q \in Job, q.todo # <<>>
    PROVE  /\ Plane!Continue(q) \in Job
           /\ Plane!Continue(q).todo = Tail(q.todo)
           /\ Tail(q.todo) = <<>> \/ SameReads(q, Plane!Continue(q))
<1>0. q.todo \in Seq(Steps)
  BY DEF Job
<1>2. Tail(q.todo) \in Seq(Steps) /\ Len(q.todo) \in Nat /\ Len(Tail(q.todo)) = Len(q.todo) - 1
  BY <1>0, Beginning
<1>3. Tail(q.todo) # <<>> => Len(Tail(q.todo)) \in Nat \ {0}
  BY <1>2, EmptySeq
<1>1. Tail(q.todo) \in Seq(Steps) /\ (Len(q.todo) = 1 => Tail(q.todo) = <<>>)
  BY <1>2, <1>3
<1> QED BY <1>1 DEF Job, Plane!Continue, Plane!IdleTask, SameReads

\* The task takes its next step and goes on.
LEMMA GoesOn ==
    ASSUME Listed, NEW i \in Instances, NEW t \in Plane!Tasks, NEW op, Plane!At(i, t, op), op # "check"
    PROVE  LET q == task[i][t]
               r == Plane!Continue(q)
               s == q.todo[1] IN
           /\ q \in Job /\ r \in Job /\ ListOK(t, r.todo) /\ r.todo = Tail(q.todo)
           /\ Passing(s, Will(q), Will(r)) /\ On(r.todo) \subseteq On(q.todo)
           /\ Will(r) = {} \/ SameReads(q, r)
           /\ s[1] = op /\ s \in StepsOf(t) /\ s[2] = Plane!What(i, t)
<1> DEFINE q == task[i][t]
           r == Plane!Continue(q)
           s == q.todo[1]
<1>1. /\ q \in Job /\ q.todo # <<>> /\ ListOK(t, q.todo) /\ s[1] = op /\ s \in StepsOf(t)
      /\ s[2] = Plane!What(i, t)
  BY Starting DEF ListOK
<1>2. s # Plane!Check
  BY <1>1 DEF Plane!Check
<1> HIDE DEF q
<1>3. r \in Job /\ r.todo = Tail(q.todo) /\ (Tail(q.todo) = <<>> \/ SameReads(q, r))
  BY <1>1, Continued
<1> HIDE DEF r
<1>4. ListOK(t, r.todo) /\ Passing(s, Will(q), Will(r)) /\ On(r.todo) \subseteq On(q.todo)
  BY <1>1, <1>2, <1>3, Rest
<1>5. r.todo = <<>> => Will(r) = {}
  BY Nothing DEF Will
<1> QED BY <1>1, <1>3, <1>4, <1>5 DEF q, r

-----------------------------------------------------------------------------
(* Steps that nothing depends on *)

\* The steps that refresh something or announce it, and the one that makes a
\* reload go by other settings.
Promising ==
    {<<"publish", "model">>, <<"publish", "config">>, LoadModels, LoadGroups, QueryGroups, Build,
     Plane!Uncache, Plane!Tune} \cup Single
Vital == Promising \cup {<<"get", "config">>}

Carries(q, r) == \/ Will(q) \cap Promising = {}
                 \/ Will(r) \cap Vital = Will(q) \cap Vital /\ SameReads(q, r)

LEMMA Carried ==
    ASSUME NEW q, NEW r, Carries(q, r), NEW b \in BOOLEAN, NEW c \in BOOLEAN, b => c
    PROVE  /\ \A e \in Events : Publishes(q, e) => Publishes(r, e)
           /\ BringsModels(q, b) => BringsModels(r, c)
           /\ BringsGroups(q, b) => BringsGroups(r, c)
           /\ BringsConfig(q) => BringsConfig(r)
           /\ BringsSettings(q) => BringsSettings(r)
           /\ Tunes(q) => Tunes(r)
<1> DEFINE W == Will(q)
           X == Will(r)
<1>1. /\ Promising \subseteq Vital /\ <<"get", "config">> \in Vital
      /\ \A e \in Events : {<<"publish", e>>, <<"load", e>>, <<"apply", e>>} \subseteq Promising
      /\ {<<"load", "model">>, <<"apply", "model">>, LoadModels, LoadGroups, QueryGroups, Build,
          Plane!Uncache, Plane!Tune} \subseteq Promising
  BY DEF Vital, Promising, Single, Events
<1>2. W \cap Promising = {} \/ (X \cap Vital = W \cap Vital /\ SameReads(q, r))
  BY DEF Carries
<1> HIDE DEF W, X
<1>3. CASE W \cap Promising = {}
  BY <1>1, <1>3 DEF Publishes, BringsModels, BringsGroups, BringsConfig, BringsSettings, Tunes, W
<1>4. CASE X \cap Vital = W \cap Vital /\ SameReads(q, r)
  <2>1. \A x \in Vital : x \in W <=> x \in X
    BY <1>4
  <2>2. q.models = r.models /\ q.groups = r.groups /\ q.config = r.config
    BY <1>4 DEF SameReads
  <2>3. \A e \in Events : Publishes(q, e) => Publishes(r, e)
    BY <1>1, <2>1 DEF Publishes, W, X
  <2>4. BringsModels(q, b) => BringsModels(r, c)
    BY <1>1, <2>1, <2>2 DEF BringsModels, W, X
  <2>5. BringsGroups(q, b) => BringsGroups(r, c)
    BY <1>1, <2>1, <2>2 DEF BringsGroups, W, X
  <2>6. BringsConfig(q) => BringsConfig(r)
    BY <1>1, <2>1, <2>2 DEF BringsConfig, W, X
  <2>7. BringsSettings(q) => BringsSettings(r)
    BY <1>1, <2>1, <2>2 DEF BringsSettings, W, X
  <2>8. Tunes(q) => Tunes(r)
    BY <1>1, <2>1 DEF Tunes, W, X
  <2> QED BY <2>3, <2>4, <2>5, <2>6, <2>7, <2>8
<1> QED BY <1>2, <1>3, <1>4

\* What an instance serves from is no worse, and what was on its way still is.
Same(j) ==
    /\ registry'[j] = registry[j] /\ models'[j] \in BOOLEAN /\ (models[j] => models'[j])
    /\ config'[j] = config[j]
    /\ events[j] \subseteq events'[j]
    /\ Usable(j) => Usable(j)'
    /\ "runtime" \in missed[j] => "runtime" \in missed'[j]
Told == \A e \in Events : Announced(e) => Announced(e)'

LEMMA StillCovered ==
    ASSUME NEW j \in Instances, Typed, Covered(j), Same(j), Told,
           \A t \in Plane!Tasks : Carries(task[j][t], task'[j][t])
    PROVE  Covered(j)'
<1> DEFINE q(t) == task[j][t]
           r(t) == task'[j][t]
<1>1. /\ models[j] \in BOOLEAN /\ Usable(j) \in BOOLEAN /\ Usable(j)' \in BOOLEAN
      /\ Workers \subseteq Plane!Tasks /\ Background \subseteq Plane!Tasks
      /\ "model" \in Events /\ "config" \in Events
  BY DEF Typed, Usable, Workers, Background, Plane!Tasks, Events
<1>2. \A t \in Plane!Tasks :
        /\ BringsModels(q(t), models[j]) => BringsModels(r(t), models'[j])
        /\ BringsGroups(q(t), Usable(j)) => BringsGroups(r(t), Usable(j)')
        /\ BringsConfig(q(t)) => BringsConfig(r(t))
        /\ BringsSettings(q(t)) => BringsSettings(r(t))
        /\ Tunes(q(t)) => Tunes(r(t))
  BY <1>1, Carried DEF Same
<1>3. ModelsComing(j) => ModelsComing(j)'
  BY <1>1, <1>2 DEF ModelsComing, Same, Told
<1>4. GroupsComing(j) => GroupsComing(j)'
  BY <1>1, <1>2 DEF GroupsComing, Same, Told
<1>5. ConfigComing(j) => ConfigComing(j)'
  BY <1>1, <1>2 DEF ConfigComing, Same, Told
<1>6. SettingsComing(j) => SettingsComing(j)'
  BY <1>1, <1>2, <1>5 DEF SettingsComing
<1>7. SchedulerComing(j) => SchedulerComing(j)'
  BY <1>1, <1>2, <1>5 DEF SchedulerComing, Same
<1> QED BY <1>3, <1>4, <1>6, <1>7 DEF Covered, Same

LEMMA StillTold ==
    ASSUME \A j \in Instances : Carries(task[j]["admin"], task'[j]["admin"])
    PROVE  Told
BY Carried DEF Told, Announced

LEMMA Unmoved == \A q : Carries(q, q)
BY DEF Carries, SameReads

\* A step that is not vital, or what comes before the check.
LEMMA Unpromising ==
    ASSUME NEW s, NEW q, NEW r, Passing(s, Will(q), Will(r)), s \notin Vital,
           Will(r) = {} \/ SameReads(q, r)
    PROVE  Carries(q, r)
<1>1. Will(r) \cap Vital = Will(q) \cap Vital /\ Promising \subseteq Vital
  BY DEF Passing, Vital
<1> QED BY <1>1 DEF Carries

\* The shape of the lists after a step of task t of i.
LEMMA StillListed ==
    ASSUME Listed, Waiting, NEW i \in Instances, NEW t \in Plane!Tasks, NEW r, Turns(i, t, r), ListOK(t, r.todo)
    PROVE  /\ Listed'
           /\ queued' = queued /\ (t # "flush" \/ On(r.todo) \subseteq On(task[i][t].todo)) => Waiting'
<1>1. Listed'
  BY DEF Listed, Turns
<1>2. ASSUME queued' = queued, t # "flush" \/ On(r.todo) \subseteq On(task[i][t].todo), NEW j \in Instances,
             Take \in On(task'[j]["flush"].todo)
      PROVE  queued'[j] # {}
  <2>1. "flush" \in Plane!Tasks
    BY DEF Plane!Tasks
  <2>2. Take \in On(task[j]["flush"].todo)
    BY <1>2, <2>1 DEF Turns
  <2> QED BY <1>2, <2>2 DEF Waiting
<1> QED BY <1>1, <1>2 DEF Waiting

\* A step of a task that changes nothing the runtime depends on.
LEMMA QuietTurn ==
    ASSUME RuntimeInv, NEW i \in Instances, NEW t \in Plane!Tasks, NEW r, Turns(i, t, r),
           ListOK(t, r.todo), Carries(task[i][t], r), \A j \in Instances : Same(j)
    PROVE  Listed' /\ \A j \in Instances : Covered(j)'
<1>1. \A j \in Instances, u \in Plane!Tasks : Carries(task[j][u], task'[j][u])
  BY Unmoved DEF Turns
<1>2. Told
  BY <1>1, StillTold DEF Plane!Tasks
<1> QED BY <1>1, <1>2, StillCovered, StillListed DEF RuntimeInv

LEMMA QuietState ==
    ASSUME RuntimeInv, task' = task, \A j \in Instances : Same(j)
    PROVE  Listed' /\ \A j \in Instances : Covered(j)'
<1>1. \A j \in Instances, u \in Plane!Tasks : Carries(task[j][u], task'[j][u])
  BY Unmoved
<1>2. Told
  BY <1>1, StillTold DEF Plane!Tasks
<1> QED BY <1>1, <1>2, StillCovered DEF RuntimeInv, Listed

\* The copies of the runtime are left alone.
Steady ==
    /\ models' = models /\ config' = config /\ registry' = registry
    /\ groups1' = groups1 /\ groups2' = groups2 /\ events' = events /\ queued' = queued
    /\ inbox' \in [Instances -> SUBSET Plane!Views]
    /\ missed' \in [Instances -> SUBSET (Plane!Views \cup {"runtime"})]
    /\ \A j \in Instances : "runtime" \in missed[j] => "runtime" \in missed'[j]

LEMMA SteadySame ==
    ASSUME Typed, Steady
    PROVE  Typed' /\ \A j \in Instances : Same(j)
BY DEF Typed, Steady, Same, Usable

LEMMA SteadyTurn ==
    ASSUME RuntimeInv, Steady, NEW i \in Instances, NEW t \in Plane!Tasks, NEW r, Turns(i, t, r),
           ListOK(t, r.todo), Carries(task[i][t], r), t # "flush" \/ On(r.todo) \subseteq On(task[i][t].todo)
    PROVE  RuntimeInv'
<1>1. Typed' /\ \A j \in Instances : Same(j)
  BY SteadySame DEF RuntimeInv
<1>2. Listed' /\ \A j \in Instances : Covered(j)'
  BY <1>1, QuietTurn
<1>3. Waiting'
  BY StillListed DEF RuntimeInv, Steady
<1> QED BY <1>1, <1>2, <1>3 DEF RuntimeInv

LEMMA SteadyState ==
    ASSUME RuntimeInv, Steady, task' = task
    PROVE  RuntimeInv'
<1>1. Typed' /\ \A j \in Instances : Same(j)
  BY SteadySame DEF RuntimeInv
<1>2. Listed' /\ \A j \in Instances : Covered(j)'
  BY <1>1, QuietState
<1>3. Waiting'
  BY DEF RuntimeInv, Steady, Waiting
<1> QED BY <1>1, <1>2, <1>3 DEF RuntimeInv

VitalOps ==
    {"publish", "models", "groups", "query", "build", "uncache", "tune", "load", "apply", "get"}

LEMMA NotVital ==
    ASSUME NEW s, s[1] \notin VitalOps
    PROVE  s \notin Vital
BY DEF VitalOps, Vital, Promising, Single, Events, LoadModels, LoadGroups, QueryGroups, Build,
   Plane!Uncache, Plane!Tune

\* A step of a kind that is not vital.
LEMMA SteadyDone ==
    ASSUME RuntimeInv, Steady, NEW i \in Instances, NEW t \in Plane!Tasks, NEW op, Plane!At(i, t, op),
           op \notin VitalOps, op # "check", NEW r \in Job, task' = [task EXCEPT ![i][t] = r],
           r.todo = Tail(task[i][t].todo), r.todo = <<>> \/ SameReads(task[i][t], r)
    PROVE  RuntimeInv'
<1> DEFINE q == task[i][t]
           c == Plane!Continue(q)
           s == q.todo[1]
<1>1. /\ ListOK(t, c.todo) /\ Passing(s, Will(q), Will(c)) /\ On(c.todo) \subseteq On(q.todo)
      /\ s[1] = op /\ c.todo = r.todo
  BY GoesOn DEF RuntimeInv
<1>2. Will(c) = Will(r)
  BY <1>1 DEF Will
<1>3. s \notin Vital
  BY <1>1, NotVital
<1>6. r.todo = <<>> => Will(r) = {}
  BY Nothing DEF Will
<1>4. Carries(q, r)
  BY <1>1, <1>2, <1>3, <1>6, Unpromising
<1>5. Turns(i, t, r)
  BY Turned DEF RuntimeInv
<1> HIDE DEF q, c, s
<1> QED BY <1>1, <1>4, <1>5, SteadyTurn DEF q

LEMMA DoneKeeps ==
    ASSUME RuntimeInv, Steady, NEW i \in Instances, NEW t \in Plane!Tasks, NEW op, Plane!At(i, t, op),
           op \notin VitalOps, op # "check", Plane!Done(i, t)
    PROVE  RuntimeInv'
<1> DEFINE r == Plane!Continue(task[i][t])
<1>1. r \in Job /\ r.todo = Tail(task[i][t].todo) /\ (r.todo = <<>> \/ SameReads(task[i][t], r))
  BY Starting, Continued DEF RuntimeInv
<1>2. task' = [task EXCEPT ![i][t] = r]
  BY DEF Plane!Done
<1> HIDE DEF r
<1> QED BY <1>1, <1>2, SteadyDone

\* A list that is new, of a task that was idle or before its check.
LEMMA NewList ==
    ASSUME RuntimeInv, Steady, NEW i \in Instances, NEW t \in Plane!Tasks, NEW r \in Job,
           task' = [task EXCEPT ![i][t] = r], ListOK(t, r.todo), Will(task[i][t]) = {}, t # "flush"
    PROVE  RuntimeInv'
<1>1. Carries(task[i][t], r)
  BY DEF Carries
<1>2. Turns(i, t, r)
  BY Turned DEF RuntimeInv
<1> QED BY <1>1, <1>2, SteadyTurn

LEMMA IdleNew == /\ Plane!IdleTask \in Job /\ Plane!IdleTask.todo = <<>> /\ Will(Plane!IdleTask) = {}
                 /\ \A t : ListOK(t, <<>>)
<1>1. \A t : ListOK(t, <<>>)
  BY Nothing DEF ListOK
<1>2. Plane!IdleTask \in Job /\ Plane!IdleTask.todo = <<>>
  BY DEF Job, Plane!IdleTask
<1> QED BY <1>1, <1>2, Nothing DEF Will

LEMMA IdleWill ==
    ASSUME NEW i \in Instances, NEW t \in Plane!Tasks, Plane!Idle(i, t)
    PROVE  Will(task[i][t]) = {}
BY Nothing DEF Will, Plane!Idle

LEMMA NewTodo ==
    ASSUME Listed, NEW i \in Instances, NEW t \in Plane!Tasks, NEW p, ListOK(t, p),
           task' = [task EXCEPT ![i][t].todo = p]
    PROVE  \E r \in Job : task' = [task EXCEPT ![i][t] = r] /\ r.todo = p /\ SameReads(task[i][t], r)
<1> DEFINE q == task[i][t]
           r == [q EXCEPT !.todo = p]
<1>1. q \in Job
  BY DEF Listed
<1>2. task' = [task EXCEPT ![i][t] = r]
  OBVIOUS
<1>3. p \in Seq(Steps)
  <2>1. StepsOf(t) \subseteq Steps /\ p \in Seq(StepsOf(t))
    BY DEF Steps, ListOK
  <2> QED BY <2>1
<1> HIDE DEF q
<1>4. r \in Job /\ r.todo = p /\ SameReads(q, r)
  BY <1>1, <1>3 DEF Job, SameReads
<1> HIDE DEF r
<1> QED BY <1>2, <1>4 DEF q

LEMMA StartHandlerKeeps ==
    ASSUME KnownFamilies, RuntimeInv, NEW i \in Instances, Plane!StartHandler(i)
    PROVE  RuntimeInv'
<1>0. PICK program \in Plane!Programs : task' = [task EXCEPT ![i]["admin"].todo = program]
  BY DEF Plane!StartHandler
<1>1. Program(program) /\ "admin" \in Plane!Tasks
  BY AllPrograms DEF Plane!Tasks
<1>2. Plane!Idle(i, "admin") /\ task' = [task EXCEPT ![i]["admin"].todo = program]
  BY <1>0 DEF Plane!StartHandler
<1>3. ListOK("admin", program)
  BY <1>1 DEF Program, ListOK
<1>7. Listed
  BY DEF RuntimeInv
<1>4. PICK r \in Job : /\ task' = [task EXCEPT ![i]["admin"] = r] /\ r.todo = program
                       /\ SameReads(task[i]["admin"], r)
  BY ONLY <1>1, <1>2, <1>3, <1>7, i \in Instances, NewTodo
<1>5. Steady
  BY DEF Plane!StartHandler, RuntimeInv, Typed, Steady, Plane!authVars, Plane!runtimeVars, Plane!channelVars
<1>6. Will(task[i]["admin"]) = {}
  BY <1>1, <1>2, IdleWill
<1> QED BY <1>1, <1>3, <1>4, <1>5, <1>6, NewList

LEMMA CheckWill ==
    ASSUME Listed, NEW i \in Instances, Plane!At(i, "admin", "check")
    PROVE  LET q == task[i]["admin"] IN
           /\ q \in Job /\ q.todo # <<>> /\ Will(q) = {}
           /\ Plane!Continue(q) \in Job /\ ListOK("admin", Plane!Continue(q).todo)
<1> DEFINE q == task[i]["admin"]
           p == q.todo
<1>1. "admin" \in Plane!Tasks
  BY DEF Plane!Tasks
<1>2. q \in Job /\ p \in Seq(StepsOf("admin")) /\ Ordered(p) /\ p # <<>> /\ p[1] = Plane!Check
  BY <1>1, Starting, Kinds
<1>3. On(p) = {p[1]} \cup On(Tail(p)) /\ Ordered(Tail(p)) /\ Tail(p) \in Seq(StepsOf("admin"))
  BY <1>2, Shortened, Beginning
<1>4. Will(q) = {}
  BY <1>2, <1>3 DEF Will
<1>5. Plane!Continue(q) \in Job /\ Plane!Continue(q).todo = Tail(p)
  BY <1>2, Continued
<1> QED BY <1>2, <1>3, <1>4, <1>5 DEF ListOK

LEMMA AcceptsKeeps ==
    ASSUME RuntimeInv, NEW i \in Instances, Plane!Accepts(i) \/ Plane!Rejects(i)
    PROVE  RuntimeInv'
<1>1. Plane!At(i, "admin", "check") /\ Listed /\ "admin" \in Plane!Tasks
  BY DEF Plane!Accepts, Plane!Rejects, RuntimeInv, Plane!Tasks
<1>2. Steady
  BY DEF Plane!Accepts, Plane!Rejects, RuntimeInv, Typed, Steady, Plane!authVars,
     Plane!runtimeVars, Plane!channelVars
<1>3. PICK r \in Job : task' = [task EXCEPT ![i]["admin"] = r] /\ ListOK("admin", r.todo)
  BY <1>1, CheckWill, IdleNew DEF Plane!Accepts, Plane!Rejects, Plane!Done
<1> QED BY <1>1, <1>2, <1>3, CheckWill, NewList

LEMMA DropRecordsKeeps ==
    ASSUME RuntimeInv, NEW i \in Instances, Plane!DropRecords(i)
    PROVE  RuntimeInv'
<1>1. Plane!At(i, "admin", "drop") /\ Plane!Done(i, "admin") /\ "admin" \in Plane!Tasks
  BY DEF Plane!DropRecords, Plane!Tasks
<1>2. Steady
  BY DEF Plane!DropRecords, RuntimeInv, Typed, Steady, Plane!runtimeVars, Plane!channelVars
<1> QED BY <1>1, <1>2, DoneKeeps DEF VitalOps

LEMMA TakeLockKeeps ==
    ASSUME RuntimeInv, NEW i \in Instances, NEW t \in Plane!Tasks, Plane!TakeLock(i, t)
    PROVE  RuntimeInv'
<1>1. Plane!At(i, t, "lock") /\ Plane!Done(i, t)
  BY DEF Plane!TakeLock
<1>2. Steady
  BY DEF Plane!TakeLock, RuntimeInv, Typed, Steady, Plane!runtimeVars, Plane!channelVars
<1> QED BY <1>1, <1>2, DoneKeeps DEF VitalOps

LEMMA ReadTablesKeeps ==
    ASSUME RuntimeInv, NEW i \in Instances, NEW t \in Plane!Tasks, Plane!ReadTables(i, t)
    PROVE  RuntimeInv'
<1> DEFINE q == task[i][t]
           c == Plane!Continue(q)
           r == [c EXCEPT !.snap = TRUE]
<1>1. Plane!At(i, t, "read") /\ task' = [task EXCEPT ![i][t] = r]
  BY DEF Plane!ReadTables
<1>2. Steady
  BY DEF Plane!ReadTables, RuntimeInv, Typed, Steady, Plane!runtimeVars, Plane!channelVars
<1>3. q \in Job /\ q.todo # <<>>
  BY <1>1, Starting DEF RuntimeInv
<1>4. c \in Job /\ c.todo = Tail(q.todo) /\ (c.todo = <<>> \/ SameReads(q, c))
  BY <1>3, Continued
<1> HIDE DEF c, q
<1>5. r \in Job /\ r.todo = Tail(q.todo) /\ (r.todo = <<>> \/ SameReads(q, r))
  BY <1>4 DEF Job, SameReads
<1> HIDE DEF r
<1> QED BY <1>1, <1>2, <1>5, SteadyDone DEF VitalOps, q

LEMMA InstallSnapshotKeeps ==
    ASSUME RuntimeInv, NEW i \in Instances, NEW t \in Plane!Tasks, Plane!InstallSnapshot(i, t)
    PROVE  RuntimeInv'
<1> DEFINE q == task[i][t]
           d == [q EXCEPT !.snap = FALSE]
           r == Plane!Continue(d)
           v == Plane!What(i, t)
<1>1. Plane!At(i, t, "install") /\ task' = [task EXCEPT ![i][t] = r]
  BY DEF Plane!InstallSnapshot
<1>2. v \in Plane!Views /\ v # "runtime"
  <2>1. q.todo[1][1] = "install" /\ q.todo[1] \in StepsOf(t) /\ v = q.todo[1][2]
    BY <1>1, Starting DEF RuntimeInv
  <2>2. q.todo[1] \in {<<"install", w>> : w \in Plane!Views}
    BY <2>1, Kinds
  <2> QED BY <2>1, <2>2 DEF Plane!Views
<1>3. missed' = [missed EXCEPT ![i] = IF q.snap THEN @ \ {v} ELSE @]
  BY DEF Plane!InstallSnapshot
<1>4. Steady
  <2> HIDE DEF v
  <2> QED BY <1>2, <1>3 DEF Plane!InstallSnapshot, RuntimeInv, Typed, Steady, Plane!runtimeVars,
             Plane!channelVars
<1>5. q \in Job /\ q.todo # <<>>
  BY <1>1, Starting DEF RuntimeInv
<1> HIDE DEF q
<1>6. d \in Job /\ d.todo = q.todo /\ SameReads(q, d)
  BY <1>5 DEF Job, SameReads
<1> HIDE DEF d
<1>7. r \in Job /\ r.todo = Tail(q.todo) /\ (r.todo = <<>> \/ SameReads(q, r))
  BY <1>5, <1>6, Continued DEF SameReads
<1> HIDE DEF r
<1> QED BY <1>1, <1>4, <1>7, SteadyDone DEF VitalOps, q

LEMMA NotifyKeeps ==
    ASSUME RuntimeInv, NEW i \in Instances, NEW t \in Plane!Tasks,
           Plane!NotifyOthers(i, t) \/ Plane!NotifyFails(i, t)
    PROVE  RuntimeInv'
<1> DEFINE v == Plane!What(i, t)
<1>1. Plane!At(i, t, "notify") /\ Plane!Done(i, t)
  BY DEF Plane!NotifyOthers, Plane!NotifyFails
<1>2. v \in Plane!Views
  <2>1. task[i][t].todo[1][1] = "notify" /\ task[i][t].todo[1] \in StepsOf(t) /\ v = task[i][t].todo[1][2]
    BY <1>1, Starting DEF RuntimeInv
  <2> QED BY <2>1, Kinds
<1>3. Steady
  <2>1. CASE Plane!NotifyOthers(i, t)
    <3>1. /\ inbox' = [j \in Instances |->
                   IF j \in Plane!Told(i) /\ listening[j] THEN inbox[j] \cup {v} ELSE inbox[j]]
          /\ missed' = [j \in Instances |->
                    IF j # i /\ ~listening[j] THEN missed[j] \cup {v} ELSE missed[j]]
      BY <2>1 DEF Plane!NotifyOthers
    <3> HIDE DEF v
    <3> QED BY <1>2, <2>1, <3>1 DEF Plane!NotifyOthers, RuntimeInv, Typed, Steady, Plane!runtimeVars,
               Plane!channelVars
  <2>2. CASE Plane!NotifyFails(i, t)
    <3>1. missed' = [j \in Instances |-> IF j # i THEN missed[j] \cup {v} ELSE missed[j]]
      BY <2>2 DEF Plane!NotifyFails
    <3> HIDE DEF v
    <3> QED BY <1>2, <2>2, <3>1 DEF Plane!NotifyFails, RuntimeInv, Typed, Steady, Plane!runtimeVars,
               Plane!channelVars
  <2> QED BY <2>1, <2>2
<1> QED BY <1>1, <1>3, DoneKeeps DEF VitalOps

LEMMA ReceiveKeeps ==
    ASSUME RuntimeInv, NEW i \in Instances, NEW v \in Plane!Views, Plane!ReceiveInvalidation(i, v)
    PROVE  RuntimeInv'
<1> DEFINE q == task[i]["flush"]
           p == <<Take>>
<1>0. "flush" \in Plane!Tasks /\ Typed /\ Listed /\ Waiting
  BY DEF Plane!Tasks, RuntimeInv
<1>1. Typed' /\ \A j \in Instances : Same(j)
  BY <1>0 DEF Plane!ReceiveInvalidation, Typed, Same, Usable, Plane!runtimeVars
<1>2. \A j \in Instances : queued[j] # {} => queued'[j] # {}
  BY <1>0 DEF Plane!ReceiveInvalidation, Typed
<1>6. queued'[i] # {}
  BY <1>0 DEF Plane!ReceiveInvalidation, Typed
<1>3. CASE task' = task
  BY <1>0, <1>1, <1>2, <1>3, QuietState DEF RuntimeInv, Waiting
<1>4. CASE Plane!Idle(i, "flush") /\ task' = [task EXCEPT ![i]["flush"].todo = p]
  <2>1. ListOK("flush", p)
    <3>1. p \in Seq(StepsOf("flush"))
      BY DEF StepsOf, Take
    <3>2. Len(p) = 1 /\ p[1] = Take /\ Take \notin Demanding \cup Single
      BY DEF Take, Demanding, Refresh, Single, GetOwn, LoadModels, LoadGroups, QueryGroups, StoreGroups,
         Build, Plane!Uncache
    <3>3. Later(p, 1) = {}
      BY <3>2 DEF Later
    <3>4. Asks(Take, {})
      BY <3>2 DEF Asks, Demanding, Refresh
    <3> QED BY <3>1, <3>2, <3>3, <3>4 DEF ListOK, Ordered
  <2> HIDE DEF p
  <2>2. PICK r \in Job : /\ task' = [task EXCEPT ![i]["flush"] = r] /\ r.todo = p
                         /\ SameReads(task[i]["flush"], r)
    BY ONLY <1>0, <1>4, <2>1, i \in Instances, NewTodo
  <2>3. Turns(i, "flush", r)
    BY ONLY <1>0, <2>2, i \in Instances, Turned
  <2>4. Carries(q, r)
    BY <1>0, <1>4, IdleWill DEF Carries
  <2>5. Listed' /\ \A j \in Instances : Covered(j)'
    BY <1>0, <1>1, <2>1, <2>2, <2>3, <2>4, QuietTurn
  <2>6. Waiting'
    BY <1>0, <1>2, <1>6, <2>3 DEF Waiting, Turns
  <2> QED BY <1>1, <2>5, <2>6 DEF RuntimeInv
<1> QED BY <1>3, <1>4 DEF Plane!ReceiveInvalidation, Take

LEMMA FlushKeeps ==
    ASSUME RuntimeInv, NEW i \in Instances, Plane!FlushRemoteTargets(i)
    PROVE  RuntimeInv'
<1> DEFINE q == task[i]["flush"]
           a == Plane!InvalidateLocal("targets")
           b == Plane!InvalidateLocal("mcp")
           F == Reloading({"lock", "read", "install"})
<1>0. "flush" \in Plane!Tasks /\ Typed /\ Listed /\ Waiting
  BY DEF Plane!Tasks, RuntimeInv
<1>1. Typed' /\ \A j \in Instances : Same(j)
  BY <1>0 DEF Plane!FlushRemoteTargets, Typed, Same, Usable, Plane!runtimeVars
<1>2. queued[i] # {} /\ q.todo # <<>> /\ q.todo[1] = Take
  <2>1. Plane!At(i, "flush", "take")
    BY DEF Plane!FlushRemoteTargets
  <2>2. q.todo # <<>> /\ q.todo[1] = Take /\ q.todo \in Seq(StepsOf("flush"))
    BY <1>0, <2>1, Starting, Kinds
  <2>3. Take \in On(q.todo)
    BY <2>2, Shortened
  <2> QED BY <1>0, <2>2, <2>3 DEF Waiting
<1>3. queued[i] \in {{"targets"}, {"mcp"}, Plane!Views}
  BY <1>0, <1>2 DEF Typed, Plane!Views
<1>4. /\ a \in Seq(F) /\ b \in Seq(F) /\ a \o Tail(b) \in Seq(F)
  BY DEF Plane!InvalidateLocal, Reloading, Plane!Views
<1>5. \E p \in Seq(F) : task' = [task EXCEPT ![i]["flush"].todo = p]
  <2>1. {"targets"} # Plane!Views /\ {"mcp"} # Plane!Views /\ {"mcp"} # {"targets"}
    BY DEF Plane!Views
  <2> HIDE DEF a, b, F
  <2> DEFINE k == CASE queued[i] = Plane!Views -> a \o Tail(b)
                    [] queued[i] = {"targets"} -> a
                    [] queued[i] = {"mcp"} -> b
  <2>2. k \in Seq(F)
    BY <1>3, <1>4, <2>1
  <2>3. task' = [task EXCEPT ![i]["flush"].todo = k]
    BY DEF Plane!FlushRemoteTargets, a, b
  <2> QED BY <2>2, <2>3
<1>6. PICK p \in Seq(F) : task' = [task EXCEPT ![i]["flush"].todo = p]
  BY <1>5
<1>7. F \subseteq Calm /\ F \subseteq StepsOf("flush") /\ Take \notin F
  BY DEF Reloading, Calm, StepsOf, Take
<1> HIDE DEF F, a, b
<1>8. ListOK("flush", p) /\ Take \notin On(p)
  <2>1. p \in Seq(Calm) /\ p \in Seq(StepsOf("flush"))
    BY <1>7
  <2>2. On(p) \subseteq F
    BY DEF On
  <2>3. Ordered(p)
    BY ONLY <2>1, CalmOnly
  <2> QED BY <1>7, <2>1, <2>2, <2>3 DEF ListOK
<1>9. PICK r \in Job : /\ task' = [task EXCEPT ![i]["flush"] = r] /\ r.todo = p
                       /\ SameReads(task[i]["flush"], r)
  BY ONLY <1>0, <1>6, <1>8, i \in Instances, NewTodo
<1>10. Turns(i, "flush", r)
  BY ONLY <1>0, <1>9, i \in Instances, Turned
<1>11. Carries(q, r)
  <2>1. Will(q) \subseteq StepsOf("flush")
    <3>1. q.todo \in Seq(StepsOf("flush"))
      BY <1>0 DEF Listed, ListOK
    <3> QED BY <3>1 DEF Will, On
  <2>2. StepsOf("flush") \cap Promising = {}
    BY DEF StepsOf, Promising, Single, Reloading, LoadModels, LoadGroups, QueryGroups, Build, Plane!Uncache,
       Plane!Tune
  <2> QED BY <2>1, <2>2 DEF Carries
<1>12. Listed' /\ \A j \in Instances : Covered(j)'
  BY <1>0, <1>1, <1>8, <1>9, <1>10, <1>11, QuietTurn
<1>13. \A j \in Instances : j # i => queued'[j] = queued[j]
  BY <1>0 DEF Plane!FlushRemoteTargets, Typed
<1>14. Waiting'
  BY <1>0, <1>8, <1>9, <1>10, <1>13 DEF Waiting, Turns
<1> QED BY <1>1, <1>12, <1>14 DEF RuntimeInv

LEMMA StateKeeps ==
    ASSUME RuntimeInv, NEW i \in Instances,
           \/ Plane!ListenerStops(i) \/ Plane!Subscribe(i) \/ Plane!RecordExpires
           \/ Plane!ValidateKey(i) \/ Plane!GetByToken(i) \/ Plane!CacheRecord(i)
    PROVE  RuntimeInv'
<1>1. Steady /\ task' = task
  BY DEF Plane!ListenerStops, Plane!Subscribe, Plane!RecordExpires, Plane!ValidateKey,
     Plane!GetByToken, Plane!CacheRecord, RuntimeInv, Typed, Steady, Plane!runtimeVars,
     Plane!channelVars
<1> QED BY <1>1, SteadyState

LEMMA GroupsExpireKeeps ==
    ASSUME RuntimeInv, NEW i \in Instances, NEW level, Plane!GroupsExpire(i, level)
    PROVE  RuntimeInv'
<1>1. Typed' /\ (\A j \in Instances : Same(j)) /\ task' = task /\ queued' = queued
  BY DEF Plane!GroupsExpire, RuntimeInv, Typed, Same, Usable, Plane!Cell, Plane!channelVars
<1> QED BY <1>1, QuietState DEF RuntimeInv, Waiting

LEMMA FollowerStopsKeeps ==
    ASSUME RuntimeInv, NEW i \in Instances, Plane!FollowerStops(i)
    PROVE  RuntimeInv'
<1>1. Typed' /\ task' = task /\ queued' = queued
  BY DEF Plane!FollowerStops, RuntimeInv, Typed, Plane!runtimeVars
<1>2. ASSUME NEW j \in Instances PROVE Covered(j)'
  <2>1. "runtime" \in missed'[j] \/ Same(j)
    BY DEF Plane!FollowerStops, RuntimeInv, Typed, Same, Usable, Plane!runtimeVars
  <2>2. CASE "runtime" \in missed'[j]
    BY <2>2 DEF Covered
  <2>3. CASE Same(j)
    <3>1. Told /\ Covered(j) /\ Typed
      BY <1>1 DEF Told, Announced, RuntimeInv
    <3> QED BY <1>1, <2>3, <3>1, StillCovered, Unmoved
  <2> QED BY <2>1, <2>2, <2>3
<1> QED BY <1>1, <1>2 DEF RuntimeInv, Waiting, Listed

-----------------------------------------------------------------------------
(* Steps that something depends on. Where the router's models, groups and   *)
(* settings and the scheduler come from after a step of task t of i that    *)
(* makes it r.                                                              *)

ModelsFine(i) == registry[i]["models"] \/ ModelsComing(i)
GroupsFine(i) == registry[i]["groups"] \/ GroupsComing(i)
SettingsFine(i) == registry[i]["settings"] \/ SettingsComing(i)
SchedulerFine(i) == registry[i]["scheduler"] \/ SchedulerComing(i)

LEMMA CoveredFine ==
    ASSUME NEW i
    PROVE  /\ Covered(i) <=> ("runtime" \notin missed[i] =>
                   ModelsFine(i) /\ GroupsFine(i) /\ SettingsFine(i) /\ SchedulerFine(i))
           /\ Covered(i)' <=> ("runtime" \notin missed'[i] =>
                   ModelsFine(i)' /\ GroupsFine(i)' /\ SettingsFine(i)' /\ SchedulerFine(i)')
BY DEF Covered, ModelsFine, GroupsFine, SettingsFine, SchedulerFine

\* What tells i to reload, or task t of i brings.
ModelsBy(i, t) ==
    \/ Announced("model") \/ "model" \in events[i]
    \/ t \in Background /\ BringsModels(task[i][t], models[i])
GroupsBy(i, t) ==
    \/ Announced("model") \/ "model" \in events[i]
    \/ t \in Background /\ BringsGroups(task[i][t], Usable(i))
ConfigBy(i, t) ==
    /\ ~config[i]
    /\ Announced("config") \/ events[i] # {} \/ (t \in Background /\ BringsConfig(task[i][t]))
SettingsBy(i, t) == ConfigBy(i, t) \/ (t \in Workers /\ BringsSettings(task[i][t]))
SchedulerBy(i, t) == ConfigBy(i, t) \/ (config[i] /\ t \in Workers /\ Tunes(task[i][t]))

\* Only task t of i changes.
Alone(i, t) == \A u \in Plane!Tasks : u # t => task'[i][u] = task[i][u]

LEMMA TurnModels ==
    ASSUME NEW i \in Instances, NEW t \in Plane!Tasks, Alone(i, t), ModelsFine(i),
           models[i] => models'[i],
           registry[i]["models"] => registry'[i]["models"],
           ModelsBy(i, t) => registry'[i]["models"] \/ ModelsBy(i, t)'
    PROVE  ModelsFine(i)'
<1>1. \A u \in Background : u # t => task'[i][u] = task[i][u]
  BY DEF Alone, Background, Plane!Tasks
<1>2. ASSUME NEW u \in Background, u # t, BringsModels(task[i][u], models[i])
      PROVE  BringsModels(task'[i][u], models'[i])
  BY <1>1, <1>2 DEF BringsModels
<1> QED BY <1>2 DEF ModelsFine, ModelsComing, ModelsBy

LEMMA TurnGroups ==
    ASSUME NEW i \in Instances, NEW t \in Plane!Tasks, Alone(i, t), GroupsFine(i),
           Usable(i) => Usable(i)',
           registry[i]["groups"] => registry'[i]["groups"],
           GroupsBy(i, t) => registry'[i]["groups"] \/ GroupsBy(i, t)'
    PROVE  GroupsFine(i)'
<1>1. \A u \in Background : u # t => task'[i][u] = task[i][u]
  BY DEF Alone, Background, Plane!Tasks
<1>2. ASSUME NEW u \in Background, u # t, BringsGroups(task[i][u], Usable(i))
      PROVE  BringsGroups(task'[i][u], Usable(i)')
  BY <1>1, <1>2 DEF BringsGroups
<1> QED BY <1>2 DEF GroupsFine, GroupsComing, GroupsBy

LEMMA TurnSettings ==
    ASSUME NEW i \in Instances, NEW t \in Plane!Tasks, Alone(i, t), SettingsFine(i),
           registry[i]["settings"] => registry'[i]["settings"],
           ~config[i] /\ config'[i] => registry'[i]["settings"] \/ SettingsBy(i, t)',
           SettingsBy(i, t) => registry'[i]["settings"] \/ SettingsBy(i, t)'
    PROVE  SettingsFine(i)'
<1>1. \A u \in Background \cup Workers : u # t => task'[i][u] = task[i][u]
  BY DEF Alone, Background, Workers, Plane!Tasks
<1> QED BY <1>1 DEF SettingsFine, SettingsComing, ConfigComing, SettingsBy, ConfigBy

LEMMA TurnScheduler ==
    ASSUME NEW i \in Instances, NEW t \in Plane!Tasks, Alone(i, t), SchedulerFine(i),
           registry[i]["scheduler"] => registry'[i]["scheduler"],
           config[i] # config'[i] => registry'[i]["scheduler"] \/ SchedulerBy(i, t)',
           SchedulerBy(i, t) => registry'[i]["scheduler"] \/ SchedulerBy(i, t)'
    PROVE  SchedulerFine(i)'
<1>1. \A u \in Background \cup Workers : u # t => task'[i][u] = task[i][u]
  BY DEF Alone, Background, Workers, Plane!Tasks
<1> QED BY <1>1 DEF SchedulerFine, SchedulerComing, ConfigComing, SchedulerBy, ConfigBy

\* The other instances, and what the administrators' tasks announce.
LEMMA OthersCovered ==
    ASSUME RuntimeInv, NEW i \in Instances, NEW t \in Plane!Tasks, NEW r, Turns(i, t, r), Told,
           NEW j \in Instances, j # i, Same(j)
    PROVE  Covered(j)'
<1>1. \A u \in Plane!Tasks : Carries(task[j][u], task'[j][u])
  BY Unmoved DEF Turns
<1> QED BY <1>1, StillCovered DEF RuntimeInv

LEMMA TurnTold ==
    ASSUME NEW i \in Instances, NEW t \in Plane!Tasks, NEW r, Turns(i, t, r),
           \A e \in Events : Publishes(task[i][t], e) => Publishes(r, e)
    PROVE  Told
<1>1. ASSUME NEW e \in Events, NEW j \in Instances, Publishes(task[j]["admin"], e)
      PROVE  Publishes(task'[j]["admin"], e)
  BY <1>1 DEF Turns, Plane!Tasks
<1> QED BY <1>1 DEF Told, Announced

\* A step of a worker's task: what is left to show.
LEMMA TurnKeeps ==
    ASSUME RuntimeInv, NEW i \in Instances, NEW t \in Plane!Tasks, NEW r, Turns(i, t, r),
           ListOK(t, r.todo), t # "flush" \/ On(r.todo) \subseteq On(task[i][t].todo),
           queued' = queued, Typed',
           \A j \in Instances : j # i => "runtime" \in missed'[j] \/ (Same(j) /\ Told),
           "runtime" \notin missed'[i] =>
               ModelsFine(i)' /\ GroupsFine(i)' /\ SettingsFine(i)' /\ SchedulerFine(i)'
    PROVE  RuntimeInv'
<1>1. Listed' /\ Waiting'
  BY StillListed DEF RuntimeInv
<1>2. ASSUME NEW j \in Instances PROVE Covered(j)'
  <2>1. CASE j = i
    BY <2>1, CoveredFine
  <2>2. CASE j # i /\ "runtime" \in missed'[j]
    BY <2>2, CoveredFine
  <2>3. CASE j # i /\ Same(j) /\ Told
    BY <2>3, OthersCovered
  <2> QED BY <2>1, <2>2, <2>3
<1> QED BY <1>1, <1>2 DEF RuntimeInv

LEMMA TurnAlone ==
    ASSUME NEW i \in Instances, NEW t, NEW r, Turns(i, t, r)
    PROVE  Alone(i, t) /\ task'[i][t] = r
BY DEF Turns, Alone

\* What r announces and brings is at least what task t of i does.
Serves(i, t, r) ==
    /\ t \in Background => /\ BringsModels(task[i][t], models[i]) => BringsModels(r, models'[i])
                           /\ BringsGroups(task[i][t], Usable(i)) => BringsGroups(r, Usable(i)')
                           /\ BringsConfig(task[i][t]) => BringsConfig(r)
    /\ BringsSettings(task[i][t]) => BringsSettings(r)
    /\ Tunes(task[i][t]) => Tunes(r)

\* The task's reads and steps are as good as before: nothing else changes.
LEMMA TurnFine ==
    ASSUME RuntimeInv, NEW i \in Instances, NEW t \in Plane!Tasks, NEW r, Turns(i, t, r), Told, Same(i),
           Serves(i, t, r),
           "runtime" \notin missed'[i]
    PROVE  ModelsFine(i)' /\ GroupsFine(i)' /\ SettingsFine(i)' /\ SchedulerFine(i)'
<1>1. Alone(i, t) /\ task'[i][t] = r
  BY TurnAlone
<1>2. ModelsFine(i) /\ GroupsFine(i) /\ SettingsFine(i) /\ SchedulerFine(i)
  BY CoveredFine DEF RuntimeInv, Same
<1>3. (Announced("model") => Announced("model")') /\ (Announced("config") => Announced("config")')
  BY DEF Told, Events
<1>4. ModelsBy(i, t) => ModelsBy(i, t)'
  BY <1>1, <1>3 DEF ModelsBy, Same, Serves
<1>5. GroupsBy(i, t) => GroupsBy(i, t)'
  BY <1>1, <1>3 DEF GroupsBy, Same, Serves
<1>6. ConfigBy(i, t) => ConfigBy(i, t)'
  BY <1>1, <1>3 DEF ConfigBy, Same, Serves
<1>7. SettingsBy(i, t) => SettingsBy(i, t)'
  BY <1>1, <1>6 DEF SettingsBy, Serves
<1>8. SchedulerBy(i, t) => SchedulerBy(i, t)'
  BY <1>1, <1>6 DEF SchedulerBy, Same, Serves
<1>9. ModelsFine(i)'
  BY <1>1, <1>2, <1>4, TurnModels DEF Same
<1>10. GroupsFine(i)'
  BY <1>1, <1>2, <1>5, TurnGroups DEF Same
<1>11. SettingsFine(i)'
  BY <1>1, <1>2, <1>7, TurnSettings DEF Same
<1>12. SchedulerFine(i)'
  BY <1>1, <1>2, <1>8, TurnScheduler DEF Same
<1> QED BY <1>9, <1>10, <1>11, <1>12

LEMMA TurnServes ==
    ASSUME RuntimeInv, NEW i \in Instances, NEW t \in Plane!Tasks, NEW r, Turns(i, t, r),
           ListOK(t, r.todo), t # "flush" \/ On(r.todo) \subseteq On(task[i][t].todo),
           queued' = queued, Typed',
           \A e \in Events : Publishes(task[i][t], e) => Publishes(r, e),
           \A j \in Instances : "runtime" \in missed'[j] \/ Same(j),
           "runtime" \notin missed'[i] => Serves(i, t, r)
    PROVE  RuntimeInv'
<1>1. Told
  BY TurnTold
<1>2. "runtime" \notin missed'[i] => ModelsFine(i)' /\ GroupsFine(i)' /\ SettingsFine(i)' /\ SchedulerFine(i)'
  BY <1>1, TurnFine
<1> QED BY <1>1, <1>2, TurnKeeps

\* Task t of i takes a step op that is not its check, and becomes r.
Takes(i, t, op, r) ==
    /\ Plane!At(i, t, op) /\ op # "check"
    /\ r \in Job /\ r.todo = Tail(task[i][t].todo) /\ task' = [task EXCEPT ![i][t] = r]

LEMMA Worker ==
    ASSUME RuntimeInv, NEW i \in Instances, NEW t \in Plane!Tasks, NEW op, NEW r, Takes(i, t, op, r)
    PROVE  /\ Turns(i, t, r) /\ ListOK(t, r.todo)
           /\ Passing(task[i][t].todo[1], Will(task[i][t]), Will(r))
           /\ task[i][t].todo[1][1] = op /\ task[i][t].todo[1] \in StepsOf(t)
           /\ Plane!What(i, t) = task[i][t].todo[1][2]
<1> USE DEF Takes
<1> DEFINE q == task[i][t]
           c == Plane!Continue(q)
           s == q.todo[1]
<1>1. /\ ListOK(t, c.todo) /\ Passing(s, Will(q), Will(c)) /\ s[1] = op /\ s \in StepsOf(t)
      /\ Plane!What(i, t) = s[2] /\ c.todo = r.todo
  BY GoesOn DEF RuntimeInv
<1>2. Will(c) = Will(r)
  BY <1>1 DEF Will
<1>3. Turns(i, t, r)
  BY Turned DEF RuntimeInv
<1> HIDE DEF c, q, s
<1> QED BY <1>1, <1>2, <1>3 DEF q, s

LEMMA LoadModelsKeeps ==
    ASSUME RuntimeInv, NEW i \in Instances, NEW t \in Plane!Tasks, Plane!LoadModels(i, t)
    PROVE  RuntimeInv'
<1> DEFINE q == task[i][t]
           c == Plane!Continue(q)
           r == [c EXCEPT !.models = TRUE]
           X == Will(r)
<1>1. Plane!At(i, t, "models") /\ task' = [task EXCEPT ![i][t] = r]
  BY DEF Plane!LoadModels
<1>2. q \in Job /\ q.todo # <<>>
  BY <1>1, Starting DEF RuntimeInv
<1>3. c \in Job /\ c.todo = Tail(q.todo) /\ (c.todo = <<>> \/ SameReads(q, c))
  BY <1>2, Continued
<1> HIDE DEF c
<1>4. r \in Job /\ r.todo = Tail(q.todo) /\ r.models /\ r.groups = c.groups /\ r.config = c.config
  BY <1>3 DEF Job
<1> HIDE DEF r
<1>5. /\ Turns(i, t, r) /\ ListOK(t, r.todo) /\ q.todo[1] = LoadModels /\ t \in Workers
      /\ Passing(LoadModels, Will(q), X)
  <2>1. /\ Turns(i, t, r) /\ ListOK(t, r.todo) /\ Passing(q.todo[1], Will(q), X)
        /\ q.todo[1][1] = "models" /\ q.todo[1] \in StepsOf(t)
    <3>1. Takes(i, t, "models", r)
      BY <1>1, <1>4 DEF Takes
    <3> QED BY ONLY RuntimeInv, i \in Instances, t \in Plane!Tasks, <3>1, Worker
  <2>2. q.todo[1] = LoadModels /\ t \in Workers
    BY <2>1, Kinds
  <2> QED BY <2>1, <2>2
<1>6. Will(q) = {LoadModels} \cup X /\ LoadGroups \in X
  BY <1>5, StepNames DEF Passing, Asks, Refresh
<1>7. r.groups = q.groups /\ r.config = q.config
  <2>1. r.todo # <<>>
    BY <1>6, Nothing DEF Will
  <2> QED BY <1>3, <1>4, <2>1 DEF SameReads
<1>8. /\ \A e \in Events : Publishes(q, e) => Publishes(r, e)
      /\ BringsModels(r, models'[i])
      /\ BringsGroups(q, Usable(i)) => BringsGroups(r, Usable(i))
      /\ BringsConfig(q) => BringsConfig(r)
      /\ BringsSettings(q) => BringsSettings(r)
      /\ Tunes(q) => Tunes(r)
  BY <1>4, <1>6, <1>7 DEF Publishes, BringsModels, BringsGroups, BringsConfig, BringsSettings, Tunes,
     LoadModels, LoadGroups, QueryGroups, Build, Plane!Uncache, Plane!Tune
<1>9. Steady
  BY DEF Plane!LoadModels, RuntimeInv, Typed, Steady, Plane!runtimeVars, Plane!channelVars
<1>10. Typed' /\ (\A j \in Instances : Same(j)) /\ queued' = queued /\ Usable(i)' = Usable(i)
  BY <1>9, SteadySame DEF RuntimeInv, Steady, Usable
<1> QED BY <1>5, <1>8, <1>10, TurnServes DEF Workers, Serves

LEMMA Rebuilt ==
    ASSUME NEW q \in Job, q.todo # <<>>, NEW r \in Job, r.todo = Tail(q.todo),
           Tail(q.todo) = <<>> \/ SameReads(q, r)
    PROVE  Will(r) # {} => SameReads(q, r)
BY Nothing DEF Will

LEMMA UncacheGroupsKeeps ==
    ASSUME RuntimeInv, NEW i \in Instances, NEW t \in Plane!Tasks, NEW ok \in BOOLEAN,
           Plane!UncacheGroups(i, t, ok)
    PROVE  RuntimeInv'
<1> DEFINE q == task[i][t]
           r == Plane!Continue(q)
           X == Will(r)
<1>1. Plane!At(i, t, "uncache") /\ task' = [task EXCEPT ![i][t] = r]
  BY DEF Plane!UncacheGroups, Plane!Done
<1>2. q \in Job /\ q.todo # <<>>
  BY <1>1, Starting DEF RuntimeInv
<1>3. r \in Job /\ r.todo = Tail(q.todo) /\ (Tail(q.todo) = <<>> \/ SameReads(q, r))
  BY <1>2, Continued
<1> HIDE DEF r
<1>5. /\ Turns(i, t, r) /\ ListOK(t, r.todo) /\ q.todo[1] = Plane!Uncache /\ t \in Workers
      /\ Passing(Plane!Uncache, Will(q), X)
  <2>1. /\ Turns(i, t, r) /\ ListOK(t, r.todo) /\ Passing(q.todo[1], Will(q), X)
        /\ q.todo[1][1] = "uncache" /\ q.todo[1] \in StepsOf(t)
    <3>1. Takes(i, t, "uncache", r)
      BY <1>1, <1>3 DEF Takes
    <3> QED BY ONLY RuntimeInv, i \in Instances, t \in Plane!Tasks, <3>1, Worker
  <2>2. q.todo[1] = Plane!Uncache /\ t \in Workers
    BY <2>1, Kinds
  <2> QED BY <2>1, <2>2
<1>6. Will(q) = {Plane!Uncache} \cup X /\ LoadGroups \in X
  BY <1>5, StepNames DEF Passing, Asks, Refresh
<1>7. r.models = q.models /\ r.groups = q.groups /\ r.config = q.config
  BY <1>2, <1>3, <1>6, Rebuilt DEF SameReads
<1>8. /\ \A e \in Events : Publishes(q, e) => Publishes(r, e)
      /\ BringsModels(q, models[i]) => BringsModels(r, models[i])
      /\ BringsConfig(q) => BringsConfig(r)
      /\ BringsSettings(q) => BringsSettings(r)
      /\ Tunes(q) => Tunes(r)
  BY <1>6, <1>7 DEF Publishes, BringsModels, BringsConfig, BringsSettings, Tunes,
     LoadModels, LoadGroups, Build, Plane!Uncache, Plane!Tune
<1>10. Typed' /\ (\A j \in Instances : Same(j)) /\ queued' = queued /\ models' = models
  BY DEF Plane!UncacheGroups, RuntimeInv, Typed, Same, Usable, Plane!Cell, Plane!channelVars
<1>11. "runtime" \notin missed'[i] /\ t # "admin" => Usable(i)'
  BY DEF Plane!UncacheGroups, RuntimeInv, Typed, Usable
<1>12. "runtime" \notin missed'[i] /\ t \in Background => BringsGroups(r, Usable(i)')
  BY <1>6, <1>11 DEF BringsGroups, Background
<1> QED BY <1>5, <1>8, <1>10, <1>12, TurnServes DEF Workers, Serves

LEMMA StoreGroupsKeeps ==
    ASSUME RuntimeInv, NEW i \in Instances, NEW t \in Plane!Tasks, NEW ok \in BOOLEAN,
           Plane!StoreGroups(i, t, ok)
    PROVE  RuntimeInv'
<1> DEFINE q == task[i][t]
           r == Plane!Continue(q)
           X == Will(r)
<1>1. Plane!At(i, t, "store") /\ task' = [task EXCEPT ![i][t] = r]
  BY DEF Plane!StoreGroups, Plane!Done
<1>2. q \in Job /\ q.todo # <<>>
  BY <1>1, Starting DEF RuntimeInv
<1>3. r \in Job /\ r.todo = Tail(q.todo) /\ (Tail(q.todo) = <<>> \/ SameReads(q, r))
  BY <1>2, Continued
<1> HIDE DEF r
<1>5. /\ Turns(i, t, r) /\ ListOK(t, r.todo) /\ q.todo[1] = StoreGroups /\ t \in Workers
      /\ Passing(StoreGroups, Will(q), X)
  <2>1. /\ Turns(i, t, r) /\ ListOK(t, r.todo) /\ Passing(q.todo[1], Will(q), X)
        /\ q.todo[1][1] = "store" /\ q.todo[1] \in StepsOf(t)
    <3>1. Takes(i, t, "store", r)
      BY <1>1, <1>3 DEF Takes
    <3> QED BY ONLY RuntimeInv, i \in Instances, t \in Plane!Tasks, <3>1, Worker
  <2>2. q.todo[1] = StoreGroups /\ t \in Workers
    BY <2>1, Kinds
  <2> QED BY <2>1, <2>2
<1>6. Will(q) = {StoreGroups} \cup X /\ Build \in X
  BY <1>5, StepNames DEF Passing, Asks, Refresh
<1>7. SameReads(q, r)
  BY <1>2, <1>3, <1>6, Rebuilt
<1>8. Carries(q, r)
  <2>1. StoreGroups \notin Vital
    BY NotVital DEF StoreGroups, VitalOps
  <2> QED BY <1>6, <1>7, <2>1 DEF Carries
<1>9. Typed' /\ queued' = queued /\ \A j \in Instances : "runtime" \in missed'[j] \/ Same(j)
  BY DEF Plane!StoreGroups, RuntimeInv, Typed, Same, Usable, Plane!Cell, Plane!channelVars
<1>10. \A e \in Events : Publishes(q, e) => Publishes(r, e)
  BY <1>8, Carried
<1>11. "runtime" \notin missed'[i] => Serves(i, t, r)
  <2> SUFFICES ASSUME Same(i) PROVE Serves(i, t, r)
    BY <1>9
  <2>1. /\ models[i] \in BOOLEAN /\ models'[i] \in BOOLEAN /\ (models[i] => models'[i])
        /\ Usable(i) \in BOOLEAN /\ Usable(i)' \in BOOLEAN /\ (Usable(i) => Usable(i)')
    BY DEF RuntimeInv, Typed, Same, Usable
  <2> QED BY <1>8, <2>1, Carried DEF Serves
<1> QED BY <1>5, <1>9, <1>10, <1>11, TurnServes DEF Workers

\* The settings of the instance: taken by the reload, or given by the handler
\* that stored them, which then tunes the scheduler and tells everyone.
LEMMA GetConfigKeeps ==
    ASSUME RuntimeInv, NEW i \in Instances, NEW t \in Plane!Tasks, Plane!GetConfig(i, t)
    PROVE  RuntimeInv'
<1> DEFINE q == task[i][t]
           c == Plane!Continue(q)
           s == q.todo[1]
<1>1. Plane!At(i, t, "get")
  BY DEF Plane!GetConfig
<1>2. q \in Job /\ q.todo # <<>> /\ s[1] = "get" /\ s \in StepsOf(t) /\ Plane!What(i, t) = s[2]
  BY <1>1, Starting DEF RuntimeInv
<1>3. c \in Job /\ c.todo = Tail(q.todo) /\ (c.todo = <<>> \/ SameReads(q, c))
  BY <1>2, Continued
<1>4. s \in {GetOwn, <<"get", "config">>} /\ t = "admin" /\ t \notin Background /\ t \in Workers
  BY <1>2, Kinds DEF Background, Workers
<1>5. CASE s = GetOwn
  <2>1. config' = [config EXCEPT ![i] = q.config] /\ task' = [task EXCEPT ![i][t] = c]
    BY <1>2, <1>5 DEF Plane!GetConfig, Plane!Done, GetOwn
  <2> HIDE DEF c
  <2>2. Turns(i, t, c) /\ ListOK(t, c.todo) /\ Passing(GetOwn, Will(q), Will(c))
    <3>1. Takes(i, t, "get", c)
      BY <1>1, <1>3, <2>1 DEF Takes
    <3> QED BY ONLY RuntimeInv, i \in Instances, t \in Plane!Tasks, <1>5, <3>1, Worker
  <2>3. /\ Will(q) = {GetOwn} \cup Will(c)
        /\ {<<"publish", "config">>, Plane!Tune, Build} \subseteq Will(c) /\ <<"get", "config">> \notin Will(c)
    BY <2>2, StepNames DEF Passing, Asks
  <2>4. SameReads(q, c)
    BY <1>2, <1>3, <2>3, Rebuilt
  <2>5. \A e \in Events : Publishes(q, e) => Publishes(c, e)
    BY <2>3 DEF Publishes, GetOwn
  <2>6. Told /\ Alone(i, t) /\ task'[i][t] = c
    BY <2>2, <2>5, TurnTold, TurnAlone
  <2>7. Announced("config")'
    BY <1>4, <2>3, <2>6 DEF Announced, Publishes
  <2>8. /\ Typed' /\ queued' = queued /\ registry' = registry /\ models' = models /\ missed' = missed
        /\ events' = events /\ Usable(i)' = Usable(i) /\ \A j \in Instances : j # i => Same(j)
    BY <1>2, <2>1 DEF Plane!GetConfig, RuntimeInv, Typed, Same, Usable, Plane!channelVars, Job
  <2>9. config'[i] = q.config
    BY <2>1 DEF RuntimeInv, Typed
  <2>10. SettingsBy(i, t)' /\ SchedulerBy(i, t)'
    BY <1>4, <2>3, <2>4, <2>6, <2>7, <2>9 DEF SettingsBy, SchedulerBy, ConfigBy, BringsSettings, Tunes, SameReads
  <2>11. ASSUME "runtime" \notin missed'[i]
         PROVE  ModelsFine(i)' /\ GroupsFine(i)' /\ SettingsFine(i)' /\ SchedulerFine(i)'
    <3>1. ModelsFine(i) /\ GroupsFine(i) /\ SettingsFine(i) /\ SchedulerFine(i)
      BY <2>8, <2>11, CoveredFine DEF RuntimeInv
    <3>2. (ModelsBy(i, t) => ModelsBy(i, t)') /\ (GroupsBy(i, t) => GroupsBy(i, t)')
      BY <1>4, <2>6, <2>8 DEF ModelsBy, GroupsBy, Told, Events
    <3>3. ModelsFine(i)'
      BY <2>6, <2>8, <3>1, <3>2, TurnModels
    <3>4. GroupsFine(i)'
      BY <2>6, <2>8, <3>1, <3>2, TurnGroups
    <3>5. SettingsFine(i)'
      BY <2>6, <2>8, <2>10, <3>1, TurnSettings
    <3>6. SchedulerFine(i)'
      BY <2>6, <2>8, <2>10, <3>1, TurnScheduler
    <3> QED BY <3>3, <3>4, <3>5, <3>6
  <2> QED BY <1>4, <2>2, <2>6, <2>8, <2>11, TurnKeeps
<1>6. CASE s = <<"get", "config">>
  <2> DEFINE r == [c EXCEPT !.config = config[i]]
  <2>1. config' = config /\ task' = [task EXCEPT ![i][t] = r]
    BY <1>2, <1>6 DEF Plane!GetConfig
  <2> HIDE DEF c
  <2>2. r \in Job /\ r.todo = Tail(q.todo)
    BY <1>3 DEF Job, RuntimeInv, Typed
  <2> HIDE DEF r
  <2>3. Turns(i, t, r) /\ ListOK(t, r.todo) /\ Passing(s, Will(q), Will(r))
    <3>1. Takes(i, t, "get", r)
      BY <1>1, <2>1, <2>2 DEF Takes
    <3> QED BY ONLY RuntimeInv, i \in Instances, t \in Plane!Tasks, <3>1, Worker
  <2>4. Will(q) = {} \/ Will(q) = {s} \cup Will(r)
    BY <2>3 DEF Passing
  <2>5. \A e \in Events : Publishes(q, e) => Publishes(r, e)
    BY <1>6, <2>4 DEF Publishes
  <2>6. Serves(i, t, r)
    BY <1>4, <1>6, <2>4 DEF Serves, BringsSettings, Tunes, Plane!Tune
  <2>7. Typed' /\ queued' = queued /\ \A j \in Instances : Same(j)
    BY <2>1 DEF Plane!GetConfig, RuntimeInv, Typed, Same, Usable, Plane!channelVars
  <2> QED BY <1>4, <2>3, <2>5, <2>6, <2>7, TurnServes
<1> QED BY <1>4, <1>5, <1>6

LEMMA ListRuntimeGroupsKeeps ==
    ASSUME RuntimeInv, NEW i \in Instances, NEW t \in Plane!Tasks, Plane!ListRuntimeGroups(i, t)
    PROVE  RuntimeInv'
<1> DEFINE q == task[i][t]
           x == Tail(q.todo)
           d == [q EXCEPT !.todo = x]
           p == Cons(StoreGroups, x)
           r == [q EXCEPT !.todo = p, !.groups = TRUE]
<1>1. Plane!At(i, t, "query") /\ task' = [task EXCEPT ![i][t].todo = p, ![i][t].groups = TRUE]
  BY DEF Plane!ListRuntimeGroups, Cons, StoreGroups
<1>2. /\ q \in Job /\ q.todo # <<>> /\ q.todo[1] = QueryGroups /\ t \in Workers /\ q.todo \in Seq(StepsOf(t))
      /\ Ordered(q.todo)
  BY <1>1, Starting, Kinds DEF RuntimeInv
<1>3. /\ x \in Seq(StepsOf(t)) /\ Ordered(x) /\ Asks(QueryGroups, On(x)) /\ On(q.todo) = {QueryGroups} \cup On(x)
  BY <1>2, Beginning, Shortened
<1>4. /\ Build \in On(x) /\ LoadGroups \notin On(x) /\ Plane!Check \notin On(x) /\ On(x) \cap Single = {}
      /\ StoreGroups \in StepsOf(t)
  BY <1>2, <1>3, StepNames DEF Asks, Refresh, Workers, Plane!Tasks
<1>5. Asks(StoreGroups, On(x))
  BY <1>4, StepNames DEF Asks, Refresh
<1> HIDE DEF x
<1>6. p \in Seq(StepsOf(t)) /\ On(p) = {StoreGroups} \cup On(x) /\ Ordered(p)
  <2>1. StoreGroups \in StepsOf(t) /\ x \in Seq(StepsOf(t)) /\ Ordered(x)
    BY <1>3, <1>4
  <2> QED BY ONLY <1>5, <2>1, Prefixed
<1>7. p \in Seq(Steps)
  <2>1. StepsOf(t) \subseteq Steps
    BY DEF Steps
  <2> HIDE DEF p
  <2> QED BY <1>6, <2>1
<1> HIDE DEF p
<1>8. task' = [task EXCEPT ![i][t] = r]
  BY <1>1, <1>2 DEF RuntimeInv, Listed, Job
<1> HIDE DEF q
<1>9. r \in Job /\ r.todo = p /\ r.groups /\ r.models = q.models /\ r.config = q.config
  BY <1>2, <1>7 DEF Job
<1> HIDE DEF r
<1>10. Turns(i, t, r) /\ ListOK(t, r.todo)
  BY <1>6, <1>8, <1>9, Turned DEF RuntimeInv, ListOK
<1>11. Will(q) = {QueryGroups} \cup On(x) /\ Will(r) = {StoreGroups} \cup On(x)
  <2>1. Plane!Check # QueryGroups /\ Plane!Check # StoreGroups
    BY DEF Plane!Check, QueryGroups, StoreGroups
  <2> QED BY <1>3, <1>4, <1>6, <1>9, <2>1 DEF Will
<1>12. \A e \in Events : Publishes(q, e) => Publishes(r, e)
  BY <1>11 DEF Publishes, QueryGroups
<1>13. Typed' /\ queued' = queued /\ \A j \in Instances : Same(j)
  BY DEF Plane!ListRuntimeGroups, RuntimeInv, Typed, Same, Usable, Plane!runtimeVars, Plane!channelVars
<1>14. models' = models
  BY DEF Plane!ListRuntimeGroups, Plane!runtimeVars
<1>15. Serves(i, t, r)
  <2>1. BringsModels(q, models[i]) => BringsModels(r, models'[i])
    BY <1>9, <1>11, <1>14 DEF BringsModels, LoadModels, LoadGroups, QueryGroups, Build
  <2>2. BringsGroups(r, Usable(i)')
    BY <1>4, <1>9, <1>11 DEF BringsGroups, LoadGroups, StoreGroups
  <2>3. BringsConfig(q) => BringsConfig(r)
    BY <1>9, <1>11 DEF BringsConfig, QueryGroups
  <2>4. (BringsSettings(q) => BringsSettings(r)) /\ (Tunes(q) => Tunes(r))
    BY <1>9, <1>11 DEF BringsSettings, Tunes, QueryGroups, StoreGroups, Build, Plane!Tune
  <2> QED BY <2>1, <2>2, <2>3, <2>4 DEF Serves, q
<1> QED BY <1>2, <1>10, <1>12, <1>13, <1>15, TurnServes DEF Workers, q

LEMMA GetGroupsKeeps ==
    ASSUME RuntimeInv, NEW i \in Instances, NEW t \in Plane!Tasks, Plane!GetGroups(i, t)
    PROVE  RuntimeInv'
<1> DEFINE q == task[i][t]
           x == Tail(q.todo)
           cell == IF groups1[i] # "none" THEN groups1[i] ELSE groups2
           p == Cons(QueryGroups, x)
           c == Plane!Continue(q)
           a == [q EXCEPT !.todo = p]
           b == [c EXCEPT !.groups = (cell = "fresh")]
           r == IF cell = "none" THEN a ELSE b
<1>1. Plane!At(i, t, "groups") /\ task' = [task EXCEPT ![i][t] = r]
  BY DEF Plane!GetGroups, Cons, QueryGroups
<1>2. /\ q \in Job /\ q.todo # <<>> /\ q.todo[1] = LoadGroups /\ t \in Workers /\ q.todo \in Seq(StepsOf(t))
      /\ Ordered(q.todo)
  BY <1>1, Starting, Kinds DEF RuntimeInv
<1>3. /\ x \in Seq(StepsOf(t)) /\ Ordered(x) /\ Asks(LoadGroups, On(x)) /\ On(q.todo) = {LoadGroups} \cup On(x)
  BY <1>2, Beginning, Shortened
<1>4. /\ Build \in On(x) /\ LoadGroups \notin On(x) /\ Plane!Check \notin On(x) /\ On(x) \cap Single = {}
      /\ QueryGroups \in StepsOf(t)
  BY <1>2, <1>3, StepNames DEF Asks, Refresh, Workers, Plane!Tasks
<1>5. Asks(QueryGroups, On(x))
  BY <1>4, StepNames DEF Asks, Refresh
<1>6. c \in Job /\ c.todo = x /\ (x = <<>> \/ SameReads(q, c))
  BY <1>2, Continued
<1>7. x # <<>>
  BY <1>4, Nothing
<1> HIDE DEF x, c
<1>8. p \in Seq(StepsOf(t)) /\ On(p) = {QueryGroups} \cup On(x) /\ Ordered(p)
  <2>1. QueryGroups \in StepsOf(t) /\ x \in Seq(StepsOf(t)) /\ Ordered(x)
    BY <1>3, <1>4
  <2> QED BY ONLY <1>5, <2>1, Prefixed
<1>9. p \in Seq(Steps)
  <2>1. StepsOf(t) \subseteq Steps
    BY DEF Steps
  <2> HIDE DEF p
  <2> QED BY <1>8, <2>1
<1> HIDE DEF p
<1>10. /\ r \in Job /\ r.models = q.models /\ r.config = q.config
       /\ cell = "none" => r.todo = p
       /\ cell # "none" => r.todo = x /\ r.groups = (cell = "fresh")
  <2> HIDE DEF q, cell
  <2>1. a \in Job /\ a.todo = p /\ a.models = q.models /\ a.config = q.config
    BY <1>2, <1>9 DEF Job
  <2>2. b \in Job /\ b.todo = x /\ b.models = q.models /\ b.config = q.config /\ b.groups = (cell = "fresh")
    BY <1>6, <1>7 DEF Job, SameReads
  <2> QED BY <2>1, <2>2
<1> HIDE DEF r, cell
<1>11. ListOK(t, r.todo)
  BY <1>3, <1>8, <1>10 DEF ListOK
<1>12. Turns(i, t, r)
  BY <1>1, <1>10, Turned DEF RuntimeInv
<1>13. /\ Will(q) = {LoadGroups} \cup On(x)
       /\ cell = "none" => Will(r) = {QueryGroups} \cup On(x)
       /\ cell # "none" => Will(r) = On(x)
  <2>1. Plane!Check # QueryGroups /\ Plane!Check # LoadGroups
    BY DEF Plane!Check, QueryGroups, LoadGroups
  <2> QED BY <1>3, <1>4, <1>8, <1>10, <2>1 DEF Will
<1>14. \A e \in Events : Publishes(q, e) => Publishes(r, e)
  BY <1>13 DEF Publishes, LoadGroups
<1>15. /\ Typed' /\ queued' = queued /\ models'[i] = q.models /\ (Usable(i) => cell # "stale")
       /\ cell \in Plane!Cell
       /\ \A j \in Instances : "runtime" \in missed'[j] \/ Same(j)
  BY <1>2 DEF Plane!GetGroups, RuntimeInv, Typed, Same, Usable, Plane!Cell, Plane!channelVars, Job, cell
<1>16. ASSUME "runtime" \notin missed'[i] PROVE Serves(i, t, r)
  <2>0. Same(i)
    BY <1>15, <1>16
  <2>1. BringsModels(q, models[i]) => BringsModels(r, models'[i])
    <3>1. models[i] => models'[i]
      BY <2>0 DEF Same
    <3> QED BY <1>4, <1>13, <1>15, <3>1 DEF BringsModels, LoadModels, LoadGroups, Build
  <2>2. BringsGroups(q, Usable(i)) => BringsGroups(r, Usable(i)')
    BY <1>4, <1>10, <1>13, <1>15 DEF BringsGroups, LoadGroups, QueryGroups, Plane!Uncache, Plane!Cell
  <2>3. BringsConfig(q) => BringsConfig(r)
    BY <1>10, <1>13 DEF BringsConfig, LoadGroups
  <2>4. (BringsSettings(q) => BringsSettings(r)) /\ (Tunes(q) => Tunes(r))
    BY <1>10, <1>13 DEF BringsSettings, Tunes, LoadGroups, QueryGroups, Build, Plane!Tune
  <2> QED BY <2>1, <2>2, <2>3, <2>4 DEF Serves
<1> HIDE DEF q
<1> QED BY <1>2, <1>11, <1>12, <1>14, <1>15, <1>16, TurnServes DEF Workers, q

\* What Install does to the history.
LEMMA Installed ==
    ASSUME Typed, NEW i \in Instances, NEW built \in [Plane!Sources -> BOOLEAN], Plane!Install(i, built)
    PROVE  /\ registry' \in [Instances -> [Plane!Sources -> BOOLEAN]] /\ registry'[i] = built
           /\ missed' \in [Instances -> SUBSET (Plane!Views \cup {"runtime"})]
           /\ \A j \in Instances : j # i => registry'[j] = registry[j] /\ missed'[j] = missed[j]
           /\ \/ "runtime" \in missed'[i]
              \/ \A s \in Plane!Sources : built[s]
              \/ "runtime" \notin missed[i] /\ \A s \in Plane!Sources : registry[i][s] => built[s]
<1>1. registry' = [registry EXCEPT ![i] = built]
  BY DEF Plane!Install
<1>2. \E m \in {missed[i] \ {"runtime"}, missed[i] \cup {"runtime"}, missed[i]} :
        /\ missed' = [missed EXCEPT ![i] = m]
        /\ \/ "runtime" \in m
           \/ \A s \in Plane!Sources : built[s]
           \/ "runtime" \notin missed[i] /\ \A s \in Plane!Sources : registry[i][s] => built[s]
  <2>1. CASE \A s \in Plane!Sources : built[s]
    BY <2>1 DEF Plane!Install
  <2>2. CASE ~(\A s \in Plane!Sources : built[s]) /\ \E s \in Plane!Sources : registry[i][s] /\ ~built[s]
    BY <2>2 DEF Plane!Install
  <2>3. CASE /\ ~(\A s \in Plane!Sources : built[s])
             /\ ~(\E s \in Plane!Sources : registry[i][s] /\ ~built[s])
    <3>1. missed' = [missed EXCEPT ![i] = missed[i]]
      BY <2>3 DEF Plane!Install
    <3> QED BY <2>3, <3>1
  <2> QED BY <2>1, <2>2, <2>3
<1>3. missed \in [Instances -> SUBSET (Plane!Views \cup {"runtime"})]
      /\ registry \in [Instances -> [Plane!Sources -> BOOLEAN]]
  BY DEF Typed
<1> QED BY <1>1, <1>2, <1>3

\* Everything is fresh.
LEMMA AllFresh ==
    ASSUME NEW i, \A s \in Plane!Sources : registry'[i][s]
    PROVE  ModelsFine(i)' /\ GroupsFine(i)' /\ SettingsFine(i)' /\ SchedulerFine(i)'
BY DEF ModelsFine, GroupsFine, SettingsFine, SchedulerFine, Plane!Sources

LEMMA BuildRegistryKeeps ==
    ASSUME RuntimeInv, NEW i \in Instances, NEW t \in Plane!Tasks, Plane!BuildRegistry(i, t)
    PROVE  RuntimeInv'
<1> DEFINE q == task[i][t]
           d == [q EXCEPT !.models = FALSE, !.groups = FALSE, !.config = FALSE]
           r == Plane!Continue(d)
           built == [s \in Plane!Sources |-> CASE s = "models" -> models[i]
                                      [] s = "groups" -> q.groups
                                      [] s = "settings" -> q.config
                                      [] s = "scheduler" -> registry[i][s]]
           X == Will(r)
<1>1. Plane!At(i, t, "build") /\ task' = [task EXCEPT ![i][t] = r] /\ Plane!Install(i, built)
  BY DEF Plane!BuildRegistry
<1>2. q \in Job /\ q.todo # <<>>
  BY <1>1, Starting DEF RuntimeInv
<1>3. /\ built \in [Plane!Sources -> BOOLEAN] /\ built["models"] = models[i] /\ built["groups"] = q.groups
      /\ built["settings"] = q.config /\ built["scheduler"] = registry[i]["scheduler"]
  <2>1. q.groups \in BOOLEAN /\ q.config \in BOOLEAN /\ models[i] \in BOOLEAN
        /\ registry[i]["scheduler"] \in BOOLEAN
    BY <1>2 DEF Job, RuntimeInv, Typed, Plane!Sources
  <2> HIDE DEF q
  <2> QED BY <2>1 DEF Plane!Sources
<1> HIDE DEF q, built
<1>4. d \in Job /\ d.todo = q.todo /\ ~d.models /\ ~d.groups /\ ~d.config
  BY <1>2 DEF Job
<1> HIDE DEF d
<1>5. r \in Job /\ r.todo = Tail(q.todo) /\ (Tail(q.todo) = <<>> \/ SameReads(d, r))
  BY <1>2, <1>4, Continued
<1> HIDE DEF r
<1>6. /\ Turns(i, t, r) /\ ListOK(t, r.todo) /\ q.todo[1] = Build /\ t \in Workers
      /\ Passing(Build, Will(q), X)
  <2>1. /\ Turns(i, t, r) /\ ListOK(t, r.todo) /\ Passing(q.todo[1], Will(q), X)
        /\ q.todo[1][1] = "build" /\ q.todo[1] \in StepsOf(t)
    <3>1. Takes(i, t, "build", r)
      BY <1>1, <1>5 DEF Takes, q
    <3> QED BY ONLY RuntimeInv, i \in Instances, t \in Plane!Tasks, <3>1, Worker DEF q
  <2>2. q.todo[1] = Build /\ t \in Workers
    BY <2>1, Kinds
  <2> QED BY <2>1, <2>2
<1>7. Will(q) = {Build} \cup X /\ LoadGroups \notin X /\ X \cap Single = {}
  BY <1>6, StepNames DEF Passing, Asks, Refresh
<1>8. \A e \in Events : Publishes(q, e) => Publishes(r, e)
  BY <1>7 DEF Publishes, Build
<1>9. Told /\ Alone(i, t) /\ task'[i][t] = r
  BY <1>6, <1>8, TurnTold, TurnAlone DEF q
<1>10. /\ registry' \in [Instances -> [Plane!Sources -> BOOLEAN]] /\ registry'[i] = built
       /\ missed' \in [Instances -> SUBSET (Plane!Views \cup {"runtime"})]
       /\ \A j \in Instances : j # i => registry'[j] = registry[j] /\ missed'[j] = missed[j]
       /\ \/ "runtime" \in missed'[i]
          \/ \A s \in Plane!Sources : built[s]
          \/ "runtime" \notin missed[i] /\ \A s \in Plane!Sources : registry[i][s] => built[s]
  BY <1>1, <1>3, Installed DEF RuntimeInv
<1>11. /\ models' = models /\ config' = config /\ groups1' = groups1 /\ groups2' = groups2
       /\ events' = events /\ queued' = queued /\ inbox' = inbox
  BY DEF Plane!BuildRegistry, Plane!channelVars
<1>12. Typed' /\ \A j \in Instances : j # i => Same(j)
  BY <1>10, <1>11 DEF RuntimeInv, Typed, Same, Usable
<1>13. ASSUME "runtime" \notin missed[i], \A s \in Plane!Sources : registry[i][s] => built[s]
       PROVE  ModelsFine(i)' /\ GroupsFine(i)' /\ SettingsFine(i)' /\ SchedulerFine(i)'
  <2>1. ModelsFine(i) /\ GroupsFine(i) /\ SettingsFine(i) /\ SchedulerFine(i)
    BY <1>13, CoveredFine DEF RuntimeInv
  <2>2. /\ Announced("model") => Announced("model")'
        /\ Announced("config") => Announced("config")'
    BY <1>9 DEF Told, Events
  <2>3. /\ registry'[i]["models"] = models[i] /\ registry'[i]["groups"] = q.groups
        /\ registry'[i]["settings"] = q.config /\ registry'[i]["scheduler"] = registry[i]["scheduler"]
        /\ \A s \in {"models", "groups", "settings", "scheduler"} : registry[i][s] => registry'[i][s]
    BY <1>3, <1>10, <1>13 DEF Plane!Sources
  <2>4. BringsModels(q, models[i]) => models[i] \/ BringsModels(r, models[i])
    BY <1>7 DEF BringsModels, LoadModels, LoadGroups, Build
  <2>5. BringsGroups(q, Usable(i)) => q.groups \/ BringsGroups(r, Usable(i))
    BY <1>7 DEF BringsGroups, LoadGroups, QueryGroups, Build, Plane!Uncache
  <2>6. ~BringsConfig(q)
    <3>1. \A e \in Events : \A x \in {<<"load", e>>, <<"apply", e>>} : x \in Single /\ x # Build
      BY DEF Single, Build
    <3> QED BY <1>7, <3>1 DEF BringsConfig
  <2>7. BringsSettings(q) => q.config
    BY DEF BringsSettings
  <2>8. Tunes(q) => Tunes(r)
    BY <1>7 DEF Tunes, Build, Plane!Tune
  <2>9. ModelsBy(i, t) => registry'[i]["models"] \/ ModelsBy(i, t)'
    BY <1>9, <1>11, <2>2, <2>3, <2>4 DEF ModelsBy, q
  <2>10. Usable(i)' = Usable(i)
    BY <1>11 DEF Usable
  <2>11. GroupsBy(i, t) => registry'[i]["groups"] \/ GroupsBy(i, t)'
    BY <1>9, <1>11, <2>2, <2>3, <2>5, <2>10 DEF GroupsBy, q
  <2>12. ConfigBy(i, t) => ConfigBy(i, t)'
    BY <1>9, <1>11, <2>2, <2>6 DEF ConfigBy, q
  <2>13. SettingsBy(i, t) => registry'[i]["settings"] \/ SettingsBy(i, t)'
    BY <2>3, <2>7, <2>12 DEF SettingsBy, q
  <2>14. SchedulerBy(i, t) => SchedulerBy(i, t)'
    BY <1>9, <1>11, <2>8, <2>12 DEF SchedulerBy, q
  <2>15. ModelsFine(i)'
    BY <1>9, <1>11, <2>1, <2>3, <2>9, TurnModels
  <2>16. GroupsFine(i)'
    BY <1>9, <2>1, <2>3, <2>10, <2>11, TurnGroups
  <2>17. SettingsFine(i)'
    BY <1>9, <1>11, <2>1, <2>3, <2>13, TurnSettings
  <2>18. SchedulerFine(i)'
    BY <1>9, <1>11, <2>1, <2>3, <2>14, TurnScheduler
  <2> QED BY <2>15, <2>16, <2>17, <2>18
<1>14. "runtime" \notin missed'[i] => ModelsFine(i)' /\ GroupsFine(i)' /\ SettingsFine(i)' /\ SchedulerFine(i)'
  BY <1>10, <1>13, AllFresh
<1> QED BY <1>6, <1>9, <1>11, <1>12, <1>14, TurnKeeps DEF Workers

LEMMA TuneSchedulerKeeps ==
    ASSUME RuntimeInv, NEW i \in Instances, NEW t \in Plane!Tasks, Plane!TuneScheduler(i, t)
    PROVE  RuntimeInv'
<1> DEFINE q == task[i][t]
           r == Plane!Continue(q)
           built == [registry[i] EXCEPT !["scheduler"] = config[i]]
           X == Will(r)
<1>1. Plane!At(i, t, "tune") /\ task' = [task EXCEPT ![i][t] = r] /\ Plane!Install(i, built)
  BY DEF Plane!TuneScheduler, Plane!Done
<1>2. q \in Job /\ q.todo # <<>>
  BY <1>1, Starting DEF RuntimeInv
<1>3. /\ built \in [Plane!Sources -> BOOLEAN] /\ built["scheduler"] = config[i]
      /\ \A s \in {"models", "groups", "settings"} : built[s] = registry[i][s]
  BY DEF RuntimeInv, Typed, Plane!Sources
<1> HIDE DEF built
<1>5. r \in Job /\ r.todo = Tail(q.todo) /\ (Tail(q.todo) = <<>> \/ SameReads(q, r))
  BY <1>2, Continued
<1> HIDE DEF r, q
<1>6. /\ Turns(i, t, r) /\ ListOK(t, r.todo) /\ q.todo[1] = Plane!Tune /\ t \in Workers
      /\ Passing(Plane!Tune, Will(q), X)
  <2>1. /\ Turns(i, t, r) /\ ListOK(t, r.todo) /\ Passing(q.todo[1], Will(q), X)
        /\ q.todo[1][1] = "tune" /\ q.todo[1] \in StepsOf(t)
    <3>1. Takes(i, t, "tune", r)
      BY <1>1, <1>5 DEF Takes, q
    <3> QED BY ONLY RuntimeInv, i \in Instances, t \in Plane!Tasks, <3>1, Worker DEF q
  <2>2. q.todo[1] = Plane!Tune /\ t \in Workers
    BY <2>1, Kinds
  <2> QED BY <2>1, <2>2
<1>7. /\ Will(q) = {} \/ Will(q) = {Plane!Tune} \cup X
      /\ X # {} => SameReads(q, r)
  BY <1>2, <1>5, <1>6, Rebuilt DEF Passing
<1>8. /\ \A e \in Events : Publishes(q, e) => Publishes(r, e)
      /\ BringsModels(q, models[i]) => BringsModels(r, models[i])
      /\ BringsGroups(q, Usable(i)) => BringsGroups(r, Usable(i))
      /\ BringsConfig(q) => BringsConfig(r)
      /\ BringsSettings(q) => BringsSettings(r)
  <2>1. \A x : x \in Will(q) /\ x # Plane!Tune => x \in X /\ SameReads(q, r)
    BY <1>7
  <2>3. \A x : x \in X => x \in Will(q) \/ Will(q) = {}
    BY <1>7
  <2>2. \A e : \A x \in {<<"publish", e>>, <<"load", e>>, <<"apply", e>>, LoadModels, LoadGroups,
                         QueryGroups, Build, Plane!Uncache} : x # Plane!Tune
    BY DEF Plane!Tune, LoadModels, LoadGroups, QueryGroups, Build, Plane!Uncache
  <2>4. \A e \in Events : Publishes(q, e) => Publishes(r, e)
    BY <2>1, <2>2 DEF Publishes
  <2>5. BringsModels(q, models[i]) => BringsModels(r, models[i])
    BY <2>1, <2>2 DEF BringsModels, SameReads
  <2>6. BringsGroups(q, Usable(i)) => BringsGroups(r, Usable(i))
    BY <2>1, <2>2, <2>3 DEF BringsGroups, SameReads
  <2>7. BringsConfig(q) => BringsConfig(r)
    BY <2>1, <2>2 DEF BringsConfig, SameReads
  <2>8. BringsSettings(q) => BringsSettings(r)
    BY <2>1, <2>2, <2>3 DEF BringsSettings, SameReads
  <2> QED BY <2>4, <2>5, <2>6, <2>7, <2>8
<1>9. Told /\ Alone(i, t) /\ task'[i][t] = r
  BY <1>6, <1>8, TurnTold, TurnAlone DEF q
<1>10. /\ registry' \in [Instances -> [Plane!Sources -> BOOLEAN]] /\ registry'[i] = built
       /\ missed' \in [Instances -> SUBSET (Plane!Views \cup {"runtime"})]
       /\ \A j \in Instances : j # i => registry'[j] = registry[j] /\ missed'[j] = missed[j]
       /\ \/ "runtime" \in missed'[i]
          \/ \A s \in Plane!Sources : built[s]
          \/ "runtime" \notin missed[i] /\ \A s \in Plane!Sources : registry[i][s] => built[s]
  BY <1>1, <1>3, Installed DEF RuntimeInv
<1>11. /\ models' = models /\ config' = config /\ groups1' = groups1 /\ groups2' = groups2
       /\ events' = events /\ queued' = queued /\ inbox' = inbox
  BY DEF Plane!TuneScheduler, Plane!channelVars
<1>12. Typed' /\ \A j \in Instances : j # i => Same(j)
  BY <1>10, <1>11 DEF RuntimeInv, Typed, Same, Usable
<1>13. ASSUME "runtime" \notin missed[i], \A s \in Plane!Sources : registry[i][s] => built[s]
       PROVE  ModelsFine(i)' /\ GroupsFine(i)' /\ SettingsFine(i)' /\ SchedulerFine(i)'
  <2>1. ModelsFine(i) /\ GroupsFine(i) /\ SettingsFine(i) /\ SchedulerFine(i)
    BY <1>13, CoveredFine DEF RuntimeInv
  <2>2. /\ Announced("model") => Announced("model")'
        /\ Announced("config") => Announced("config")'
    BY <1>9 DEF Told, Events
  <2>3. /\ registry'[i]["scheduler"] = config[i]
        /\ \A s \in {"models", "groups", "settings", "scheduler"} : registry[i][s] => registry'[i][s]
    BY <1>3, <1>10, <1>13 DEF Plane!Sources
  <2>10. Usable(i)' = Usable(i)
    BY <1>11 DEF Usable
  <2>9. ModelsBy(i, t) => ModelsBy(i, t)'
    BY <1>8, <1>9, <1>11, <2>2 DEF ModelsBy, q
  <2>11. GroupsBy(i, t) => GroupsBy(i, t)'
    BY <1>8, <1>9, <1>11, <2>2, <2>10 DEF GroupsBy, q
  <2>12. ConfigBy(i, t) => ConfigBy(i, t)'
    BY <1>8, <1>9, <1>11, <2>2 DEF ConfigBy, q
  <2>13. SettingsBy(i, t) => SettingsBy(i, t)'
    BY <1>8, <1>9, <2>12 DEF SettingsBy, q
  <2>14. SchedulerBy(i, t) => registry'[i]["scheduler"] \/ SchedulerBy(i, t)'
    BY <2>3, <2>12 DEF SchedulerBy
  <2>15. ModelsFine(i)'
    BY <1>9, <1>11, <2>1, <2>3, <2>9, TurnModels
  <2>16. GroupsFine(i)'
    BY <1>9, <2>1, <2>3, <2>10, <2>11, TurnGroups
  <2>17. SettingsFine(i)'
    BY <1>9, <1>11, <2>1, <2>3, <2>13, TurnSettings
  <2>18. SchedulerFine(i)'
    BY <1>9, <1>11, <2>1, <2>3, <2>14, TurnScheduler
  <2> QED BY <2>15, <2>16, <2>17, <2>18
<1>14. "runtime" \notin missed'[i] => ModelsFine(i)' /\ GroupsFine(i)' /\ SettingsFine(i)' /\ SchedulerFine(i)'
  BY <1>10, <1>13, AllFresh
<1> QED BY <1>6, <1>9, <1>11, <1>12, <1>14, TurnKeeps DEF Workers

\* A message goes out: who follows hears of it, who does not has missed it.
LEMMA PublishEventKeeps ==
    ASSUME RuntimeInv, NEW i \in Instances, NEW t \in Plane!Tasks, Plane!PublishEvent(i, t)
    PROVE  RuntimeInv'
<1> DEFINE q == task[i][t]
           r == Plane!Continue(q)
           X == Will(r)
           e == Plane!What(i, t)
<1>1. Plane!At(i, t, "publish") /\ task' = [task EXCEPT ![i][t] = r]
  BY DEF Plane!PublishEvent, Plane!Done
<1>2. q \in Job /\ q.todo # <<>>
  BY <1>1, Starting DEF RuntimeInv
<1>3. r \in Job /\ r.todo = Tail(q.todo) /\ (Tail(q.todo) = <<>> \/ SameReads(q, r))
  BY <1>2, Continued
<1> HIDE DEF r
<1>4. /\ Turns(i, t, r) /\ ListOK(t, r.todo) /\ t = "admin" /\ e \in Events
      /\ Passing(<<"publish", e>>, Will(q), X)
  <2>1. /\ Turns(i, t, r) /\ ListOK(t, r.todo) /\ Passing(q.todo[1], Will(q), X)
        /\ q.todo[1][1] = "publish" /\ q.todo[1] \in StepsOf(t)
    <3>1. Takes(i, t, "publish", r)
      BY <1>1, <1>3 DEF Takes
    <3> QED BY ONLY RuntimeInv, i \in Instances, t \in Plane!Tasks, <3>1, Worker
  <2>2. q.todo[1] \in {<<"publish", x>> : x \in Events} /\ t = "admin"
    BY <2>1, Kinds
  <2>3. e = q.todo[1][2]
    BY <1>1, Starting DEF RuntimeInv
  <2> QED BY <2>1, <2>2, <2>3
<1>5. /\ events' = [j \in Instances |-> IF following[j] THEN events[j] \cup {e} ELSE events[j]]
      /\ missed' = [j \in Instances |-> IF following[j] THEN missed[j] ELSE missed[j] \cup {"runtime"}]
      /\ models' = models /\ config' = config /\ registry' = registry /\ groups1' = groups1
      /\ groups2' = groups2 /\ queued' = queued /\ inbox' = inbox
  BY DEF Plane!PublishEvent, Plane!runtimeVars
<1> HIDE DEF q, e
<1>6. /\ Typed' /\ \A j \in Instances : Usable(j)' = Usable(j)
  BY <1>4, <1>5 DEF RuntimeInv, Typed, Usable
<1>7. /\ Will(q) = {} \/ Will(q) = {<<"publish", e>>} \cup X
      /\ X # {} => SameReads(q, r)
  BY <1>2, <1>3, <1>4, Rebuilt DEF Passing
<1>8. /\ \A x \in Events : x # e => (Announced(x) => Announced(x)')
      /\ BringsSettings(q) => BringsSettings(r)
      /\ Tunes(q) => Tunes(r)
  <2>1. \A x \in Events : x # e => (Publishes(q, x) => Publishes(r, x))
    BY <1>7 DEF Publishes
  <2>2. \A x \in Events : x # e => (Announced(x) => Announced(x)')
    BY <1>4, <2>1 DEF Announced, Turns, Plane!Tasks, q
  <2>3. BringsSettings(q) => BringsSettings(r)
    <3>1. Build # <<"publish", e>>
      BY DEF Build
    <3> QED BY <1>7, <3>1 DEF BringsSettings, SameReads
  <2>4. Tunes(q) => Tunes(r)
    BY <1>7 DEF Tunes, Plane!Tune
  <2> QED BY <2>2, <2>3, <2>4
<1>9. ASSUME NEW j \in Instances, "runtime" \notin missed'[j]
      PROVE  Covered(j)'
  <2>1. "runtime" \notin missed[j] /\ events'[j] = events[j] \cup {e} /\ events'[j] # {}
    BY <1>5, <1>9
  <2>2. ModelsFine(j) /\ GroupsFine(j) /\ SettingsFine(j) /\ SchedulerFine(j)
    BY <2>1, CoveredFine DEF RuntimeInv
  <2>3. Announced("model") => Announced("model")' \/ "model" \in events'[j]
    BY <1>8, <2>1 DEF Events
  <2>4. \A u \in Background : task'[j][u] = task[j][u]
    BY <1>4 DEF Turns, Background, Plane!Tasks
  <2>5. ModelsFine(j)' /\ GroupsFine(j)'
    BY <1>5, <1>6, <2>1, <2>2, <2>3, <2>4 DEF ModelsFine, ModelsComing, GroupsFine, GroupsComing
  <2>6. ConfigComing(j) => ConfigComing(j)'
    BY <1>5, <2>1 DEF ConfigComing
  <2>7. \A u \in Workers : /\ BringsSettings(task[j][u]) => BringsSettings(task'[j][u])
                           /\ Tunes(task[j][u]) => Tunes(task'[j][u])
    BY <1>4, <1>8 DEF Turns, Workers, Plane!Tasks, q
  <2>8. SettingsFine(j)' /\ SchedulerFine(j)'
    BY <1>5, <2>2, <2>6, <2>7 DEF SettingsFine, SettingsComing, SchedulerFine, SchedulerComing
  <2> QED BY <2>5, <2>8, CoveredFine
<1>10. \A j \in Instances : Covered(j)'
  BY <1>9, CoveredFine
<1>11. Listed' /\ Waiting'
  BY <1>4, <1>5, StillListed DEF RuntimeInv
<1> QED BY <1>6, <1>10, <1>11 DEF RuntimeInv

LEMMA PublishFailsKeeps ==
    ASSUME RuntimeInv, NEW i \in Instances, NEW t \in Plane!Tasks, Plane!PublishFails(i, t)
    PROVE  RuntimeInv'
<1> DEFINE r == Plane!Continue(task[i][t])
<1>1. Plane!At(i, t, "publish") /\ task' = [task EXCEPT ![i][t] = r]
  BY DEF Plane!PublishFails, Plane!Done
<1>2. r \in Job /\ r.todo = Tail(task[i][t].todo)
  BY <1>1, Starting, Continued DEF RuntimeInv
<1> HIDE DEF r
<1>3. Turns(i, t, r) /\ ListOK(t, r.todo) /\ t = "admin"
  <2>1. /\ Turns(i, t, r) /\ ListOK(t, r.todo)
        /\ task[i][t].todo[1][1] = "publish" /\ task[i][t].todo[1] \in StepsOf(t)
    <3>1. Takes(i, t, "publish", r)
      BY <1>1, <1>2 DEF Takes
    <3> QED BY ONLY RuntimeInv, i \in Instances, t \in Plane!Tasks, <3>1, Worker
  <2> QED BY <2>1, Kinds
<1>4. Typed' /\ queued' = queued /\ \A j \in Instances : "runtime" \in missed'[j]
  BY DEF Plane!PublishFails, RuntimeInv, Typed, Plane!runtimeVars, Plane!channelVars
<1> QED BY <1>3, <1>4, TurnKeeps

LEMMA FollowCatalogKeeps ==
    ASSUME RuntimeInv, NEW i \in Instances, NEW t \in Plane!Tasks, Plane!FollowCatalog(i, t)
    PROVE  RuntimeInv'
<1> DEFINE q == task[i][t]
           x == Tail(q.todo)
           f == <<"follow", "targets">>
           h == <<<<"write", "targets">>>> \o Plane!ReloadTargets
<1>1. Plane!At(i, t, "follow")
  BY DEF Plane!FollowCatalog
<1>2. Steady
  BY DEF Plane!FollowCatalog, RuntimeInv, Typed, Steady, Plane!runtimeVars, Plane!channelVars
<1>3. CASE Plane!Done(i, t)
  BY <1>1, <1>2, <1>3, DoneKeeps DEF VitalOps
<1>4. CASE task' = [task EXCEPT ![i][t].todo = h \o x]
  <2>1. /\ q \in Job /\ q.todo # <<>> /\ q.todo[1] = f /\ t = "admin" /\ q.todo \in Seq(StepsOf(t)) /\ Ordered(q.todo)
    BY <1>1, Starting, Kinds DEF RuntimeInv
  <2>2. x \in Seq(StepsOf(t)) /\ Ordered(x) /\ Asks(f, On(x)) /\ On(q.todo) = {f} \cup On(x)
    BY <2>1, Beginning, Shortened
  <2>3. h \in Seq(Calm) /\ On(h) \cap (Vital \cup {Plane!Check}) = {}
    <3> DEFINE a == <<"write", "targets">>
               b == Plane!InvalidateLocal("targets")
               n == Plane!Notify("targets")
    <3>1. b \in Seq(Calm) /\ a \in Calm /\ n \in Calm
      BY CalmSteps DEF Plane!Views, Plane!Write
    <3>2. {a, n} \cap (Vital \cup {Plane!Check}) = {} /\ On(b) \cap (Vital \cup {Plane!Check}) = {}
      <4>1. a \notin Vital /\ n \notin Vital /\ \A s \in On(b) : s \notin Vital
        BY NotVital DEF On, Plane!InvalidateLocal, Plane!Notify, VitalOps
      <4>2. Plane!Check \notin On(b)
        BY Checks DEF Plane!Views
      <4> QED BY <4>1, <4>2 DEF Plane!Check, Plane!Notify
    <3> HIDE DEF a, b, n
    <3>3. <<n>> \in Seq(Calm) /\ On(<<n>>) = {n} /\ <<a>> \in Seq(Calm) /\ On(<<a>>) = {a}
      BY <3>1 DEF On
    <3> DEFINE l == <<n>>
               k == <<a>>
    <3>7. l \in Seq(Calm) /\ On(l) = {n} /\ k \in Seq(Calm) /\ On(k) = {a}
      BY <3>3
    <3> HIDE DEF l, k
    <3>4. b \o l \in Seq(Calm) /\ On(b \o l) = On(b) \cup {n}
      BY <3>1, <3>7, Joined
    <3> DEFINE m == b \o l
    <3>8. m \in Seq(Calm) /\ On(m) = On(b) \cup {n}
      BY <3>4
    <3> HIDE DEF m
    <3>5. k \o m \in Seq(Calm) /\ On(k \o m) = {a} \cup On(m)
      BY <3>7, <3>8, Joined
    <3>6. h = k \o m
      BY DEF Plane!ReloadTargets, a, b, n, k, l, m
    <3> QED BY <3>2, <3>5, <3>6, <3>8
  <2>4. On(x) \cap Single = {}
    BY <2>2 DEF Asks
  <2> HIDE DEF h, x
  <2>5. h \o x \in Seq(StepsOf(t)) /\ Ordered(h \o x) /\ On(h \o x) = On(h) \cup On(x)
    <3>1. Calm \subseteq StepsOf(t)
      BY <2>1 DEF StepsOf
    <3> QED BY ONLY <2>2, <2>3, <2>4, <3>1, CalmThen
  <2> DEFINE p == h \o x
  <2>6. ListOK(t, p) /\ task' = [task EXCEPT ![i][t].todo = p] /\ On(p) = On(h) \cup On(x)
    BY <1>4, <2>5 DEF ListOK
  <2> HIDE DEF p
  <2>7. Listed
    BY DEF RuntimeInv
  <2>8. PICK r \in Job : task' = [task EXCEPT ![i][t] = r] /\ r.todo = p /\ SameReads(task[i][t], r)
    BY ONLY <2>6, <2>7, i \in Instances, t \in Plane!Tasks, NewTodo
  <2>9. Turns(i, t, r)
    BY <2>7, <2>8, Turned
  <2>10. Will(r) \cap Vital = Will(q) \cap Vital
    <3>1. f \notin Vital /\ f # Plane!Check
      BY NotVital DEF VitalOps, Plane!Check
    <3> QED BY <2>2, <2>3, <2>6, <2>8, <3>1 DEF Will
  <2>11. Carries(q, r)
    BY <2>8, <2>10 DEF Carries
  <2> QED BY <1>2, <2>1, <2>6, <2>8, <2>9, <2>11, SteadyTurn
<1> QED BY <1>3, <1>4 DEF Plane!FollowCatalog

LEMMA Solo ==
    ASSUME NEW s
    PROVE  On(<<s>>) = {s} /\ (Asks(s, {}) => Ordered(<<s>>)) /\ \A S : s \in S => <<s>> \in Seq(S)
<1> DEFINE p == <<s>>
<1>1. Len(p) = 1 /\ p[1] = s
  OBVIOUS
<1>2. \A S : s \in S => p \in Seq(S)
  OBVIOUS
<1> HIDE DEF p
<1>3. On(p) = {s} /\ Later(p, 1) = {}
  BY <1>1 DEF On, Later
<1> QED BY <1>1, <1>2, <1>3 DEF Ordered, p

LEMMA SingleList ==
    ASSUME NEW t \in Background, NEW s \in Single
    PROVE  /\ ListOK(t, <<s>>) /\ \A q : q.todo = <<s>> => Will(q) = {s}
           /\ t \in Plane!Tasks /\ t # "flush" /\ t \in Workers
<1>1. s \in StepsOf(t) /\ t \in Plane!Tasks /\ t # "flush" /\ t \in Workers
  BY DEF StepsOf, Background, Plane!Tasks, Workers
<1>2. s # Plane!Check /\ s \notin Demanding
  BY StepNames
<1>3. Asks(s, {})
  <2>1. GetOwn \in Demanding /\ Refresh \subseteq Demanding /\ {<<"write", "models">>, <<"write", "groups">>,
          <<"write", "settings">>} \subseteq Demanding
    BY DEF Demanding
  <2>2. {Plane!Uncache, LoadModels, LoadGroups, QueryGroups, StoreGroups, Build} \subseteq Demanding
    BY <2>1 DEF Refresh
  <2> QED BY <1>2, <2>1, <2>2 DEF Asks
<1> DEFINE p == <<s>>
<1>4. p \in Seq(StepsOf(t)) /\ On(p) = {s} /\ Ordered(p)
  BY <1>1, <1>3, Solo
<1> HIDE DEF p
<1>5. ListOK(t, p) /\ \A q : q.todo = p => Will(q) = {s}
  BY <1>2, <1>4 DEF ListOK, Will
<1> QED BY <1>1, <1>5 DEF p

\* The listener takes a message; the poll comes by itself.
LEMMA StartReloadKeeps ==
    ASSUME RuntimeInv, NEW i \in Instances, NEW t \in Background, NEW event \in Events,
           Plane!StartReload(i, t, event)
    PROVE  RuntimeInv'
<1> DEFINE q == task[i][t]
           s == <<"load", event>>
           p == <<s>>
<1>1. s \in Single
  BY DEF Single
<1>2. /\ ListOK(t, p) /\ \A r : r.todo = p => Will(r) = {s}
      /\ t \in Plane!Tasks /\ t # "flush" /\ t \in Workers
  BY <1>1, SingleList
<1>3. Plane!Idle(i, t) /\ task' = [task EXCEPT ![i][t].todo = p]
  BY DEF Plane!StartReload
<1>4. Will(q) = {}
  BY <1>2, <1>3, IdleWill
<1>5. Listed
  BY DEF RuntimeInv
<1> HIDE DEF p
<1>6. PICK r \in Job : task' = [task EXCEPT ![i][t] = r] /\ r.todo = p /\ SameReads(task[i][t], r)
  BY ONLY <1>2, <1>3, <1>5, i \in Instances, NewTodo
<1>7. Turns(i, t, r) /\ Will(r) = {s} /\ ListOK(t, r.todo)
  BY <1>2, <1>5, <1>6, Turned
<1>8. Told /\ Alone(i, t) /\ task'[i][t] = r
  BY <1>2, <1>4, <1>7, TurnTold, TurnAlone DEF Publishes
<1>9. /\ models' = models /\ config' = config /\ registry' = registry /\ groups1' = groups1
      /\ groups2' = groups2 /\ queued' = queued /\ inbox' = inbox /\ missed' = missed
  BY DEF Plane!StartReload, Plane!runtimeVars
<1>10. /\ Typed' /\ \A j \in Instances : j # i => Same(j)
  BY <1>9 DEF Plane!StartReload, RuntimeInv, Typed, Same, Usable
<1>11. \A e \in events[i] : e \in events'[i] \/ e = event
  BY DEF Plane!StartReload, RuntimeInv, Typed
<1>12. ASSUME "runtime" \notin missed'[i]
       PROVE  ModelsFine(i)' /\ GroupsFine(i)' /\ SettingsFine(i)' /\ SchedulerFine(i)'
  <2>1. ModelsFine(i) /\ GroupsFine(i) /\ SettingsFine(i) /\ SchedulerFine(i)
    BY <1>9, <1>12, CoveredFine DEF RuntimeInv
  <2>2. /\ Announced("model") => Announced("model")'
        /\ Announced("config") => Announced("config")'
    BY <1>8 DEF Told, Events
  <2>3. /\ ~BringsModels(q, models[i]) /\ ~BringsGroups(q, Usable(i)) /\ ~BringsConfig(q)
        /\ ~BringsSettings(q) /\ ~Tunes(q)
    BY <1>4 DEF BringsModels, BringsGroups, BringsConfig, BringsSettings, Tunes
  <2>4. /\ event = "model" => \A b : BringsModels(r, b) /\ BringsGroups(r, b)
        /\ BringsConfig(r)
    BY <1>7 DEF BringsModels, BringsGroups, BringsConfig
  <2>5. Usable(i)' = Usable(i)
    BY <1>9 DEF Usable
  <2>6. ModelsBy(i, t) => ModelsBy(i, t)'
    BY <1>8, <1>11, <2>2, <2>3, <2>4 DEF ModelsBy
  <2>7. GroupsBy(i, t) => GroupsBy(i, t)'
    BY <1>8, <1>11, <2>2, <2>3, <2>4 DEF GroupsBy
  <2>8. ConfigBy(i, t) => ConfigBy(i, t)'
    BY <1>8, <1>9, <2>4 DEF ConfigBy
  <2>9. ModelsFine(i)'
    BY <1>2, <1>8, <1>9, <2>1, <2>6, TurnModels
  <2>10. GroupsFine(i)'
    BY <1>2, <1>8, <1>9, <2>1, <2>5, <2>7, TurnGroups
  <2>11. SettingsFine(i)'
    BY <1>2, <1>8, <1>9, <2>1, <2>3, <2>8, TurnSettings DEF SettingsBy
  <2>12. SchedulerFine(i)'
    BY <1>2, <1>8, <1>9, <2>1, <2>3, <2>8, TurnScheduler DEF SchedulerBy
  <2> QED BY <2>9, <2>10, <2>11, <2>12
<1> QED BY <1>2, <1>7, <1>8, <1>9, <1>10, <1>12, TurnKeeps

\* A message or the poll is the whole list of its task.
LEMMA Lonely ==
    ASSUME Listed, NEW i \in Instances, NEW t \in Plane!Tasks, NEW op \in {"load", "apply"}, Plane!At(i, t, op)
    PROVE  /\ t \in Background /\ Plane!What(i, t) \in Events
           /\ task[i][t] \in Job /\ Will(task[i][t]) = {<<op, Plane!What(i, t)>>}
<1> DEFINE q == task[i][t]
           s == q.todo[1]
<1>1. /\ q \in Job /\ q.todo # <<>> /\ s[1] = op /\ s \in StepsOf(t) /\ Plane!What(i, t) = s[2]
      /\ q.todo \in Seq(StepsOf(t)) /\ Ordered(q.todo)
  BY Starting
<1>2. t \in Background /\ s \in {<<op, e>> : e \in Events}
  BY <1>1, Kinds
<1>3. s = <<op, Plane!What(i, t)>> /\ Plane!What(i, t) \in Events /\ s \in Single
  BY <1>1, <1>2 DEF Single
<1>4. On(q.todo) = {s} \cup On(Tail(q.todo)) /\ Asks(s, On(Tail(q.todo)))
  BY <1>1, Shortened
<1>5. On(q.todo) = {s}
  BY <1>3, <1>4 DEF Asks
<1>6. s # Plane!Check
  BY <1>3, StepNames
<1> QED BY <1>1, <1>2, <1>3, <1>5, <1>6 DEF Will

LEMMA LoadConfigKeeps ==
    ASSUME RuntimeInv, NEW i \in Instances, NEW t \in Plane!Tasks, Plane!LoadConfig(i, t)
    PROVE  RuntimeInv'
<1> DEFINE q == task[i][t]
           e == Plane!What(i, t)
           s == <<"apply", e>>
           p == <<s>>
           r == [q EXCEPT !.todo = p, !.config = TRUE]
<1>1. Plane!At(i, t, "load") /\ task' = [task EXCEPT ![i][t] = r]
  BY DEF Plane!LoadConfig
<1>2. t \in Background /\ e \in Events /\ q \in Job /\ Will(q) = {<<"load", e>>}
  BY <1>1, Lonely DEF RuntimeInv
<1> HIDE DEF e, q
<1>3. s \in Single
  BY <1>2 DEF Single
<1>4. /\ ListOK(t, p) /\ (\A x : x.todo = p => Will(x) = {s})
      /\ t \in Plane!Tasks /\ t # "flush" /\ t \in Workers
  BY <1>2, <1>3, SingleList
<1> HIDE DEF p
<1>5. r \in Job /\ r.todo = p /\ r.config
  <2>1. StepsOf(t) \subseteq Steps /\ p \in Seq(StepsOf(t))
    BY <1>4 DEF Steps, ListOK
  <2>2. p \in Seq(Steps)
    BY <2>1
  <2> QED BY <1>2, <2>2 DEF Job
<1> HIDE DEF r
<1>6. Turns(i, t, r) /\ Will(r) = {s} /\ ListOK(t, r.todo)
  BY <1>1, <1>4, <1>5, Turned DEF RuntimeInv
<1>7. \A x \in Events : Publishes(q, x) => Publishes(r, x)
  BY <1>2 DEF Publishes
<1>8. Typed' /\ queued' = queued /\ \A j \in Instances : Same(j)
  BY DEF Plane!LoadConfig, RuntimeInv, Typed, Same, Usable, Plane!runtimeVars, Plane!channelVars
<1>9. Serves(i, t, r)
  <2>1. BringsModels(q, models[i]) => BringsModels(r, models'[i])
    BY <1>2, <1>6 DEF BringsModels, LoadModels, LoadGroups, Build
  <2>2. BringsGroups(q, Usable(i)) => BringsGroups(r, Usable(i)')
    BY <1>2, <1>6 DEF BringsGroups, LoadGroups, Plane!Uncache, QueryGroups, Build
  <2>3. BringsConfig(r)
    BY <1>2, <1>5, <1>6 DEF BringsConfig
  <2>4. ~BringsSettings(q) /\ ~Tunes(q)
    BY <1>2 DEF BringsSettings, Tunes, Build, Plane!Tune
  <2> QED BY <2>1, <2>2, <2>3, <2>4 DEF Serves, q
<1> QED BY <1>4, <1>6, <1>7, <1>8, <1>9, TurnServes DEF q

\* What a message that changes something leads to.
LEMMA Reapplied ==
    ASSUME NEW t \in Background, NEW z, z \in {<<Plane!Tune>>, <<>>}
    PROVE  LET p == <<Plane!Uncache>> \o Plane!ApplyRuntimeConfig \o z IN
           /\ ListOK(t, p) /\ p \in Seq(Steps)
           /\ \A q : q.todo = p => /\ {Plane!Uncache, LoadModels, LoadGroups, Build} \subseteq Will(q)
                                   /\ <<"get", "config">> \notin Will(q)
                                   /\ z # <<>> => Plane!Tune \in Will(q)
                                   /\ \A e : <<"publish", e>> \notin Will(q)
<1> DEFINE S == StepsOf(t)
           v == Plane!InvalidateLocal("targets")
           m == v \o z
           a == Plane!ApplyRuntimeConfig
           u == Plane!Uncache
           h == <<u>>
           l == Loading(m)
           B == Calm \cup Refresh
<1>1. /\ t \in Plane!Tasks /\ Refresh \subseteq S /\ Plane!Tune \in S /\ Plane!Tune \in Calm /\ u \in Refresh /\ u \in B
      /\ v \in Seq(S)
  <2>1. t \in Plane!Tasks /\ t \notin {"admin", "flush"}
    BY DEF Background, Plane!Tasks
  <2>2. Refresh \subseteq S /\ Plane!Tune \in S /\ \A op \in {"lock", "read", "install"} : <<op, "targets">> \in S
    BY <2>1 DEF StepsOf, Reloading, Plane!Views
  <2>3. Plane!Tune \in Calm /\ u \in Refresh
    BY DEF Calm, Refresh
  <2>4. v \in Seq(S)
    <3> HIDE DEF S
    <3> QED BY <2>2 DEF Plane!InvalidateLocal
  <2> QED BY <2>1, <2>2, <2>3, <2>4
<1>2. /\ z \in Seq(Calm) /\ z \in Seq(S) /\ Plane!Check \notin On(z) /\ <<"get", "config">> \notin On(z)
      /\ z # <<>> => Plane!Tune \in On(z)
  <2>1. <<>> \in Seq(Calm) /\ <<>> \in Seq(S) /\ On(<<>>) = {}
    BY Nothing
  <2> DEFINE k == <<Plane!Tune>>
  <2>2. k \in Seq(Calm) /\ k \in Seq(S) /\ On(k) = {Plane!Tune}
    BY <1>1, Solo
  <2>3. Plane!Tune # Plane!Check /\ Plane!Tune # <<"get", "config">>
    BY DEF Plane!Tune, Plane!Check
  <2> HIDE DEF k
  <2>4. z = <<>> \/ z = k
    BY DEF k
  <2> QED BY <2>1, <2>2, <2>3, <2>4
<1>3. /\ m \in Seq(Calm) /\ Plane!Check \notin On(m) /\ On(m) = On(v) \cup On(z) /\ a \o z = l /\ a \in Seq(B)
  BY <1>2, Reconfigures
<1>4. <<"get", "config">> \notin On(v) /\ v \in Seq(Calm)
  BY Checks, CalmSteps DEF Plane!Views
<1>5. m \in Seq(S)
  <2> HIDE DEF v
  <2> QED BY <1>1, <1>2, Joined
<1> HIDE DEF m, S
<1>6. /\ l \in Seq(S) /\ Ordered(l) /\ Plane!Check \notin On(l) /\ On(l) \cap Single = {}
      /\ On(l) = {LoadModels, LoadGroups, Build} \cup On(m)
  BY <1>1, <1>3, <1>5, Loaded
<1>7. Asks(u, On(l)) /\ u \in S /\ u # Plane!Check
  BY <1>1, <1>6, StepNames DEF Asks, Refresh, S
<1> DEFINE c == Cons(u, l)
<1> HIDE DEF l
<1>8. c \in Seq(S) /\ On(c) = {u} \cup On(l) /\ Ordered(c)
  <2>1. u \in S /\ l \in Seq(S) /\ Ordered(l) /\ Asks(u, On(l))
    BY <1>6, <1>7
  <2> HIDE DEF u
  <2> QED BY ONLY <2>1, Prefixed
<1>9. (h \o a) \o z = c
  <2>1. h \in Seq(B) /\ z \in Seq(B) /\ a \in Seq(B)
    BY <1>1, <1>2, <1>3, Solo
  <2> HIDE DEF h, a, B
  <2>2. (h \o a) \o z = h \o (a \o z)
    BY ONLY <2>1, ConcatAssociative
  <2> QED BY <1>3, <2>2 DEF Cons, h
<1>10. c \in Seq(Steps)
  <2>1. S \subseteq Steps
    BY <1>1 DEF Steps, S
  <2> HIDE DEF c
  <2> QED BY <1>8, <2>1
<1>11. \A e : <<"publish", e>> \notin S
  BY DEF S, StepsOf, Background, Single, Refresh, Reloading, LoadModels, LoadGroups, QueryGroups, StoreGroups,
     Build, Plane!Uncache, Plane!Tune
<1> HIDE DEF c
<1>13. On(c) \subseteq S
  BY <1>8 DEF On
<1>12. ASSUME NEW q, q.todo = c
       PROVE  /\ {u, LoadModels, LoadGroups, Build} \subseteq Will(q)
              /\ <<"get", "config">> \notin Will(q)
              /\ z # <<>> => Plane!Tune \in Will(q)
              /\ \A e : <<"publish", e>> \notin Will(q)
  <2>1. Will(q) = On(c)
    BY <1>6, <1>7, <1>8, <1>12 DEF Will
  <2>2. <<"get", "config">> \notin {u, LoadModels, LoadGroups, Build}
    BY DEF Plane!Uncache, LoadModels, LoadGroups, Build
  <2> QED BY <1>2, <1>3, <1>4, <1>6, <1>8, <1>11, <1>13, <2>1, <2>2
<1> QED BY <1>8, <1>9, <1>10, <1>12 DEF ListOK, S

LEMMA ApplyConfigKeeps ==
    ASSUME RuntimeInv, NEW i \in Instances, NEW t \in Plane!Tasks, Plane!ApplyConfig(i, t)
    PROVE  RuntimeInv'
<1> DEFINE q == task[i][t]
           e == Plane!What(i, t)
<1>1. Plane!At(i, t, "apply")
  BY DEF Plane!ApplyConfig
<1>2. t \in Background /\ e \in Events /\ q \in Job /\ Will(q) = {<<"apply", e>>} /\ q.config \in BOOLEAN
  BY <1>1, Lonely DEF RuntimeInv, Job
<1> DEFINE N(changed) ==
             IF e = "model" \/ changed
                THEN [q EXCEPT !.todo = <<Plane!Uncache>> \o Plane!ApplyRuntimeConfig
                                          \o IF changed THEN <<Plane!Tune>> ELSE <<>>]
                ELSE Plane!IdleTask
<1>3. PICK changed \in BOOLEAN : /\ (config[i] # q.config) => changed
                                 /\ task' = [task EXCEPT ![i][t] = N(changed)]
  BY DEF Plane!ApplyConfig, Plane!Forced
<1> DEFINE r == N(changed)
<1>10. task' = [task EXCEPT ![i][t] = r]
  BY <1>3
<1>4. /\ config' = [config EXCEPT ![i] = q.config]
      /\ missed' = [missed EXCEPT ![i] = IF config[i] /\ ~q.config THEN @ \cup {"runtime"} ELSE @]
      /\ models' = models /\ registry' = registry /\ groups1' = groups1
      /\ groups2' = groups2 /\ queued' = queued /\ inbox' = inbox /\ events' = events
  BY DEF Plane!ApplyConfig, Plane!channelVars
<1> HIDE DEF q, e
<1>5. /\ Typed' /\ config'[i] = q.config
      /\ \A j \in Instances : j # i => Same(j)
      /\ "runtime" \in missed'[i] \/ ("runtime" \notin missed[i] /\ (config[i] => q.config))
  BY <1>2, <1>4 DEF RuntimeInv, Typed, Same, Usable
<1>6. /\ r \in Job /\ ListOK(t, r.todo)
      /\ \A x : <<"publish", x>> \notin Will(r)
      /\ e = "model" \/ changed =>
           /\ {Plane!Uncache, LoadModels, LoadGroups, Build} \subseteq Will(r)
           /\ <<"get", "config">> \notin Will(r) /\ r.config = q.config
           /\ changed => Plane!Tune \in Will(r)
  <2>1. CASE e = "model" \/ changed
    <3> DEFINE z == IF changed THEN <<Plane!Tune>> ELSE <<>>
               p == <<Plane!Uncache>> \o Plane!ApplyRuntimeConfig \o z
    <3>1. z \in {<<Plane!Tune>>, <<>>} /\ (changed => z # <<>>)
      OBVIOUS
    <3> HIDE DEF z
    <3>2. /\ ListOK(t, p) /\ p \in Seq(Steps)
          /\ \A x : x.todo = p => /\ {Plane!Uncache, LoadModels, LoadGroups, Build} \subseteq Will(x)
                                  /\ <<"get", "config">> \notin Will(x)
                                  /\ z # <<>> => Plane!Tune \in Will(x)
                                  /\ \A y : <<"publish", y>> \notin Will(x)
      BY <1>2, <3>1, Reapplied
    <3>3. r = [q EXCEPT !.todo = p]
      BY <2>1 DEF z, N
    <3> HIDE DEF p
    <3>4. r \in Job /\ r.todo = p /\ r.config = q.config
      BY <1>2, <3>2, <3>3 DEF Job
    <3> QED BY <3>1, <3>2, <3>4
  <2>2. CASE ~(e = "model" \/ changed)
    BY <2>2, IdleNew DEF N
  <2> QED BY <2>1, <2>2
<1> HIDE DEF r, N
<1>7. Turns(i, t, r) /\ t \in Workers /\ t # "flush"
  BY <1>2, <1>6, <1>10, Turned DEF RuntimeInv, Workers, Background
<1>8. Told /\ Alone(i, t) /\ task'[i][t] = r
  BY <1>2, <1>7, TurnTold, TurnAlone DEF Publishes, q
<1>9. ASSUME "runtime" \notin missed'[i]
      PROVE  ModelsFine(i)' /\ GroupsFine(i)' /\ SettingsFine(i)' /\ SchedulerFine(i)'
  <2>0. "runtime" \notin missed[i] /\ (config[i] => q.config)
    BY <1>5, <1>9
  <2>1. ModelsFine(i) /\ GroupsFine(i) /\ SettingsFine(i) /\ SchedulerFine(i)
    BY <2>0, CoveredFine DEF RuntimeInv
  <2>2. /\ Announced("model") => Announced("model")'
        /\ Announced("config") => Announced("config")'
    BY <1>8 DEF Told, Events
  <2>3. Usable(i)' = Usable(i)
    BY <1>4 DEF Usable
  <2>4. BringsModels(q, models[i]) => BringsModels(r, models'[i])
    BY <1>2, <1>6 DEF BringsModels, LoadModels, LoadGroups, Build
  <2>5. BringsGroups(q, Usable(i)) => BringsGroups(r, Usable(i)')
    BY <1>2, <1>6 DEF BringsGroups, LoadGroups, Plane!Uncache, QueryGroups, Build
  <2>6. (BringsConfig(q) => q.config) /\ ~BringsSettings(q) /\ ~Tunes(q)
    BY <1>2 DEF BringsConfig, BringsSettings, Tunes, Build, Plane!Tune
  <2>7. ~config[i] /\ q.config => BringsSettings(r) /\ Tunes(r)
    <3>1. ~config[i] /\ q.config => changed
      BY <1>3
    <3> QED BY <1>6, <3>1 DEF BringsSettings, Tunes
  <2>8. ModelsBy(i, t) => ModelsBy(i, t)'
    BY <1>4, <1>8, <2>2, <2>4 DEF ModelsBy, q
  <2>9. GroupsBy(i, t) => GroupsBy(i, t)'
    BY <1>4, <1>8, <2>2, <2>5 DEF GroupsBy, q
  <2>10. ConfigBy(i, t) => q.config \/ ConfigBy(i, t)'
    BY <1>4, <1>5, <1>8, <2>2, <2>6 DEF ConfigBy, q
  <2>11. SettingsBy(i, t) => SettingsBy(i, t)'
    BY <1>7, <1>8, <2>6, <2>7, <2>10 DEF SettingsBy, q, ConfigBy
  <2>12. SchedulerBy(i, t) => SchedulerBy(i, t)'
    BY <1>5, <1>7, <1>8, <2>6, <2>7, <2>10 DEF SchedulerBy, q, ConfigBy
  <2>13. ~config[i] /\ config'[i] => SettingsBy(i, t)' /\ SchedulerBy(i, t)'
    BY <1>5, <1>7, <1>8, <2>7 DEF SettingsBy, SchedulerBy
  <2>14. config[i] # config'[i] => ~config[i] /\ config'[i]
    BY <1>2, <1>5, <2>0 DEF RuntimeInv, Typed
  <2>15. ModelsFine(i)'
    BY <1>4, <1>8, <2>1, <2>8, TurnModels
  <2>16. GroupsFine(i)'
    BY <1>4, <1>8, <2>1, <2>3, <2>9, TurnGroups
  <2>17. SettingsFine(i)'
    BY <1>4, <1>8, <2>1, <2>11, <2>13, TurnSettings
  <2>18. SchedulerFine(i)'
    BY <1>4, <1>8, <2>1, <2>12, <2>13, <2>14, TurnScheduler
  <2> QED BY <2>15, <2>16, <2>17, <2>18
<1> QED BY <1>4, <1>5, <1>6, <1>7, <1>8, <1>9, TurnKeeps

LEMMA AheadOn ==
    ASSUME Listed, NEW i \in Instances, NEW t \in Plane!Tasks
    PROVE  /\ \A s : Plane!Ahead(i, t, s) <=> s \in On(task[i][t].todo)
           /\ Plane!ToSet(task[i][t].todo) = On(task[i][t].todo)
<1> DEFINE p == task[i][t].todo
<1>1. p \in Seq(StepsOf(t))
  BY Starting
<1> HIDE DEF p
<1>2. DOMAIN p = 1..Len(p)
  BY <1>1
<1>3. Plane!ToSet(p) = On(p)
  BY <1>2 DEF Plane!ToSet, On
<1> QED BY <1>3 DEF Plane!Ahead, p

\* Every step of a reload has the build behind it.
LEMMA Behind ==
    ASSUME NEW p, Ordered(p), NEW x \in On(p), x \in Refresh
    PROVE  Build \in On(p)
<1>1. PICK k \in 1..Len(p) : p[k] = x
  BY DEF On
<1>2. CASE x # Build
  <2>1. Build \in Later(p, k)
    BY <1>1, <1>2 DEF Ordered, Asks
  <2> QED BY <2>1 DEF Later, On
<1> QED BY <1>2

\* An exception ends the task: its subscribers that are left still run.
LEMMA FailKeeps ==
    ASSUME RuntimeInv, NEW i \in Instances, NEW t \in Plane!Tasks, Plane!Fail(i, t),
           models' = models, config' = config, registry' = registry, groups1' = groups1,
           groups2' = groups2, queued' = queued, inbox' = inbox, events' = events
    PROVE  RuntimeInv'
<1> DEFINE q == task[i][t]
           O == On(q.todo)
           a == IF Plane!Ahead(i, t, Plane!Tune) THEN <<Plane!Tune>> ELSE <<>>
           b == IF Plane!Ahead(i, t, <<"publish", "config">>) THEN <<<<"publish", "config">>>> ELSE <<>>
           rest == a \o b
           r == IF rest = <<>> \/ Plane!At(i, t, "write") THEN Plane!IdleTask
                ELSE [Plane!IdleTask EXCEPT !.todo = rest]
<1>0. Typed /\ Listed /\ Waiting
  BY DEF RuntimeInv
<1>1. task' = [task EXCEPT ![i][t] = r]
  BY DEF Plane!Fail
<1>2. q \in Job /\ q.todo \in Seq(StepsOf(t)) /\ Ordered(q.todo)
  BY <1>0, Starting
<1>3. (\A s : Plane!Ahead(i, t, s) <=> s \in O) /\ Plane!ToSet(q.todo) = O
  BY <1>0, AheadOn
<1>4. O \subseteq StepsOf(t)
  BY <1>2 DEF On
<1>5. r \in Job /\ ListOK(t, r.todo) /\ On(r.todo) \subseteq O
  <2> DEFINE S == Calm \cap O
  <2>1. Plane!Tune \in Calm /\ <<"publish", "config">> \in Calm
    BY CalmSteps
  <2> HIDE DEF q, O
  <2>2. a \in Seq(S) /\ b \in Seq(S)
    BY <1>3, <2>1, Solo, Nothing
  <2> HIDE DEF a, b, S
  <2>3. rest \in Seq(S)
    BY <2>2
  <2> HIDE DEF rest
  <2>4. rest \in Seq(Calm) /\ rest \in Seq(StepsOf(t)) /\ rest \in Seq(Steps)
    <3>1. S \subseteq Calm /\ S \subseteq StepsOf(t) /\ StepsOf(t) \subseteq Steps
      BY <1>4 DEF S, Steps
    <3> QED BY <2>3, <3>1
  <2>5. Ordered(rest)
    BY <2>4, CalmOnly
  <2>6. On(rest) \subseteq O
    BY <2>3 DEF On, S
  <2>7. CASE r = Plane!IdleTask
    BY <2>7, IdleNew, Nothing
  <2>8. CASE r = [Plane!IdleTask EXCEPT !.todo = rest]
    <3>1. r \in Job /\ r.todo = rest
      BY <2>4, <2>8 DEF Job, Plane!IdleTask
    <3> QED BY <2>4, <2>5, <2>6, <3>1 DEF ListOK
  <2> QED BY <2>7, <2>8
<1> HIDE DEF r
<1>6. Turns(i, t, r)
  BY <1>0, <1>1, <1>5, Turned
<1>7. /\ missed' = [j \in Instances |-> missed[j] \cup Plane!Unheard(i, t, j)]
      /\ \A j \in Instances : Plane!Unheard(i, t, j) \subseteq Plane!Views \cup {"runtime"}
  BY DEF Plane!Fail, Plane!Unheard
<1>8. Typed' /\ \A j \in Instances : Same(j)
  BY <1>0, <1>7 DEF Typed, Same, Usable
<1>9. <<"publish", "model">> \in O \/ <<"publish", "config">> \in O
        => \A j \in Instances : "runtime" \in missed'[j]
  BY <1>3, <1>7 DEF Plane!Unheard
<1>10. (\E s \in O : s[1] \in {"load", "apply", "build", "tune"}) => "runtime" \in missed'[i]
  BY <1>3, <1>7 DEF Plane!Unheard
<1>11. CASE <<"publish", "model">> \in O \/ <<"publish", "config">> \in O
  BY <1>5, <1>6, <1>8, <1>9, <1>11, TurnKeeps
<1>12. CASE ~(<<"publish", "model">> \in O \/ <<"publish", "config">> \in O)
  <2>0. Will(q) \subseteq O
    BY DEF Will
  <2>1. \A e \in Events : ~Publishes(q, e)
    BY <1>12, <2>0 DEF Publishes, Events
  <2>2. ASSUME "runtime" \notin missed'[i] PROVE Serves(i, t, r)
    <3>1. \A s \in O : s[1] \notin {"load", "apply", "build", "tune"}
      BY <1>10, <2>2
    <3>2. \A x \in Refresh : x \notin O
      <4>1. Build \notin O
        BY <3>1 DEF Build
      <4> QED BY <1>2, <4>1, Behind
    <3>3. /\ \A e : <<"load", e>> \notin O /\ <<"apply", e>> \notin O
          /\ Plane!Tune \notin O
      BY <3>1 DEF Plane!Tune
    <3>4. /\ ~BringsModels(q, models[i]) /\ ~BringsGroups(q, Usable(i)) /\ ~BringsConfig(q)
          /\ ~BringsSettings(q) /\ ~Tunes(q)
      BY <2>0, <3>2, <3>3 DEF BringsModels, BringsGroups, BringsConfig, BringsSettings, Tunes, Refresh
    <3> QED BY <3>4 DEF Serves
  <2> QED BY <1>5, <1>6, <1>8, <2>1, <2>2, TurnServes
<1> QED BY <1>11, <1>12

LEMMA TaskFailsKeeps ==
    ASSUME RuntimeInv, NEW i \in Instances, NEW t \in Plane!Tasks, Plane!TaskFails(i, t)
    PROVE  RuntimeInv'
BY FailKeeps DEF Plane!TaskFails, Plane!runtimeVars, Plane!channelVars

LEMMA DropFailsKeeps ==
    ASSUME RuntimeInv, NEW i \in Instances, Plane!DropFails(i)
    PROVE  RuntimeInv'
<1>1. "admin" \in Plane!Tasks /\ Plane!At(i, "admin", "drop")
  BY DEF Plane!Tasks, Plane!DropFails
<1>2. CASE Plane!Fail(i, "admin")
  BY <1>1, <1>2, FailKeeps DEF Plane!DropFails, Plane!runtimeVars, Plane!channelVars
<1>3. CASE Plane!Done(i, "admin") /\ missed' = missed
  <2>1. Steady
    BY <1>3 DEF Plane!DropFails, RuntimeInv, Typed, Steady, Plane!runtimeVars, Plane!channelVars
  <2> QED BY <1>1, <1>3, <2>1, DoneKeeps DEF VitalOps
<1> QED BY <1>2, <1>3 DEF Plane!DropFails

\* The instance starts from the tables; what it was about to announce is missed.
LEMMA RestartKeeps ==
    ASSUME RuntimeInv, NEW i \in Instances, Plane!Restart(i)
    PROVE  RuntimeInv'
<1>0. Typed /\ Listed /\ Waiting /\ "admin" \in Plane!Tasks /\ "flush" \in Plane!Tasks
  BY DEF RuntimeInv, Plane!Tasks
<1>1. /\ task' = [task EXCEPT ![i] = [t \in Plane!Tasks |-> Plane!IdleTask]]
      /\ \A j \in Instances : j # i => task'[j] = task[j]
      /\ \A t \in Plane!Tasks : task'[i][t] = Plane!IdleTask
  BY <1>0 DEF Plane!Restart, Listed
<1>2. Listed'
  BY <1>0, <1>1, IdleNew DEF Listed
<1>3. \A j \in Instances, t \in Plane!Tasks : Plane!Unheard(i, t, j) \subseteq Plane!Views \cup {"runtime"}
  BY DEF Plane!Unheard
<1>4. missed' = [j \in Instances |->
                    IF j # i THEN missed[j] \cup UNION {Plane!Unheard(i, t, j) : t \in Plane!Tasks}
                    ELSE {"runtime"} \cap {x \in {"runtime"} : groups2 = "stale"}]
  BY DEF Plane!Restart
<1>5. Typed'
  BY <1>0, <1>3, <1>4 DEF Plane!Restart, Typed, Plane!Cell, Plane!Sources
<1>6. Waiting'
  BY <1>0, <1>1, IdleNew, Nothing DEF Waiting, Plane!Restart, Typed
<1>7. Covered(i)'
  <2>1. "runtime" \in missed'[i] \/ \A s \in Plane!Sources : registry'[i][s]
    BY <1>0, <1>4 DEF Plane!Restart, Typed, Plane!Sources
  <2> QED BY <2>1, AllFresh, CoveredFine
<1>8. ASSUME NEW j \in Instances, j # i, "runtime" \notin missed'[j]
      PROVE  Covered(j)'
  <2>1. "runtime" \notin missed[j] /\ "runtime" \notin Plane!Unheard(i, "admin", j)
    BY <1>0, <1>4, <1>8
  <2>2. \A e \in Events : <<"publish", e>> \notin On(task[i]["admin"].todo)
    BY <1>0, <2>1, AheadOn DEF Plane!Unheard, Events
  <2>3. \A e \in Events : ~Publishes(task[i]["admin"], e)
    BY <2>2 DEF Publishes, Will
  <2>4. Told
    BY <1>1, <2>3 DEF Told, Announced
  <2>5. Same(j)
    BY <1>0, <1>8, <2>1 DEF Plane!Restart, Typed, Same, Usable
  <2> QED BY <1>0, <1>1, <1>8, <2>4, <2>5, StillCovered, Unmoved DEF RuntimeInv
<1>9. \A j \in Instances : Covered(j)'
  BY <1>7, <1>8, CoveredFine
<1> QED BY <1>2, <1>5, <1>6, <1>9 DEF RuntimeInv

-----------------------------------------------------------------------------
(* Rows are written: every task's reads of them are stale *)

Reads(q, r, table) ==
    /\ table # "models" => r.models = q.models
    /\ table # "groups" => r.groups = q.groups
    /\ table # "settings" => r.config = q.config

LEMMA Spoiled ==
    ASSUME NEW q \in Job, NEW table, NEW own \in BOOLEAN, own => table = "settings"
    PROVE  /\ Plane!SpoilTask(q, table, own) \in Job
           /\ Plane!SpoilTask(q, table, own).todo = q.todo
           /\ Reads(q, Plane!SpoilTask(q, table, own), table)
<1> DEFINE a == q.snap /\ ~(table \in Plane!Views /\ q.todo # <<>> /\ Head(q.todo)[2] = table)
           b == q.models /\ table # "models"
           c == q.groups /\ table # "groups"
           d == own \/ (q.config /\ table # "settings")
           r == [q EXCEPT !.snap = a, !.models = b, !.groups = c, !.config = d]
<1>1. Plane!SpoilTask(q, table, own) = r
  BY DEF Plane!SpoilTask
<1>2. a \in BOOLEAN /\ b \in BOOLEAN /\ c \in BOOLEAN /\ d \in BOOLEAN
  OBVIOUS
<1>3. /\ table # "models" => b = q.models
      /\ table # "groups" => c = q.groups
      /\ table # "settings" => d = q.config
  BY DEF Job
<1> HIDE DEF a, b, c, d
<1>4. r \in Job /\ r.todo = q.todo /\ r.models = b /\ r.groups = c /\ r.config = d
  BY <1>2 DEF Job
<1> QED BY <1>1, <1>3, <1>4 DEF Reads

\* What a write of the table leaves of a task of instance j.
Left(j, u, table) ==
    /\ task'[j][u] \in Job /\ ListOK(u, task'[j][u].todo)
    /\ On(task'[j][u].todo) \subseteq On(task[j][u].todo)
    /\ Will(task'[j][u]) = {} \/ Reads(task[j][u], task'[j][u], table)

LEMMA Committed ==
    ASSUME Typed, Listed, NEW i \in Instances, NEW op \in {"write", "edit"}, Plane!At(i, "admin", op),
           NEW table, Plane!What(i, "admin") = table, Plane!Commit(i, "admin", table)
    PROVE  /\ Listed'
           /\ \A j \in Instances, u \in Plane!Tasks : Left(j, u, table)
           /\ \A j \in Instances, u \in Plane!Tasks : j # i \/ u # "admin" =>
                  Will(task'[j][u]) = Will(task[j][u]) /\ Reads(task[j][u], task'[j][u], table)
           /\ Passing(<<op, table>>, Will(task[i]["admin"]), Will(task'[i]["admin"]))
           /\ <<op, table>> \in StepsOf("admin")
<1> DEFINE T(j, u) == Plane!SpoilTask(task[j][u], table, <<j, u>> = <<i, "admin">> /\ table = "settings")
           N(j, u) == IF <<j, u>> = <<i, "admin">> THEN Plane!Continue(T(j, u)) ELSE T(j, u)
<1>1. task' = [j \in Instances |-> [u \in Plane!Tasks |-> N(j, u)]]
  BY DEF Plane!Commit
<1>2. ASSUME NEW j \in Instances, NEW u \in Plane!Tasks
      PROVE  /\ task[j][u] \in Job /\ ListOK(u, task[j][u].todo)
             /\ T(j, u) \in Job /\ T(j, u).todo = task[j][u].todo /\ Reads(task[j][u], T(j, u), table)
  <2>1. task[j][u] \in Job /\ ListOK(u, task[j][u].todo)
    BY DEF Listed
  <2> QED BY <2>1, Spoiled
<1>3. "admin" \in Plane!Tasks
  BY DEF Plane!Tasks
<1> DEFINE q == task[i]["admin"]
           d == T(i, "admin")
           r == Plane!Continue(d)
           s == q.todo[1]
<1>4. /\ q.todo # <<>> /\ s[1] = op /\ s[2] = table /\ s \in StepsOf("admin") /\ s # Plane!Check
      /\ s = <<op, table>>
  <2>1. q.todo # <<>> /\ s[1] = op /\ s[2] = table /\ s \in StepsOf("admin")
    BY <1>3, Starting
  <2>2. s # Plane!Check
    BY <2>1 DEF Plane!Check
  <2>3. s = <<op, table>>
    BY <1>3, <2>1, Kinds
  <2> QED BY <2>1, <2>2, <2>3
<1>5. d \in Job /\ d.todo = q.todo /\ Reads(q, d, table) /\ ListOK("admin", q.todo) /\ q \in Job
  BY <1>2, <1>3
<1>20. \A j \in Instances, u \in Plane!Tasks : j # i \/ u # "admin" => N(j, u) = T(j, u)
  OBVIOUS
<1>21. N(i, "admin") = r
  OBVIOUS
<1> HIDE DEF q, d, T
<1>6. r \in Job /\ r.todo = Tail(q.todo) /\ (r.todo = <<>> \/ SameReads(d, r))
  BY <1>4, <1>5, Continued
<1> HIDE DEF r, N
<1>7. ListOK("admin", r.todo) /\ Passing(s, Will(q), Will(r)) /\ On(r.todo) \subseteq On(q.todo)
  BY <1>3, <1>4, <1>5, <1>6, Rest
<1>8. Will(r) = {} \/ Reads(q, r, table)
  <2>1. r.todo = <<>> => Will(r) = {}
    BY Nothing DEF Will
  <2> QED BY <1>5, <1>6, <2>1 DEF SameReads, Reads
<1>9. \A j \in Instances, u \in Plane!Tasks : task'[j][u] = N(j, u)
  BY <1>1
<1>10. \A j \in Instances, u \in Plane!Tasks : N(j, u) \in Job
  BY <1>2, <1>6, <1>20, <1>21
<1>11. \A j \in Instances, u \in Plane!Tasks : j # i \/ u # "admin" =>
         /\ task'[j][u].todo = task[j][u].todo
         /\ Will(task'[j][u]) = Will(task[j][u]) /\ Reads(task[j][u], task'[j][u], table)
  BY <1>2, <1>9, <1>20 DEF Will
<1>12. task'[i]["admin"] = r
  BY <1>3, <1>9, <1>21
<1>13. ASSUME NEW j \in Instances, NEW u \in Plane!Tasks
       PROVE  Left(j, u, table)
  <2>1. CASE j # i \/ u # "admin"
    BY <1>2, <1>9, <1>10, <1>11, <2>1 DEF Left
  <2>2. CASE j = i /\ u = "admin"
    BY <1>6, <1>7, <1>8, <1>12, <2>2 DEF Left, q
  <2> QED BY <2>1, <2>2
<1>14. Listed'
  BY <1>1, <1>9, <1>10, <1>13 DEF Listed, Left
<1> QED BY <1>4, <1>7, <1>11, <1>12, <1>13, <1>14 DEF q

\* The steps that matter are the same before and after a write.
Kept(q, r, table) ==
    /\ Will(r) \cap Vital = Will(q) \cap Vital
    /\ Will(r) = {} \/ Reads(q, r, table)

LEMMA KeptBrings ==
    ASSUME NEW q, NEW r, NEW table, Kept(q, r, table), NEW b
    PROVE  /\ \A e \in Events : Publishes(q, e) => Publishes(r, e)
           /\ Tunes(q) => Tunes(r)
           /\ table # "settings" => /\ BringsConfig(q) => BringsConfig(r)
                                    /\ BringsSettings(q) => BringsSettings(r)
           /\ table = "settings" => /\ BringsModels(q, b) => BringsModels(r, b)
                                    /\ BringsGroups(q, b) => BringsGroups(r, b)
<1> DEFINE W == Will(q)
           X == Will(r)
<1>1. /\ <<"get", "config">> \in Vital
      /\ \A e \in Events : {<<"publish", e>>, <<"load", e>>, <<"apply", e>>} \subseteq Vital
      /\ {<<"load", "model">>, <<"apply", "model">>, LoadModels, LoadGroups, QueryGroups, Build,
          Plane!Uncache, Plane!Tune} \subseteq Vital
  BY DEF Vital, Promising, Single, Events
<1>2. \A x \in Vital : x \in W <=> x \in X
  BY DEF Kept
<1>3. X = {} \/ Reads(q, r, table)
  BY DEF Kept
<1> HIDE DEF W, X
<1>4. (\A e \in Events : Publishes(q, e) => Publishes(r, e)) /\ (Tunes(q) => Tunes(r))
  BY <1>1, <1>2 DEF Publishes, Tunes, W, X
<1>5. table # "settings" => /\ BringsConfig(q) => BringsConfig(r)
                            /\ BringsSettings(q) => BringsSettings(r)
  BY <1>1, <1>2, <1>3 DEF BringsConfig, BringsSettings, Reads, W, X
<1>6. table = "settings" => (BringsModels(q, b) => BringsModels(r, b))
  BY <1>1, <1>2, <1>3 DEF BringsModels, Reads, W, X
<1>7. table = "settings" => (BringsGroups(q, b) => BringsGroups(r, b))
  BY <1>1, <1>2, <1>3 DEF BringsGroups, Reads, W, X
<1> QED BY <1>4, <1>5, <1>6, <1>7

LEMMA CommitKeeps ==
    ASSUME RuntimeInv, NEW i \in Instances, NEW op \in {"write", "edit"}, Plane!At(i, "admin", op),
           NEW table, Plane!What(i, "admin") = table, Plane!Commit(i, "admin", table),
           missed' \in [Instances -> SUBSET (Plane!Views \cup {"runtime"})],
           \A j \in Instances : "runtime" \in missed'[j] <=> "runtime" \in missed[j]
    PROVE  RuntimeInv'
<1> DEFINE s == <<op, table>>
           Q(j, u) == task[j][u]
           R(j, u) == task'[j][u]
<1>0. /\ Typed /\ Listed /\ Waiting /\ (\A j \in Instances : Covered(j))
      /\ "admin" \in Plane!Tasks /\ "flush" \in Plane!Tasks
      /\ Background \subseteq Plane!Tasks /\ Workers \subseteq Plane!Tasks
  BY DEF RuntimeInv, Plane!Tasks, Background, Workers
<1>1. /\ Listed' /\ Passing(s, Will(Q(i, "admin")), Will(R(i, "admin"))) /\ s \in StepsOf("admin")
      /\ \A j \in Instances, u \in Plane!Tasks : Left(j, u, table)
      /\ \A j \in Instances, u \in Plane!Tasks : j # i \/ u # "admin" =>
                  Will(R(j, u)) = Will(Q(j, u)) /\ Reads(Q(j, u), R(j, u), table)
  BY <1>0, Committed
<1>2. /\ s[1] = "write" => s \in {<<"write", x>> : x \in
              {"key", "owner", "gone", "targets", "mcp", "models", "groups", "settings"}}
      /\ s[1] = "edit" => s \in {<<"edit", x>> : x \in {"owner", "mcp"}}
  BY <1>0, <1>1, Kinds
<1>3. /\ table \in {"key", "owner", "gone", "targets", "mcp", "models", "groups", "settings"}
      /\ table \in {"models", "groups", "settings"} => s = <<"write", table>>
  BY <1>2
<1>4. s \notin Vital
  BY NotVital DEF VitalOps
<1>5. /\ models' = [j \in Instances |-> models[j] /\ table # "models"]
      /\ config' = [j \in Instances |-> config[j] /\ table # "settings"]
      /\ registry' = [j \in Instances |-> [x \in Plane!Sources |-> registry[j][x] /\ x \notin Plane!BuiltFrom(table)]]
      /\ groups1' = [j \in Instances |-> IF table = "groups" THEN Plane!Spoil(groups1[j]) ELSE groups1[j]]
      /\ groups2' = IF table = "groups" THEN Plane!Spoil(groups2) ELSE groups2
      /\ queued' = queued /\ inbox' = inbox /\ events' = events
  BY DEF Plane!Commit, Plane!channelVars
<1>6. Typed'
  BY <1>0, <1>5 DEF Typed, Plane!Spoil, Plane!Cell
<1>7. Waiting'
  BY <1>0, <1>1, <1>5 DEF Waiting, Left
<1>8. ASSUME NEW j \in Instances, NEW u \in Plane!Tasks
      PROVE  Kept(Q(j, u), R(j, u), table)
  <2>1. Will(R(j, u)) = {} \/ Reads(Q(j, u), R(j, u), table)
    BY <1>1 DEF Left
  <2>2. CASE j # i \/ u # "admin"
    BY <1>1, <2>2 DEF Kept
  <2>3. CASE j = i /\ u = "admin"
    <3>1. Passing(s, Will(Q(j, u)), Will(R(j, u)))
      BY <1>1, <2>3
    <3> HIDE DEF Q, R, s
    <3> QED BY <1>4, <2>1, <3>1 DEF Kept, Passing
  <2> QED BY <2>2, <2>3
<1>9. Told
  <2>1. \A j \in Instances, e \in Events : Publishes(Q(j, "admin"), e) => Publishes(R(j, "admin"), e)
    BY <1>0, <1>8, KeptBrings
  <2> QED BY <2>1 DEF Told, Announced
<1>10. "model" \in Events /\ "config" \in Events
  BY DEF Events
<1>11. ASSUME NEW j \in Instances, "runtime" \notin missed'[j]
       PROVE  ModelsFine(j) /\ GroupsFine(j) /\ SettingsFine(j) /\ SchedulerFine(j)
  BY <1>0, <1>11, CoveredFine
<1>12. table \in {"models", "groups", "settings"} => s \notin Calm
  BY <1>3 DEF Calm, Plane!Check, Plane!Drop, Plane!DropLogged, Plane!Tune, Reloading
<1>13. table \in {"models", "groups"} => Announced("model")'
  <2>1. table \in {"models", "groups"} => <<"publish", "model">> \in Will(R(i, "admin"))
    BY <1>1, <1>3, <1>12 DEF Passing, Asks
  <2> QED BY <2>1 DEF Announced, Publishes
<1>14. table = "settings" => Announced("config")'
  <2>1. table = "settings" => <<"publish", "config">> \in Will(R(i, "admin"))
    BY <1>1, <1>3, <1>12 DEF Passing, Asks
  <2> QED BY <2>1 DEF Announced, Publishes
<1>15. CASE table \notin {"models", "groups", "settings"}
  <2>1. \A j \in Instances : Same(j)
    <3>1. \A x \in Plane!Sources : x \notin Plane!BuiltFrom(table)
      BY <1>3, <1>15 DEF Plane!Sources, Plane!BuiltFrom
    <3>2. registry' = registry /\ models' = models /\ config' = config /\ groups1' = groups1 /\ groups2' = groups2
      BY <1>0, <1>5, <1>15, <3>1 DEF Typed
    <3> QED BY <1>0, <1>5, <3>2 DEF Same, Typed, Usable
  <2>2. ASSUME NEW j \in Instances, NEW u \in Plane!Tasks
        PROVE  Carries(Q(j, u), R(j, u))
    <3>1. Kept(Q(j, u), R(j, u), table)
      BY <1>8
    <3>2. Promising \subseteq Vital
      BY DEF Vital
    <3> HIDE DEF Q, R
    <3> QED BY <1>15, <3>1, <3>2 DEF Kept, Reads, SameReads, Carries
  <2>3. \A j \in Instances : Covered(j)'
    BY <1>0, <1>9, <2>1, <2>2, StillCovered
  <2> QED BY <1>1, <1>6, <1>7, <2>3 DEF RuntimeInv
<1>16. CASE table \in {"models", "groups"}
  <2>1. ASSUME NEW j \in Instances, "runtime" \notin missed'[j]
        PROVE  ModelsFine(j)' /\ GroupsFine(j)' /\ SettingsFine(j)' /\ SchedulerFine(j)'
    <3>1. ModelsFine(j)' /\ GroupsFine(j)'
      BY <1>13, <1>16 DEF ModelsFine, GroupsFine, ModelsComing, GroupsComing
    <3>2. /\ registry'[j]["settings"] = registry[j]["settings"]
          /\ registry'[j]["scheduler"] = registry[j]["scheduler"]
          /\ config'[j] = config[j] /\ events'[j] = events[j]
      BY <1>0, <1>5, <1>16 DEF Typed, Plane!Sources, Plane!BuiltFrom
    <3>3. \A u \in Plane!Tasks : /\ BringsConfig(Q(j, u)) => BringsConfig(R(j, u))
                                 /\ BringsSettings(Q(j, u)) => BringsSettings(R(j, u))
                                 /\ Tunes(Q(j, u)) => Tunes(R(j, u))
      BY <1>8, <1>16, KeptBrings
    <3>4. Announced("config") => Announced("config")'
      BY <1>9, <1>10 DEF Told
    <3>5. ConfigComing(j) => ConfigComing(j)'
      BY <1>0, <3>2, <3>3, <3>4 DEF ConfigComing
    <3>6. SettingsFine(j)'
      BY <1>0, <1>11, <2>1, <3>2, <3>3, <3>5 DEF SettingsFine, SettingsComing
    <3>7. SchedulerFine(j)'
      BY <1>0, <1>11, <2>1, <3>2, <3>3, <3>5 DEF SchedulerFine, SchedulerComing
    <3> QED BY <3>1, <3>6, <3>7
  <2>2. \A j \in Instances : Covered(j)'
    BY <2>1, CoveredFine
  <2> QED BY <1>1, <1>6, <1>7, <2>2 DEF RuntimeInv
<1>17. CASE table = "settings"
  <2>1. ASSUME NEW j \in Instances, "runtime" \notin missed'[j]
        PROVE  ModelsFine(j)' /\ GroupsFine(j)' /\ SettingsFine(j)' /\ SchedulerFine(j)'
    <3>1. ConfigComing(j)'
      BY <1>5, <1>14, <1>17 DEF ConfigComing
    <3>2. SettingsFine(j)' /\ SchedulerFine(j)'
      BY <3>1 DEF SettingsFine, SettingsComing, SchedulerFine, SchedulerComing
    <3>3. /\ registry'[j]["models"] = registry[j]["models"]
          /\ registry'[j]["groups"] = registry[j]["groups"]
          /\ models'[j] = models[j] /\ events'[j] = events[j] /\ Usable(j)' = Usable(j)
      BY <1>0, <1>5, <1>17 DEF Typed, Plane!Sources, Plane!BuiltFrom, Usable
    <3>4. \A u \in Plane!Tasks : /\ BringsModels(Q(j, u), models[j]) => BringsModels(R(j, u), models[j])
                                 /\ BringsGroups(Q(j, u), Usable(j)) => BringsGroups(R(j, u), Usable(j))
      BY <1>8, <1>17, KeptBrings
    <3>5. Announced("model") => Announced("model")'
      BY <1>9, <1>10 DEF Told
    <3>6. ModelsFine(j)'
      BY <1>0, <1>11, <2>1, <3>3, <3>4, <3>5 DEF ModelsFine, ModelsComing
    <3>7. GroupsFine(j)'
      BY <1>0, <1>11, <2>1, <3>3, <3>4, <3>5 DEF GroupsFine, GroupsComing
    <3> QED BY <3>2, <3>6, <3>7
  <2>2. \A j \in Instances : Covered(j)'
    BY <2>1, CoveredFine
  <2> QED BY <1>1, <1>6, <1>7, <2>2 DEF RuntimeInv
<1> QED BY <1>15, <1>16, <1>17

LEMMA WriteKeeps ==
    ASSUME RuntimeInv, NEW i \in Instances, Plane!WriteRows(i) \/ Plane!EditRows(i)
    PROVE  RuntimeInv'
<1>1. CASE Plane!WriteRows(i)
  <2>1. missed' = missed /\ Plane!At(i, "admin", "write") /\ Plane!Commit(i, "admin", Plane!What(i, "admin"))
    BY <1>1 DEF Plane!WriteRows
  <2>2. missed' \in [Instances -> SUBSET (Plane!Views \cup {"runtime"})]
    BY <2>1 DEF RuntimeInv, Typed
  <2> QED BY <2>1, <2>2, CommitKeeps
<1>2. CASE Plane!EditRows(i)
  <2> DEFINE table == Plane!What(i, "admin")
  <2>1. /\ missed' = [j \in Instances |-> missed[j] \cup ({table} \cap Plane!Views)]
        /\ Plane!At(i, "admin", "edit") /\ Plane!Commit(i, "admin", table)
    BY <1>2 DEF Plane!EditRows
  <2> HIDE DEF table
  <2>2. "runtime" \notin Plane!Views
    BY DEF Plane!Views
  <2>3. /\ missed' \in [Instances -> SUBSET (Plane!Views \cup {"runtime"})]
        /\ \A j \in Instances : "runtime" \in missed'[j] <=> "runtime" \in missed[j]
    BY <2>1, <2>2 DEF RuntimeInv, Typed
  <2> QED BY <2>1, <2>3, CommitKeeps DEF table
<1> QED BY <1>1, <1>2

-----------------------------------------------------------------------------
(* The invariant holds *)

LEMMA RuntimeBegins ==
    ASSUME Plane!Init
    PROVE  RuntimeInv
<1>1. Typed
  BY DEF Plane!Init, Typed, Plane!Cell, Plane!Sources, Plane!Views
<1>2. \A i \in Instances, t \in Plane!Tasks : task[i][t] = Plane!IdleTask
  BY DEF Plane!Init
<1>3. Listed
  BY <1>2, IdleNew DEF Plane!Init, Listed
<1>4. Waiting
  BY <1>2, IdleNew, Nothing DEF Waiting, Plane!Tasks
<1>5. \A i \in Instances : Covered(i)
  BY DEF Plane!Init, Covered, Plane!Sources
<1> QED BY <1>1, <1>3, <1>4, <1>5 DEF RuntimeInv

LEMMA TaskStepKeeps ==
    ASSUME RuntimeInv, NEW i \in Instances, NEW t \in Plane!Tasks, Plane!TaskStep(i, t)
    PROVE  RuntimeInv'
<1>1. CASE Plane!TakeLock(i, t) \/ Plane!ReadTables(i, t) \/ Plane!InstallSnapshot(i, t)
  BY <1>1, TakeLockKeeps, ReadTablesKeeps, InstallSnapshotKeeps
<1>2. CASE Plane!NotifyOthers(i, t)
  BY <1>2, NotifyKeeps
<1>3. CASE Plane!UncacheGroups(i, t, TRUE) \/ Plane!StoreGroups(i, t, TRUE)
  BY <1>3, UncacheGroupsKeeps, StoreGroupsKeeps
<1>4. CASE Plane!GetConfig(i, t) \/ Plane!LoadModels(i, t) \/ Plane!GetGroups(i, t)
  BY <1>4, GetConfigKeeps, LoadModelsKeeps, GetGroupsKeeps
<1>5. CASE Plane!ListRuntimeGroups(i, t) \/ Plane!BuildRegistry(i, t) \/ Plane!TuneScheduler(i, t)
  BY <1>5, ListRuntimeGroupsKeeps, BuildRegistryKeeps, TuneSchedulerKeeps
<1>6. CASE Plane!FollowCatalog(i, t) \/ Plane!PublishEvent(i, t)
  BY <1>6, FollowCatalogKeeps, PublishEventKeeps
<1>7. CASE Plane!LoadConfig(i, t) \/ Plane!ApplyConfig(i, t)
  BY <1>7, LoadConfigKeeps, ApplyConfigKeeps
<1> QED BY <1>1, <1>2, <1>3, <1>4, <1>5, <1>6, <1>7 DEF Plane!TaskStep

LEMMA FaultKeeps ==
    ASSUME RuntimeInv, NEW i \in Instances, Plane!Fault(i)
    PROVE  RuntimeInv'
<1>1. CASE Plane!DropFails(i) \/ Plane!ListenerStops(i) \/ Plane!FollowerStops(i) \/ Plane!Restart(i)
  BY <1>1, DropFailsKeeps, StateKeeps, FollowerStopsKeeps, RestartKeeps
<1>2. ASSUME NEW t \in Plane!Tasks, Plane!NotifyFails(i, t) \/ Plane!UncacheGroups(i, t, FALSE)
      PROVE  RuntimeInv'
  BY <1>2, NotifyKeeps, UncacheGroupsKeeps
<1>3. ASSUME NEW t \in Plane!Tasks,
             Plane!StoreGroups(i, t, FALSE) \/ Plane!PublishFails(i, t) \/ Plane!TaskFails(i, t)
      PROVE  RuntimeInv'
  BY <1>3, StoreGroupsKeeps, PublishFailsKeeps, TaskFailsKeeps
<1> QED BY <1>1, <1>2, <1>3 DEF Plane!Fault

LEMMA RuntimeNext ==
    ASSUME KnownFamilies, RuntimeInv, [Plane!Next]_Plane!vars
    PROVE  RuntimeInv'
<1>1. ASSUME NEW i \in Instances, Plane!StartHandler(i)
      PROVE  RuntimeInv'
  BY <1>1, StartHandlerKeeps
<1>2. ASSUME NEW i \in Instances, Plane!Fault(i)
      PROVE  RuntimeInv'
  BY <1>2, FaultKeeps
<1>3. ASSUME NEW i \in Instances, Plane!TimerFires(i)
      PROVE  RuntimeInv'
  <2>1. CASE Plane!StartReload(i, "poll", "config")
    BY <2>1, StartReloadKeeps DEF Background, Events
  <2> QED BY <1>3, <2>1, GroupsExpireKeeps DEF Plane!TimerFires
<1>4. ASSUME NEW i,
             Plane!RecordExpires \/ Plane!ValidateKey(i) \/ Plane!GetByToken(i) \/ Plane!CacheRecord(i)
      PROVE  RuntimeInv'
  <2>1. Steady /\ task' = task
    BY <1>4 DEF Plane!RecordExpires, Plane!ValidateKey, Plane!GetByToken, Plane!CacheRecord, RuntimeInv,
       Typed, Steady, Plane!runtimeVars, Plane!channelVars
  <2> QED BY <2>1, SteadyState
<1>5. ASSUME NEW i \in Instances, Plane!AdminStep(i)
      PROVE  RuntimeInv'
  BY <1>5, AcceptsKeeps, WriteKeeps, DropRecordsKeeps DEF Plane!AdminStep
<1>6. ASSUME NEW i \in Instances, Plane!FlushRemoteTargets(i) \/ Plane!Subscribe(i)
      PROVE  RuntimeInv'
  BY <1>6, FlushKeeps, StateKeeps
<1>7. ASSUME NEW i \in Instances, NEW v \in Plane!Views, Plane!ReceiveInvalidation(i, v)
      PROVE  RuntimeInv'
  BY <1>7, ReceiveKeeps
<1>8. ASSUME NEW i \in Instances, NEW event \in {"model", "config"}, Plane!StartReload(i, "listener", event)
      PROVE  RuntimeInv'
  BY <1>8, StartReloadKeeps DEF Background, Events
<1>9. ASSUME NEW i \in Instances, NEW t \in Plane!Tasks, Plane!TaskStep(i, t)
      PROVE  RuntimeInv'
  BY <1>9, TaskStepKeeps
<1>10. CASE UNCHANGED Plane!vars
  <2>1. Steady /\ task' = task
    BY <1>10 DEF Plane!vars, RuntimeInv, Typed, Steady
  <2> QED BY <2>1, SteadyState
<1> QED BY <1>1, <1>2, <1>3, <1>4, <1>5, <1>6, <1>7, <1>8, <1>9, <1>10 DEF Plane!Next

\* The invariant says what the property says: something that will be done is
\* a task that is not idle, or a message still to be published.
LEMMA RuntimeCovered ==
    ASSUME RuntimeInv
    PROVE  Plane!RuntimeFollows
<1> SUFFICES ASSUME NEW i \in Instances, NEW s \in Plane!Sources, ~registry[i][s],
                    "runtime" \notin missed[i], events[i] = {},
                    \A t \in Plane!Tasks : Plane!Idle(i, t)
             PROVE  \E j \in Instances : \E e \in {"model", "config"} :
                        Plane!Ahead(j, "admin", <<"publish", e>>)
  BY DEF Plane!RuntimeFollows
<1>1. \A t \in Plane!Tasks : Will(task[i][t]) = {}
  BY IdleWill
<1>2. \A t \in Background \cup Workers : Will(task[i][t]) = {}
  BY <1>1 DEF Background, Workers, Plane!Tasks
<1>3. \A t \in Background : /\ \A b : ~BringsModels(task[i][t], b) /\ ~BringsGroups(task[i][t], b)
                            /\ ~BringsConfig(task[i][t])
  BY <1>2 DEF BringsModels, BringsGroups, BringsConfig
<1>4. \A t \in Workers : ~BringsSettings(task[i][t]) /\ ~Tunes(task[i][t])
  BY <1>2 DEF BringsSettings, Tunes
<1>5. ModelsFine(i) /\ GroupsFine(i) /\ SettingsFine(i) /\ SchedulerFine(i)
  BY CoveredFine DEF RuntimeInv
<1>6. Announced("model") \/ Announced("config")
  BY <1>3, <1>4, <1>5 DEF ModelsFine, GroupsFine, SettingsFine, SchedulerFine, ModelsComing, GroupsComing,
     SettingsComing, SchedulerComing, ConfigComing, Plane!Sources
<1>7. PICK j \in Instances, e \in Events : Publishes(task[j]["admin"], e)
  BY <1>6 DEF Announced, Events
<1>8. Plane!Ahead(j, "admin", <<"publish", e>>)
  BY <1>7, AheadOn DEF RuntimeInv, Publishes, Will, Plane!Tasks
<1> QED BY <1>8 DEF Events

\* RuntimeInv holds in every reachable state, for every set of instances and
\* of faults (config_runtime/models.py, config_runtime/dynamic.py).
THEOREM RuntimeInvariance ==
    ASSUME KnownFamilies
    PROVE  Plane!SafetySpec => []RuntimeInv
<1>1. RuntimeInv /\ [Plane!Next]_Plane!vars => RuntimeInv'
  BY RuntimeNext
<1> QED BY <1>1, RuntimeBegins, PTL DEF Plane!SafetySpec

\* A router or batch scheduler set up from rows or settings no longer in force
\* will be set up again, whatever handlers, reloads and polls overlap, unless
\* a fault or an overtaken reload took that (config_runtime/dynamic.py).
THEOREM RuntimeSafe ==
    ASSUME KnownFamilies
    PROVE  Plane!SafetySpec => []Plane!RuntimeFollows
BY RuntimeInvariance, RuntimeCovered, PTL
=============================================================================
