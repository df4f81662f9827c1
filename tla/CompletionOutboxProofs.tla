----------------------- MODULE CompletionOutboxProofs -----------------------
(***************************************************************************)
(* Safety of the completion outbox for every set of completions and        *)
(* workers and every value of the limits.  IndInv is inductive; each       *)
(* action is taken in turn.                                                *)
(***************************************************************************)
EXTENDS CompletionOutbox, TLAPS

LEMMA InitInv == Init => IndInv
BY ConstantsAssumption DEF Init, IndInv, TypeOK, LedgerMatchesEvents, OnePublisher,
   PublishedOnlySent, FenceNamesTheClaim, GivesUpAfterBudget, Status, Settled, Lease

\* A record keeps its id and its claim when it moves to another step.
LEMMA MoveRecord ==
  ASSUME NEW r \in Records, NEW s \in Steps
  PROVE  /\ [r EXCEPT !.step = s] \in Records
         /\ [r EXCEPT !.step = s].id = r.id
         /\ [r EXCEPT !.step = s].attempt = r.attempt
         /\ [r EXCEPT !.step = s].step = s
BY DEF Records

\* Replacing a record of w by records R.
LEMMA ReplaceRecords ==
  ASSUME TypeOK, NEW w \in Workers, NEW r \in records[w],
         NEW R \in SUBSET Records, Replace(w, r, R)
  PROVE  /\ records' \in [Workers -> SUBSET Records]
         /\ records'[w] = (records[w] \ {r}) \cup R
         /\ \A v \in Workers : v # w => records'[v] = records[v]
BY DEF TypeOK, Replace

\* What a mark does to the rows.
LEMMA MarkRows ==
  ASSUME TypeOK, NEW w \in Workers, NEW c \in Completions,
         NEW to \in {"sent", "failed", "retrying"}, NEW isDue \in BOOLEAN,
         Mark(w, c, to, isDue)
  PROVE  /\ status' \in [Completions -> Status]
         /\ lockedBy' \in [Completions -> Workers \cup {NoWorker}]
         /\ lease' \in [Completions -> Lease]
         /\ due' \in [Completions -> BOOLEAN]
         /\ attempts' = attempts
         /\ Owned(w, c) => status'[c] = to
         /\ ~ Owned(w, c) => status' = status
         /\ \A d \in Completions : d # c => status'[d] = status[d]
         /\ \A v \in Workers, d \in Completions : Owned(v, d)' => Owned(v, d)
<1>1. CASE Owned(w, c)
  BY <1>1 DEF TypeOK, Mark, Status, Settled, Lease, Owned
<1>2. CASE ~ Owned(w, c)
  BY <1>2 DEF TypeOK, Mark, Owned, rowVars
<1> QED BY <1>1, <1>2

\* What a claim does to the rows.
LEMMA ClaimRows ==
  ASSUME TypeOK, NEW w \in Workers, NEW S \in SUBSET Completions, ClaimDue(w, S)
  PROVE  /\ status' \in [Completions -> Status]
         /\ lockedBy' \in [Completions -> Workers \cup {NoWorker}]
         /\ lease' \in [Completions -> Lease]
         /\ due' = due
         /\ attempts' \in [Completions -> Nat]
         /\ \A c \in Completions :
              /\ attempts'[c] >= attempts[c]
              /\ status[c] \in Settled =>
                   status'[c] = status[c] /\ attempts'[c] = attempts[c]
              /\ status[c] \notin Settled => status'[c] \notin Settled
              /\ c \in S => attempts'[c] = attempts[c] + 1 /\ lockedBy'[c] = w
              /\ c \notin S => /\ attempts'[c] = attempts[c]
                               /\ status'[c] = status[c]
                               /\ lockedBy'[c] = lockedBy[c]
BY DEF TypeOK, ClaimDue, Claimable, Status, Settled, Lease

\* What the delivery transaction does to the spend tables.
LEMMA TransactionSpend ==
  ASSUME TypeOK, LedgerMatchesEvents, NEW w \in Workers, NEW c \in Completions,
         Transaction(w, c)
  PROVE  /\ events' \in SUBSET Completions
         /\ charged' \in [Completions -> Nat]
         /\ \A d \in Completions : charged'[d] = IF d \in events' THEN 1 ELSE 0
         /\ events \subseteq events'
         /\ c \in Keyed => c \in events'
<1>1. CASE c \in Keyed /\ c \notin events
  BY <1>1 DEF TypeOK, LedgerMatchesEvents, Transaction, LogSpendOnce
<1>2. CASE c \notin Keyed \/ c \in events
  BY <1>2 DEF TypeOK, LedgerMatchesEvents, Transaction, LogSpendOnce, spendVars
<1> QED BY <1>1, <1>2

-----------------------------------------------------------------------------
\* A claim, whether its answer arrives or not.
LEMMA ClaimInv ==
  ASSUME IndInv, NEW w \in Workers, NEW S \in SUBSET Completions,
         ClaimDue(w, S), records[w] = {},
         UNCHANGED <<spendVars, published>>,
         up' \in SUBSET Workers, faults' \in Nat,
         records' = [records EXCEPT ![w] = Returned(S)] \/ records' = records
  PROVE  IndInv'
<1>0. TypeOK
  BY DEF IndInv
<1> USE ClaimRows, <1>0
<1>1. /\ Returned(S) \in SUBSET Records
      /\ \A r \in Returned(S) : r.id \in S /\ r.attempt = attempts[r.id] + 1 /\ r.step = "waiting"
  BY DEF Returned, Records, Steps, TypeOK
<1>2. /\ records' \in [Workers -> SUBSET Records]
      /\ \A v \in Workers : v # w => records'[v] = records[v]
      /\ \A r \in records'[w] : r \in Returned(S)
  BY <1>1 DEF TypeOK
<1>3. TypeOK'
  BY <1>2 DEF TypeOK, spendVars
<1>4. LedgerMatchesEvents'
  BY DEF IndInv, LedgerMatchesEvents, spendVars, Settled
<1>5. \A v \in Workers : \A r \in records'[v] : r.step = "publish" => v # w /\ r \in records[v]
  BY <1>1, <1>2
<1>6. OnePublisher'
  <2>1. ASSUME NEW v \in Workers, NEW r \in records'[v], r.step = "publish"
        PROVE  status'[r.id] = "sent" /\ published'[r.id] = 0
    BY <2>1, <1>5 DEF IndInv, OnePublisher, Settled, TypeOK, Records
  <2>2. ASSUME NEW u \in Workers, NEW v \in Workers, NEW q \in records'[u], NEW r \in records'[v],
               q.step = "publish", r.step = "publish", q.id = r.id
        PROVE  u = v /\ q = r
    BY <2>2, <1>5 DEF IndInv, OnePublisher
  <2> QED BY <2>1, <2>2 DEF OnePublisher
<1>7. PublishedOnlySent'
  BY DEF IndInv, PublishedOnlySent, Settled
<1>8. FenceNamesTheClaim'
  <2> SUFFICES ASSUME NEW v \in Workers, NEW r \in records'[v], Owned(v, r.id)'
               PROVE  r.attempt = attempts'[r.id]
    BY DEF FenceNamesTheClaim
  <2>1. CASE v = w
    BY <2>1, <1>1, <1>2
  <2>2. CASE v # w
    <3>1. r \in records[v] /\ r.id \in Completions
      BY <2>2, <1>2 DEF TypeOK, Records
    <3>2. r.id \notin S
      BY <2>2, <3>1 DEF Owned
    <3>3. Owned(v, r.id) /\ attempts'[r.id] = attempts[r.id]
      BY <3>1, <3>2 DEF Owned
    <3> QED BY <3>1, <3>3 DEF IndInv, FenceNamesTheClaim
  <2> QED BY <2>1, <2>2
<1>9. GivesUpAfterBudget'
  BY DEF IndInv, GivesUpAfterBudget, Settled
<1> QED BY <1>3, <1>4, <1>6, <1>7, <1>8, <1>9 DEF IndInv

\* A step in which the rows' statuses and claims stand and records only vanish
\* or move to a step other than "publish".
LEMMA QuietInv ==
  ASSUME IndInv, TypeOK', UNCHANGED <<spendVars, published, attempts>>,
         \A c \in Completions :
           status'[c] = status[c] \/ (status[c] \notin Settled /\ status'[c] \notin Settled),
         \A v \in Workers, c \in Completions : Owned(v, c)' => Owned(v, c),
         \A v \in Workers : \A r \in records'[v] :
           \/ r \in records[v]
           \/ /\ r.step # "publish"
              /\ \E q \in records[v] : q.id = r.id /\ q.attempt = r.attempt
  PROVE  IndInv'
<1>1. LedgerMatchesEvents'
  BY DEF IndInv, LedgerMatchesEvents, spendVars, Settled
<1>2. \A v \in Workers : \A r \in records'[v] :
        /\ r.id \in Completions
        /\ r.step = "publish" => r \in records[v]
  BY DEF TypeOK, Records
<1>3. OnePublisher'
  <2>1. ASSUME NEW v \in Workers, NEW r \in records'[v], r.step = "publish"
        PROVE  status'[r.id] = "sent" /\ published'[r.id] = 0
    BY <2>1, <1>2 DEF IndInv, OnePublisher, Settled
  <2>2. ASSUME NEW u \in Workers, NEW v \in Workers, NEW q \in records'[u], NEW r \in records'[v],
               q.step = "publish", r.step = "publish", q.id = r.id
        PROVE  u = v /\ q = r
    BY <2>2, <1>2 DEF IndInv, OnePublisher
  <2> QED BY <2>1, <2>2 DEF OnePublisher
<1>4. PublishedOnlySent'
  BY DEF IndInv, PublishedOnlySent, Settled
<1>5. FenceNamesTheClaim'
  <2> SUFFICES ASSUME NEW v \in Workers, NEW r \in records'[v], Owned(v, r.id)'
               PROVE  r.attempt = attempts'[r.id]
    BY DEF FenceNamesTheClaim
  <2>1. PICK q \in records[v] : q.id = r.id /\ q.attempt = r.attempt
    OBVIOUS
  <2> QED BY <2>1, <1>2 DEF IndInv, FenceNamesTheClaim
<1>6. GivesUpAfterBudget'
  BY DEF IndInv, GivesUpAfterBudget, Settled
<1> QED BY <1>1, <1>3, <1>4, <1>5, <1>6 DEF IndInv

\* A mark by w of the row of one of its records, which then leaves w's records.
LEMMA GiveBackInv ==
  ASSUME IndInv, NEW w \in Workers, NEW r \in records[w],
         NEW to \in {"failed", "retrying"}, NEW isDue \in BOOLEAN,
         Mark(w, r.id, to, isDue), Drop(w, r),
         to = "failed" => r.attempt >= MaxAttempts,
         UNCHANGED <<spendVars, published, up, faults>>
  PROVE  IndInv'
<1>0. TypeOK /\ r \in Records /\ r.id \in Completions
  BY DEF IndInv, TypeOK, Records
<1> USE MarkRows, <1>0
<1>1. /\ records' \in [Workers -> SUBSET Records]
      /\ \A v \in Workers : records'[v] \subseteq records[v]
  <2>1. {} \in SUBSET Records /\ Replace(w, r, {})
    BY DEF Drop
  <2> QED BY <2>1, ReplaceRecords
<1>2. TypeOK'
  BY <1>1 DEF TypeOK, spendVars
<1>3. \A c \in Completions :
        \/ status'[c] = status[c]
        \/ c = r.id /\ Owned(w, c) /\ status[c] \notin Settled /\ status'[c] = to
  BY DEF Owned, Settled
<1>4. LedgerMatchesEvents'
  BY <1>3 DEF IndInv, LedgerMatchesEvents, spendVars
<1>5. OnePublisher'
  <2>1. ASSUME NEW v \in Workers, NEW q \in records'[v], q.step = "publish"
        PROVE  status'[q.id] = "sent" /\ published'[q.id] = 0
    <3>1. q \in records[v] /\ q.id \in Completions
      BY <1>1 DEF TypeOK, Records
    <3>2. status[q.id] = "sent" /\ published[q.id] = 0
      BY <2>1, <3>1 DEF IndInv, OnePublisher
    <3> QED BY <3>1, <3>2, <1>3 DEF Settled
  <2>2. ASSUME NEW u \in Workers, NEW v \in Workers, NEW p \in records'[u], NEW q \in records'[v],
               p.step = "publish", q.step = "publish", p.id = q.id
        PROVE  u = v /\ p = q
    BY <2>2, <1>1 DEF IndInv, OnePublisher
  <2> QED BY <2>1, <2>2 DEF OnePublisher
<1>6. PublishedOnlySent'
  BY <1>3 DEF IndInv, PublishedOnlySent, Settled
<1>7. FenceNamesTheClaim'
  <2> SUFFICES ASSUME NEW v \in Workers, NEW q \in records'[v], Owned(v, q.id)'
               PROVE  q.attempt = attempts'[q.id]
    BY DEF FenceNamesTheClaim
  <2>1. q \in records[v] /\ q.id \in Completions
    BY <1>1 DEF TypeOK, Records
  <2> QED BY <2>1 DEF IndInv, FenceNamesTheClaim
<1>8. GivesUpAfterBudget'
  <2> SUFFICES ASSUME NEW c \in Completions, status'[c] = "failed"
               PROVE  attempts'[c] >= MaxAttempts
    BY DEF GivesUpAfterBudget
  <2>1. CASE status[c] = "failed"
    BY <2>1 DEF IndInv, GivesUpAfterBudget
  <2>2. CASE status[c] # "failed"
    <3>1. c = r.id /\ Owned(w, c) /\ to = "failed"
      BY <2>2, <1>3
    <3>2. r.attempt = attempts[c]
      BY <3>1 DEF IndInv, FenceNamesTheClaim
    <3> QED BY <3>1, <3>2
  <2> QED BY <2>1, <2>2
<1> QED BY <1>2, <1>4, <1>5, <1>6, <1>7, <1>8 DEF IndInv

\* A committed delivery: w's record r becomes the publisher if the mark matched,
\* and otherwise vanishes or waits for its own mark.
LEMMA DeliverInv ==
  ASSUME IndInv, NEW w \in Workers, NEW r \in records[w], r.step = "delivering",
         Transaction(w, r.id),
         \/ Owned(w, r.id) /\ Move(w, r, "publish")
         \/ ~ Owned(w, r.id) /\ Drop(w, r)
         \/ Move(w, r, "raised"),
         UNCHANGED <<published, up>>, faults' \in Nat
  PROVE  IndInv'
<1>0. TypeOK /\ LedgerMatchesEvents /\ r \in Records /\ r.id \in Completions
  BY DEF IndInv, TypeOK, Records
<1>1. due[r.id] \in BOOLEAN /\ Mark(w, r.id, "sent", due[r.id])
  BY <1>0 DEF Transaction, TypeOK
<1> DEFINE isDue == due[r.id]
<1> HIDE DEF isDue
<1>a. isDue \in BOOLEAN /\ Mark(w, r.id, "sent", isDue)
  BY <1>1 DEF isDue
<1>2. /\ status' \in [Completions -> Status]
      /\ lockedBy' \in [Completions -> Workers \cup {NoWorker}]
      /\ lease' \in [Completions -> Lease]
      /\ due' \in [Completions -> BOOLEAN]
      /\ attempts' = attempts
      /\ Owned(w, r.id) => status'[r.id] = "sent"
      /\ ~ Owned(w, r.id) => status' = status
      /\ \A d \in Completions : d # r.id => status'[d] = status[d]
      /\ \A v \in Workers, d \in Completions : Owned(v, d)' => Owned(v, d)
  BY <1>0, <1>a, MarkRows
<1>3. /\ events' \in SUBSET Completions
      /\ charged' \in [Completions -> Nat]
      /\ \A d \in Completions : charged'[d] = IF d \in events' THEN 1 ELSE 0
      /\ events \subseteq events'
      /\ r.id \in Keyed => r.id \in events'
  BY <1>0, TransactionSpend
<1>4. /\ records' \in [Workers -> SUBSET Records]
      /\ \A v \in Workers : \A q \in records'[v] :
           \/ q \in records[v]
           \/ /\ v = w /\ q.id = r.id /\ q.attempt = r.attempt
              /\ q = [r EXCEPT !.step = q.step]
              /\ q.step = "publish" => Owned(w, r.id)
  <2>1. CASE Owned(w, r.id) /\ Move(w, r, "publish")
    <3> DEFINE m == [r EXCEPT !.step = "publish"]
    <3>1. /\ {m} \in SUBSET Records
          /\ m.id = r.id /\ m.attempt = r.attempt /\ m.step = "publish"
          /\ m = [r EXCEPT !.step = m.step]
      BY <1>0, MoveRecord DEF Steps
    <3>2. Replace(w, r, {m})
      BY <2>1 DEF Move
    <3> HIDE DEF m
    <3>3. /\ records' \in [Workers -> SUBSET Records]
          /\ records'[w] = (records[w] \ {r}) \cup {m}
          /\ \A v \in Workers : v # w => records'[v] = records[v]
      BY <3>1, <3>2, <1>0, ReplaceRecords
    <3> QED BY <3>1, <3>3, <2>1
  <2>2. CASE Drop(w, r)
    BY <2>2, <1>0, ReplaceRecords DEF Drop
  <2>3. CASE Move(w, r, "raised")
    <3> DEFINE m == [r EXCEPT !.step = "raised"]
    <3>1. /\ {m} \in SUBSET Records
          /\ m.id = r.id /\ m.attempt = r.attempt /\ m.step = "raised"
          /\ m = [r EXCEPT !.step = m.step]
      BY <1>0, MoveRecord DEF Steps
    <3>2. Replace(w, r, {m})
      BY <2>3 DEF Move
    <3> HIDE DEF m
    <3>3. /\ records' \in [Workers -> SUBSET Records]
          /\ records'[w] = (records[w] \ {r}) \cup {m}
          /\ \A v \in Workers : v # w => records'[v] = records[v]
      BY <3>1, <3>2, <1>0, ReplaceRecords
    <3> QED BY <3>1, <3>3, <2>3
  <2> QED BY <2>1, <2>2, <2>3
<1>5. TypeOK'
  BY <1>0, <1>2, <1>3, <1>4 DEF TypeOK
<1>6. LedgerMatchesEvents'
  BY <1>0, <1>2, <1>3 DEF LedgerMatchesEvents
<1>7. \A v \in Workers : \A q \in records'[v] : q.id \in Completions
  BY <1>4 DEF Records
<1>8. Owned(w, r.id) => /\ status[r.id] # "sent"
                        /\ published[r.id] = 0
                        /\ \A v \in Workers : \A q \in records[v] :
                             q.step = "publish" => q.id # r.id
  BY <1>0 DEF Owned, IndInv, PublishedOnlySent, OnePublisher
<1>9. OnePublisher'
  <2>1. ASSUME NEW v \in Workers, NEW q \in records'[v], q.step = "publish"
        PROVE  status'[q.id] = "sent" /\ published'[q.id] = 0
    <3>1. CASE q \in records[v]
      <4>1. status[q.id] = "sent" /\ published[q.id] = 0
        BY <2>1, <3>1 DEF IndInv, OnePublisher
      <4> QED BY <4>1, <1>2, <1>7
    <3>2. CASE q \notin records[v]
      BY <2>1, <3>2, <1>2, <1>4, <1>8
    <3> QED BY <3>1, <3>2
  <2>2. ASSUME NEW u \in Workers, NEW v \in Workers, NEW p \in records'[u], NEW q \in records'[v],
               p.step = "publish", q.step = "publish", p.id = q.id
        PROVE  u = v /\ p = q
    <3>1. CASE p \in records[u] /\ q \in records[v]
      BY <2>2, <3>1 DEF IndInv, OnePublisher
    <3>2. CASE p \notin records[u] /\ q \notin records[v]
      BY <2>2, <3>2, <1>4
    <3>3. CASE p \in records[u] /\ q \notin records[v]
      BY <2>2, <3>3, <1>4, <1>8
    <3>4. CASE p \notin records[u] /\ q \in records[v]
      BY <2>2, <3>4, <1>4, <1>8
    <3> QED BY <3>1, <3>2, <3>3, <3>4
  <2> QED BY <2>1, <2>2 DEF OnePublisher
<1>10. PublishedOnlySent'
  BY <1>2, <1>8 DEF IndInv, PublishedOnlySent
<1>11. FenceNamesTheClaim'
  <2> SUFFICES ASSUME NEW v \in Workers, NEW q \in records'[v], Owned(v, q.id)'
               PROVE  q.attempt = attempts'[q.id]
    BY DEF FenceNamesTheClaim
  <2>1. PICK p \in records[v] : p.id = q.id /\ p.attempt = q.attempt
    BY <1>4
  <2> QED BY <2>1, <1>2, <1>7 DEF IndInv, FenceNamesTheClaim
<1>12. GivesUpAfterBudget'
  BY <1>2 DEF IndInv, GivesUpAfterBudget
<1> QED BY <1>5, <1>6, <1>9, <1>10, <1>11, <1>12 DEF IndInv

-----------------------------------------------------------------------------
\* A record that moves from one step to another, or is dropped, while no row
\* changes.
LEMMA RecordOnlyInv ==
  ASSUME IndInv, NEW w \in Workers, NEW r \in records[w],
         \/ Drop(w, r)
         \/ \E s \in Steps \ {"publish"} : Move(w, r, s),
         UNCHANGED <<rowVars, spendVars, published, up>>, faults' \in Nat
  PROVE  IndInv'
<1>0. TypeOK /\ r \in Records
  BY DEF IndInv, TypeOK
<1>1. /\ records' \in [Workers -> SUBSET Records]
      /\ \A v \in Workers : \A q \in records'[v] :
           \/ q \in records[v]
           \/ /\ q.step # "publish"
              /\ \E p \in records[v] : p.id = q.id /\ p.attempt = q.attempt
  <2>1. CASE Drop(w, r)
    <3>1. {} \in SUBSET Records /\ Replace(w, r, {})
      BY <2>1 DEF Drop
    <3> QED BY <3>1, <1>0, ReplaceRecords
  <2>2. ASSUME NEW s \in Steps \ {"publish"}, Move(w, r, s)
        PROVE  <1>1!1 /\ <1>1!2
    <3> DEFINE m == [r EXCEPT !.step = s]
    <3>1. {m} \in SUBSET Records /\ m.id = r.id /\ m.attempt = r.attempt /\ m.step = s
      BY <1>0, MoveRecord
    <3>2. Replace(w, r, {m})
      BY <2>2 DEF Move
    <3> HIDE DEF m
    <3>3. /\ records' \in [Workers -> SUBSET Records]
          /\ records'[w] = (records[w] \ {r}) \cup {m}
          /\ \A v \in Workers : v # w => records'[v] = records[v]
      BY <3>1, <3>2, <1>0, ReplaceRecords
    <3> QED BY <3>1, <3>3
  <2> QED BY <2>1, <2>2
<1>2. TypeOK'
  BY <1>0, <1>1 DEF TypeOK, rowVars, spendVars
<1>3. \A v \in Workers, c \in Completions : Owned(v, c)' => Owned(v, c)
  BY DEF Owned, rowVars
<1>4. /\ UNCHANGED <<spendVars, published, attempts>>
      /\ \A c \in Completions : status'[c] = status[c]
  BY DEF rowVars
<1> QED BY <1>1, <1>2, <1>3, <1>4, QuietInv

\* PublishMetrics uses up the row's only publisher.
LEMMA PublishInv ==
  ASSUME IndInv, NEW w \in Workers, NEW r \in records[w], PublishMetrics(w, r)
  PROVE  IndInv'
<1>0. TypeOK /\ r \in Records /\ r.id \in Completions /\ r.step = "publish"
  BY DEF IndInv, TypeOK, Records, PublishMetrics
<1>1. /\ records' \in [Workers -> SUBSET Records]
      /\ records'[w] = records[w] \ {r}
      /\ \A v \in Workers : v # w => records'[v] = records[v]
  <2>1. {} \in SUBSET Records /\ Replace(w, r, {})
    BY DEF PublishMetrics, Drop
  <2> QED BY <2>1, <1>0, ReplaceRecords
<1>2. UNCHANGED <<status, lockedBy, lease, due, attempts, events, charged, up, faults>>
  BY DEF PublishMetrics, rowVars, spendVars
<1>3. /\ published' \in [Completions -> Nat]
      /\ published[r.id] = 0 /\ status[r.id] = "sent" /\ published'[r.id] = 1
      /\ \A c \in Completions : c # r.id => published'[c] = published[c]
  BY <1>0 DEF PublishMetrics, TypeOK, IndInv, OnePublisher
<1>4. TypeOK'
  BY <1>0, <1>1, <1>2, <1>3 DEF TypeOK
<1>5. LedgerMatchesEvents'
  BY <1>2 DEF IndInv, LedgerMatchesEvents
<1>6. \A v \in Workers : \A q \in records'[v] :
        /\ q \in records[v] /\ q.id \in Completions
        /\ q.step = "publish" => q.id # r.id
  BY <1>0, <1>1 DEF IndInv, OnePublisher, TypeOK, Records
<1>7. OnePublisher'
  <2>1. ASSUME NEW v \in Workers, NEW q \in records'[v], q.step = "publish"
        PROVE  status'[q.id] = "sent" /\ published'[q.id] = 0
    BY <2>1, <1>2, <1>3, <1>6 DEF IndInv, OnePublisher
  <2>2. ASSUME NEW u \in Workers, NEW v \in Workers, NEW p \in records'[u], NEW q \in records'[v],
               p.step = "publish", q.step = "publish", p.id = q.id
        PROVE  u = v /\ p = q
    BY <2>2, <1>6 DEF IndInv, OnePublisher
  <2> QED BY <2>1, <2>2 DEF OnePublisher
<1>8. PublishedOnlySent'
  BY <1>2, <1>3 DEF IndInv, PublishedOnlySent
<1>9. FenceNamesTheClaim'
  BY <1>2, <1>6 DEF IndInv, FenceNamesTheClaim, Owned
<1>10. GivesUpAfterBudget'
  BY <1>2 DEF IndInv, GivesUpAfterBudget
<1> QED BY <1>4, <1>5, <1>7, <1>8, <1>9, <1>10 DEF IndInv

\* What happens to a row besides claims, marks and deliveries: it is enqueued,
\* its lease or its retry delay moves.
LEMMA RowOnlyInv ==
  ASSUME IndInv, NEW c \in Completions,
         \/ Enqueue(c)
         \/ RetryDue(c)
         \/ Expire(c) /\ faults' \in Nat
         \/ \E w \in Workers : \E r \in records[w] : c = r.id /\ Heartbeat(w, r)
  PROVE  IndInv'
<1>0. TypeOK
  BY DEF IndInv
<1>1. CASE Enqueue(c)
  <2>1. TypeOK'
    BY <1>0, <1>1 DEF TypeOK, Enqueue, Status, Settled, spendVars
  <2>2. /\ UNCHANGED <<spendVars, published, attempts, records>>
        /\ \A d \in Completions :
             status'[d] = status[d] \/ (status[d] \notin Settled /\ status'[d] \notin Settled)
        /\ \A v \in Workers, d \in Completions : Owned(v, d)' => Owned(v, d)
    BY <1>0, <1>1 DEF TypeOK, Enqueue, Settled, Owned
  <2> QED BY <2>1, <2>2, QuietInv
<1>2. CASE ~ Enqueue(c)
  <2>1. /\ UNCHANGED <<status, lockedBy, spendVars, published, attempts, records, up>>
        /\ lease' \in [Completions -> Lease] /\ due' \in [Completions -> BOOLEAN]
        /\ faults' \in Nat
    BY <1>0, <1>2 DEF TypeOK, RetryDue, Expire, Heartbeat, Lease
  <2>2. TypeOK'
    BY <1>0, <2>1 DEF TypeOK, spendVars
  <2>3. \A v \in Workers, d \in Completions : Owned(v, d)' => Owned(v, d)
    BY <2>1 DEF Owned
  <2> QED BY <2>1, <2>2, <2>3, QuietInv
<1> QED BY <1>1, <1>2

-----------------------------------------------------------------------------
LEMMA NextInv == IndInv /\ [Next]_vars => IndInv'
<1> SUFFICES ASSUME IndInv, [Next]_vars
             PROVE  IndInv'
  OBVIOUS
<1>t. TypeOK /\ faults \in Nat
  BY DEF IndInv, TypeOK
<1>f. Fault => faults' \in Nat
  BY <1>t DEF Fault
<1>1. ASSUME NEW w \in Workers, NEW S \in SUBSET Completions, ProcessOnce(w, S)
      PROVE  IndInv'
  BY <1>1, <1>t, ClaimInv DEF ProcessOnce, TypeOK
<1>2. ASSUME NEW w \in Workers, NEW S \in SUBSET Completions, ClaimAnswerLost(w, S)
      PROVE  IndInv'
  BY <1>2, <1>t, <1>f, ClaimInv DEF ClaimAnswerLost, TypeOK
<1>3. ASSUME NEW w \in Workers, NEW r \in records[w], StartRecord(w, r) \/ MarkRaises(w, r)
      PROVE  IndInv'
  BY <1>3, <1>t, <1>f, RecordOnlyInv DEF StartRecord, MarkRaises, Steps
<1>4. ASSUME NEW w \in Workers, NEW r \in records[w], Deliver(w, r)
      PROVE  IndInv'
  BY <1>4, <1>t, DeliverInv DEF Deliver
<1>5. ASSUME NEW w \in Workers, NEW r \in records[w], NEW k \in BOOLEAN, DeliverRaises(w, r, k)
      PROVE  IndInv'
  <2>1. CASE k
    BY <2>1, <1>5, <1>f, DeliverInv DEF DeliverRaises
  <2>2. CASE ~ k
    BY <2>2, <1>5, <1>f, RecordOnlyInv DEF DeliverRaises, Steps
  <2> QED BY <2>1, <2>2
<1>6. ASSUME NEW w \in Workers, NEW r \in records[w], PublishMetrics(w, r)
      PROVE  IndInv'
  BY <1>6, PublishInv
<1>7. ASSUME NEW w \in Workers, NEW r \in records[w], MarkFailed(w, r)
      PROVE  IndInv'
  <2>1. due[r.id] \in BOOLEAN
    BY <1>t DEF TypeOK, Records
  <2> QED BY <2>1, <1>7, GiveBackInv DEF MarkFailed, Exhausted
<1>8. ASSUME NEW w \in Workers, NEW r \in records[w], MarkRetry(w, r)
      PROVE  IndInv'
  BY <1>8, GiveBackInv DEF MarkRetry
<1>9. ASSUME NEW w \in Workers, NEW r \in records[w], Heartbeat(w, r)
      PROVE  IndInv'
  BY <1>9, <1>t, RowOnlyInv DEF TypeOK, Records
<1>10. ASSUME NEW w \in Workers, Crash(w)
       PROVE  IndInv'
  <2>1. /\ records' \in [Workers -> SUBSET Records]
        /\ \A v \in Workers : records'[v] \subseteq records[v]
    BY <1>10, <1>t DEF Crash, TypeOK
  <2>2. TypeOK'
    BY <2>1, <1>10, <1>t, <1>f DEF Crash, TypeOK, rowVars, spendVars
  <2>3. /\ UNCHANGED <<spendVars, published, attempts, status, lockedBy>>
        /\ \A v \in Workers, c \in Completions : Owned(v, c)' => Owned(v, c)
    BY <1>10 DEF Crash, rowVars, Owned
  <2> QED BY <2>1, <2>2, <2>3, QuietInv
<1>11. ASSUME NEW c \in Completions, Enqueue(c) \/ Time(c)
       PROVE  IndInv'
  BY <1>11, <1>t, <1>f, RowOnlyInv DEF Time, LeaseElapses, LeaseStalls
<1>12. CASE UNCHANGED vars
  BY <1>12 DEF vars, rowVars, spendVars, IndInv, TypeOK, LedgerMatchesEvents,
     OnePublisher, PublishedOnlySent, FenceNamesTheClaim, GivesUpAfterBudget, Owned
<1> QED
  BY <1>1, <1>2, <1>3, <1>4, <1>5, <1>6, <1>7, <1>8, <1>9, <1>10, <1>11, <1>12 DEF Next,
     WorkerStep, WorkerFault

-----------------------------------------------------------------------------
\* The inductive invariant holds of every behaviour of the outbox.
THEOREM Invariance == Spec => []IndInv
BY InitInv, NextInv, PTL DEF Spec

\* Every completion is charged at most once, and a sent one with a key is
\* charged: log_spend_once and mark_sent under lost leases and lost answers.
THEOREM ChargeSafe == Spec => []ChargedOnce
<1>1. IndInv => ChargedOnce
  BY DEF IndInv, LedgerMatchesEvents, ChargedOnce
<1> QED BY <1>1, Invariance, PTL

\* Metrics are published at most once and only for sent rows (the fence of
\* mark_sent picks the one delivery that publishes).
THEOREM PublishSafe == Spec => []PublishedOnce
<1>1. IndInv => PublishedOnce
  BY DEF IndInv, PublishedOnlySent, PublishedOnce
<1> QED BY <1>1, Invariance, PTL

\* locked_by alone identifies the claim (process_once finishes a claim before
\* it makes the next one).
THEOREM FenceSafe == Spec => []FenceNamesTheClaim
<1>1. IndInv => FenceNamesTheClaim
  BY DEF IndInv
<1> QED BY <1>1, Invariance, PTL

\* A row is failed only after max_attempts claims (_process_record).
THEOREM BudgetSafe == Spec => []GivesUpAfterBudget
<1>1. IndInv => GivesUpAfterBudget
  BY DEF IndInv
<1> QED BY <1>1, Invariance, PTL

\* Sent and failed rows never change again (claim_due and the mark fences).
THEOREM SettledSafe == Spec => SettledIsFinal
<1> DEFINE Final == \A c \in Completions :
                      status[c] \in Settled =>
                        status'[c] = status[c] /\ attempts'[c] = attempts[c]
<1>1. ASSUME TypeOK, [Next]_vars
      PROVE  Final
  <2>1. ASSUME NEW w \in Workers, NEW S \in SUBSET Completions, ClaimDue(w, S)
        PROVE  Final
    BY <1>1, <2>1, ClaimRows
  <2>2. ASSUME NEW w \in Workers, NEW c \in Completions,
               NEW to \in {"sent", "failed", "retrying"}, NEW isDue \in BOOLEAN,
               Mark(w, c, to, isDue)
        PROVE  Final
    <3>1. CASE Owned(w, c)
      BY <1>1, <2>2, <3>1, MarkRows DEF Owned, Settled
    <3>2. CASE ~ Owned(w, c)
      BY <1>1, <2>2, <3>2, MarkRows
    <3> QED BY <3>1, <3>2
  <2>3. ASSUME NEW w \in Workers, NEW c \in Completions, Transaction(w, c)
        PROVE  Final
    <3>1. due[c] \in BOOLEAN
      BY <1>1 DEF TypeOK
    <3> QED BY <2>2, <2>3, <3>1 DEF Transaction
  <2>4. ASSUME NEW c \in Completions, Enqueue(c)
        PROVE  Final
    BY <1>1, <2>4 DEF Enqueue, TypeOK, Settled
  <2>5. CASE UNCHANGED <<status, attempts>>
    BY <2>5
  <2>6. \A w \in Workers : \A r \in records[w] : r.id \in Completions /\ due[r.id] \in BOOLEAN
    BY <1>1 DEF TypeOK, Records
  <2>7. ASSUME NEW w \in Workers, WorkerStep(w)
        PROVE  Final
    <3>1. ASSUME NEW S \in SUBSET Completions, ProcessOnce(w, S)
          PROVE  Final
      BY <3>1, <2>1 DEF ProcessOnce
    <3>2. ASSUME NEW r \in records[w], StartRecord(w, r) \/ PublishMetrics(w, r)
          PROVE  Final
      BY <3>2, <2>5 DEF StartRecord, PublishMetrics, rowVars
    <3>3. ASSUME NEW r \in records[w], Deliver(w, r)
          PROVE  Final
      BY <3>3, <2>3, <2>6 DEF Deliver
    <3>4. ASSUME NEW r \in records[w], MarkFailed(w, r) \/ MarkRetry(w, r)
          PROVE  Final
      BY <3>4, <2>2, <2>6 DEF MarkFailed, MarkRetry
    <3> QED BY <2>7, <3>1, <3>2, <3>3, <3>4 DEF WorkerStep
  <2>8. ASSUME NEW w \in Workers, WorkerFault(w)
        PROVE  Final
    <3>1. ASSUME NEW S \in SUBSET Completions, ClaimAnswerLost(w, S)
          PROVE  Final
      BY <3>1, <2>1 DEF ClaimAnswerLost
    <3>2. ASSUME NEW r \in records[w], NEW k \in BOOLEAN, DeliverRaises(w, r, k)
          PROVE  Final
      <4>1. CASE k
        BY <4>1, <3>2, <2>3, <2>6 DEF DeliverRaises
      <4>2. CASE ~ k
        BY <4>2, <3>2, <2>5 DEF DeliverRaises, rowVars
      <4> QED BY <4>1, <4>2
    <3>3. ASSUME NEW r \in records[w], MarkRaises(w, r)
          PROVE  Final
      BY <3>3, <2>5 DEF MarkRaises, rowVars
    <3>4. CASE Crash(w)
      BY <3>4, <2>5 DEF Crash, rowVars
    <3> QED BY <2>8, <3>1, <3>2, <3>3, <3>4 DEF WorkerFault
  <2>9. ASSUME NEW w \in Workers, NEW r \in records[w], Heartbeat(w, r)
        PROVE  Final
    BY <2>9, <2>5 DEF Heartbeat
  <2>10. ASSUME NEW c \in Completions, Time(c)
         PROVE  Final
    BY <2>10, <2>5 DEF Time, LeaseElapses, LeaseStalls, Expire, RetryDue
  <2>11. CASE UNCHANGED vars
    BY <2>11, <2>5 DEF vars, rowVars
  <2> HIDE DEF Final
  <2> QED BY <1>1, <2>4, <2>7, <2>8, <2>9, <2>10, <2>11 DEF Next
<1>2. IndInv => TypeOK
  BY DEF IndInv
<1>3. IndInv /\ [Next]_vars => [Final]_vars
  BY <1>1, <1>2
<1> QED BY <1>3, Invariance, PTL DEF Spec, SettledIsFinal, Final
=============================================================================
