------------------------- MODULE TicketOutboxProofs -------------------------
(***************************************************************************)
(* Proofs about TicketOutbox for every set of tickets, keys and instances, *)
(* every batch size and every number of faults.                            *)
(*                                                                         *)
(* The invariants are proved in layers, each from those before it: types,  *)
(* row locks, what has been sent, the dead-letter limit, idempotency keys. *)
(* The layers together carry the refinement of OutboxContract.             *)
(***************************************************************************)
EXTENDS TicketOutbox, FiniteSetTheorems, TLAPS

\* A record more in either topic, whoever sends it.
LEMMA StoredTyped ==
    ASSUME NEW t \in Tickets, NEW target,
           created \in [Tickets -> Nat], dead \in [Tickets -> Nat],
           Stored(t, target) \/ UNCHANGED kafka
    PROVE  /\ created' \in [Tickets -> Nat]
           /\ dead' \in [Tickets -> Nat]
           /\ \A u \in Tickets : created'[u] >= created[u] /\ dead'[u] >= dead[u]
           /\ \A u \in Tickets \ {t} : created'[u] = created[u] /\ dead'[u] = dead[u]
           /\ created'[t] + dead'[t] <= created[t] + dead[t] + 1
           /\ target # "DLQ" => dead'[t] = dead[t]
           /\ Stored(t, target) =>
                IF target = "DLQ" THEN dead'[t] > 0 ELSE created'[t] > 0
<1>1. CASE UNCHANGED kafka /\ ~Stored(t, target)
  BY <1>1 DEF kafka
<1>2. CASE Stored(t, target) /\ target = "DLQ"
  BY <1>2 DEF Stored
<1>3. CASE Stored(t, target) /\ target # "DLQ"
  BY <1>3 DEF Stored
<1> QED
  BY <1>1, <1>2, <1>3

\* Marking a row only moves it from the rows to send to the rows sent.
LEMMA MarkTyped ==
    ASSUME NEW r \in Relays, NEW t \in Tickets, NEW outcome \in Status,
           TypeOK, MarkProcessed(r, t, outcome)
    PROVE  /\ todo' \in [Relays -> SUBSET Tickets]
           /\ mark' \in [Relays -> [Tickets -> Status \cup {"NONE"}]]
  BY DEF TypeOK, MarkProcessed

LEMMA TargetTyped == ASSUME NEW t \in Tickets PROVE Target(t) \in Settled
  BY DEF Target, Settled

\* The caps and counters stay in their types: what markProcessed writes is a
\* status the table's check constraint accepts.
THEOREM TypeCorrect == Spec => []TypeOK
<1>1. Init => TypeOK
  BY OutboxConstants DEF Init, TypeOK, Unmarked, AttemptsCap, Status
<1>2. TypeOK /\ [Next]_vars => TypeOK'
  <2> SUFFICES ASSUME TypeOK, [Next]_vars PROVE TypeOK'
    OBVIOUS
  <2> USE OutboxConstants DEF TypeOK, rows, kafka
  <2>1. ASSUME NEW t \in Tickets, NEW k \in IdempotencyKeys \cup {NoKey},
               NEW stamp \in Stamps, Create(t, k, stamp)
        PROVE TypeOK'
    BY <2>1 DEF Create, Status
  <2>2. ASSUME NEW r \in Relays, FetchPending(r) PROVE TypeOK'
    BY <2>2 DEF FetchPending
  <2>3. ASSUME NEW r \in Relays, NEW t \in Tickets, Publish(r, t) PROVE TypeOK'
    <3>1. Target(t) \in Status
      BY TargetTyped DEF Status
    <3>2. created' \in [Tickets -> Nat] /\ dead' \in [Tickets -> Nat]
      BY <2>3, StoredTyped DEF Publish
    <3> QED
      BY <2>3, <3>1, <3>2, MarkTyped DEF Publish
  <2>4. ASSUME NEW r \in Relays, NEW t \in Tickets, PublishRefused(r, t) PROVE TypeOK'
    BY <2>4, MarkTyped DEF PublishRefused, Status
  <2>5. ASSUME NEW r \in Relays, NEW t \in Tickets, PublishFails(r, t) PROVE TypeOK'
    <3>1. created' \in [Tickets -> Nat] /\ dead' \in [Tickets -> Nat]
      BY <2>5, StoredTyped DEF PublishFails
    <3>2. faults' \in 0 .. MaxFaults
      BY <2>5 DEF PublishFails
    <3> QED
      BY <2>5, <3>1, <3>2, MarkTyped DEF PublishFails, Status
  <2>6. ASSUME NEW r \in Relays, Commit(r) PROVE TypeOK'
    <3>1. status' \in [Tickets -> Status \cup {"ABSENT"}]
      BY <2>6 DEF Commit
    <3>2. attempts' \in [Tickets -> 0 .. AttemptsCap]
      <4>1. \A t \in Tickets : attempts[t] # AttemptsCap =>
              attempts[t] + 1 \in 0 .. AttemptsCap
        <5> SUFFICES ASSUME NEW t \in Tickets, attempts[t] # AttemptsCap
                     PROVE  attempts[t] + 1 \in 0 .. AttemptsCap
          OBVIOUS
        <5>1. attempts[t] \in 0 .. AttemptsCap
          OBVIOUS
        <5>2. AttemptsCap \in Nat
          BY DEF AttemptsCap
        <5> QED
          BY ONLY <5>1, <5>2, attempts[t] # AttemptsCap
      <4> QED
        BY <2>6, <4>1 DEF Commit
    <3>3. mark' \in [Relays -> [Tickets -> Status \cup {"NONE"}]]
      BY <2>6 DEF Commit, Unmarked
    <3> QED
      BY <2>6, <3>1, <3>2, <3>3 DEF Commit
  <2>7. ASSUME NEW r \in Relays, OrphanEnds(r) PROVE TypeOK'
    <3>1. PICK send \in orphan[r] : Stored(send[1], send[2]) \/ UNCHANGED kafka
      BY <2>7 DEF OrphanEnds
    <3>2. created' \in [Tickets -> Nat] /\ dead' \in [Tickets -> Nat]
      BY <3>1, StoredTyped
    <3>3. orphan' \in [Relays -> SUBSET (Tickets \X Settled)]
      BY <2>7 DEF OrphanEnds
    <3>4. UNCHANGED <<rows, todo, mark, faults>>
      BY <2>7 DEF OrphanEnds
    <3> QED
      BY <3>2, <3>3, <3>4
  <2>8. ASSUME NEW r \in Relays, SessionLost(r) PROVE TypeOK'
    <3>1. orphan' \in [Relays -> SUBSET (Tickets \X Settled)]
      <4>1. CASE UNCHANGED orphan
        BY <4>1
      <4>2. ASSUME NEW t \in Tickets,
                   orphan' = [orphan EXCEPT ![r] = {<<t, Target(t)>>}]
            PROVE  orphan' \in [Relays -> SUBSET (Tickets \X Settled)]
        <5>1. {<<t, Target(t)>>} \in SUBSET (Tickets \X Settled)
          BY TargetTyped
        <5> HIDE DEF Settled
        <5> QED
          BY <4>2, <5>1
      <4> QED
        BY <2>8, <4>1, <4>2 DEF SessionLost
    <3>2. todo' \in [Relays -> SUBSET Tickets] /\ faults' \in 0 .. MaxFaults
      BY <2>8 DEF SessionLost
    <3>3. mark' \in [Relays -> [Tickets -> Status \cup {"NONE"}]]
      BY <2>8 DEF SessionLost, Unmarked
    <3> QED
      BY <2>8, <3>1, <3>2, <3>3 DEF SessionLost
  <2>9. CASE UNCHANGED vars
    BY <2>9 DEF vars
  <2> QED
    BY <2>1, <2>2, <2>3, <2>4, <2>5, <2>6, <2>7, <2>8, <2>9 DEF Next, RelayStep
<1> QED
  BY <1>1, <1>2, PTL DEF Spec

-----------------------------------------------------------------------------
\* Row locks.

\* r's transaction holds the lock on t's row.
Holds(r, t) == t \in todo[r] \/ mark[r][t] # "NONE"

\* Inductive form of ExclusiveBatches: a locked row has one holder, is PENDING
\* for everybody else, and is either still to send or sent, never both.
LockInv ==
    /\ \A r, s \in Relays, t \in Tickets : Holds(r, t) /\ Holds(s, t) => r = s
    /\ \A r \in Relays, t \in Tickets : Holds(r, t) => status[t] = "PENDING"
    /\ \A r \in Relays : \A t \in todo[r] : mark[r][t] = "NONE"

\* markProcessed moves a row within the transaction and touches no other lock.
LEMMA MarkKeepsLocks ==
    ASSUME NEW r \in Relays, NEW t \in Tickets, NEW outcome \in Status,
           TypeOK, LockInv, t \in todo[r], MarkProcessed(r, t, outcome),
           status' = status
    PROVE  LockInv'
<1>1. \A s \in Relays, u \in Tickets : Holds(s, u)' => Holds(s, u)
  BY DEF MarkProcessed, Holds, TypeOK
<1>2. \A s \in Relays : \A u \in todo'[s] : mark'[s][u] = "NONE"
  BY DEF MarkProcessed, LockInv, TypeOK
<1> QED
  BY <1>1, <1>2 DEF LockInv

LEMMA LocksStep == TypeOK /\ LockInv /\ [Next]_vars => LockInv'
<1> SUFFICES ASSUME TypeOK, LockInv, [Next]_vars PROVE LockInv'
  OBVIOUS
<1>1. ASSUME NEW t \in Tickets, NEW k \in IdempotencyKeys \cup {NoKey},
             NEW stamp \in Stamps, Create(t, k, stamp)
      PROVE LockInv'
  BY <1>1 DEF Create, LockInv, Holds, TypeOK
<1>2. ASSUME NEW r \in Relays, FetchPending(r) PROVE LockInv'
  <2>1. PICK batch \in SUBSET Tickets :
          /\ batch \subseteq Eligible
          /\ todo' = [todo EXCEPT ![r] = batch]
    BY <1>2 DEF FetchPending, IsBatch
  <2>2. UNCHANGED <<status, mark>> /\ \A t \in Tickets : mark[r][t] = "NONE"
    BY <1>2 DEF FetchPending, Idle, Held, rows
  <2>3. \A t \in batch : status[t] = "PENDING" /\ \A s \in Relays : ~Holds(s, t)
    BY <2>1 DEF Eligible, Locked, Held, Holds
  <2>4. \A s \in Relays \ {r}, t \in Tickets : Holds(s, t)' <=> Holds(s, t)
    BY <2>1, <2>2 DEF Holds, TypeOK
  <2>5. \A t \in Tickets : Holds(r, t)' <=> t \in batch
    BY <2>1, <2>2 DEF Holds, TypeOK
  <2>6. \A s \in Relays : \A t \in todo'[s] : mark'[s][t] = "NONE"
    BY <2>1, <2>2 DEF LockInv, TypeOK
  <2> QED
    BY <2>2, <2>3, <2>4, <2>5, <2>6 DEF LockInv
<1>3. ASSUME NEW r \in Relays, NEW t \in Tickets, Publish(r, t) PROVE LockInv'
  <2>1. Target(t) \in Status
    BY TargetTyped DEF Status
  <2> QED
    BY <1>3, <2>1, MarkKeepsLocks DEF Publish, IsNext, rows
<1>4. ASSUME NEW r \in Relays, NEW t \in Tickets, PublishRefused(r, t) PROVE LockInv'
  BY <1>4, MarkKeepsLocks DEF PublishRefused, IsNext, rows, Status
<1>5. ASSUME NEW r \in Relays, NEW t \in Tickets, PublishFails(r, t) PROVE LockInv'
  BY <1>5, MarkKeepsLocks DEF PublishFails, IsNext, rows, Status
<1>6. ASSUME NEW r \in Relays, Commit(r) PROVE LockInv'
  <2>1. \A t \in Tickets : ~Holds(r, t)'
    BY <1>6 DEF Commit, Holds, Unmarked, TypeOK
  <2>2. \A s \in Relays \ {r}, t \in Tickets : Holds(s, t)' <=> Holds(s, t)
    BY <1>6 DEF Commit, Holds, TypeOK
  <2>3. \A t \in Tickets : ~Holds(r, t) => status'[t] = status[t]
    BY <1>6 DEF Commit, Holds
  <2>4. \A s \in Relays : \A t \in todo'[s] : mark'[s][t] = "NONE"
    BY <1>6 DEF Commit, LockInv, Unmarked, TypeOK
  <2> QED
    BY <2>1, <2>2, <2>3, <2>4 DEF LockInv
<1>7. ASSUME NEW r \in Relays, OrphanEnds(r) PROVE LockInv'
  <2>1. UNCHANGED <<status, todo, mark>>
    BY <1>7 DEF OrphanEnds, rows
  <2> QED
    BY <2>1 DEF LockInv, Holds
<1>8. ASSUME NEW r \in Relays, SessionLost(r) PROVE LockInv'
  <2>1. /\ todo' = [todo EXCEPT ![r] = {}]
        /\ mark' = [mark EXCEPT ![r] = Unmarked]
        /\ status' = status
    BY <1>8 DEF SessionLost, rows
  <2>2. \A s \in Relays, t \in Tickets : Holds(s, t)' => Holds(s, t)
    BY <2>1 DEF Holds, Unmarked, TypeOK
  <2>3. \A s \in Relays : \A t \in todo'[s] : mark'[s][t] = "NONE"
    BY <2>1 DEF LockInv, Unmarked, TypeOK
  <2> QED
    BY <2>1, <2>2, <2>3 DEF LockInv
<1>9. CASE UNCHANGED vars
  BY <1>9 DEF vars, LockInv, Holds
<1> QED
  BY <1>1, <1>2, <1>3, <1>4, <1>5, <1>6, <1>7, <1>8, <1>9 DEF Next, RelayStep

LEMMA Locks == Spec => []LockInv
<1>1. Init => LockInv
  BY DEF Init, LockInv, Holds, Unmarked
<1> QED
  BY <1>1, LocksStep, TypeCorrect, PTL DEF Spec

\* FOR UPDATE SKIP LOCKED keeps the batches of any number of instances apart.
THEOREM BatchesAreExclusive == Spec => []ExclusiveBatches
<1>1. TypeOK /\ LockInv => ExclusiveBatches
  <2> SUFFICES ASSUME TypeOK, LockInv PROVE ExclusiveBatches
    OBVIOUS
  <2>1. \A r \in Relays : \A t \in Held(r) : t \in Tickets /\ Holds(r, t)
    BY DEF Held, Holds, TypeOK
  <2> QED
    BY <2>1 DEF ExclusiveBatches, LockInv
<1> QED
  BY <1>1, Locks, TypeCorrect, PTL

-----------------------------------------------------------------------------
\* What has been sent.

\* Inductive form of SettledWasSent: the promise already holds for the
\* outcomes a transaction has recorded and not yet committed.
SentInv ==
    /\ SettledWasSent
    /\ \A r \in Relays, t \in Tickets :
         /\ mark[r][t] = "PUBLISHED" => created[t] > 0
         /\ mark[r][t] = "DLQ" => dead[t] > 0

\* More records never break it.
LEMMA RecordsKeepSent ==
    ASSUME TypeOK, SentInv, UNCHANGED <<status, mark>>,
           \A t \in Tickets : created'[t] >= created[t] /\ dead'[t] >= dead[t],
           created' \in [Tickets -> Nat], dead' \in [Tickets -> Nat]
    PROVE  SentInv'
  BY DEF SentInv, SettledWasSent, TypeOK

\* A failed send is marked PENDING, which promises nothing.
LEMMA FailureKeepsSent ==
    ASSUME NEW r \in Relays, NEW t \in Tickets,
           TypeOK, SentInv, MarkProcessed(r, t, "PENDING"), status' = status,
           \A u \in Tickets : created'[u] >= created[u] /\ dead'[u] >= dead[u],
           created' \in [Tickets -> Nat], dead' \in [Tickets -> Nat]
    PROVE  SentInv'
<1>1. \A s \in Relays, u \in Tickets :
        mark'[s][u] = mark[s][u] \/ mark'[s][u] = "PENDING"
  BY DEF MarkProcessed, TypeOK
<1>2. SettledWasSent'
  BY DEF SentInv, SettledWasSent, TypeOK
<1>3. \A s \in Relays, u \in Tickets :
        /\ mark'[s][u] = "PUBLISHED" => created'[u] > 0
        /\ mark'[s][u] = "DLQ" => dead'[u] > 0
  BY <1>1 DEF SentInv, TypeOK
<1> QED
  BY <1>2, <1>3 DEF SentInv

LEMMA SentStep == TypeOK /\ SentInv /\ [Next]_vars => SentInv'
<1> SUFFICES ASSUME TypeOK, SentInv, [Next]_vars PROVE SentInv'
  OBVIOUS
<1>1. ASSUME NEW t \in Tickets, NEW k \in IdempotencyKeys \cup {NoKey},
             NEW stamp \in Stamps, Create(t, k, stamp)
      PROVE SentInv'
  BY <1>1 DEF Create, SentInv, SettledWasSent, TypeOK, kafka
<1>2. ASSUME NEW r \in Relays, FetchPending(r) PROVE SentInv'
  BY <1>2 DEF FetchPending, SentInv, SettledWasSent, rows, kafka
<1>3. ASSUME NEW r \in Relays, NEW t \in Tickets, Publish(r, t) PROVE SentInv'
  <2>1. /\ Stored(t, Target(t))
        /\ mark' = [mark EXCEPT ![r][t] = Target(t)]
        /\ status' = status
    BY <1>3 DEF Publish, MarkProcessed, rows
  <2>2. \A u \in Tickets : created'[u] >= created[u] /\ dead'[u] >= dead[u]
    BY <2>1, StoredTyped DEF TypeOK
  <2>3. created' \in [Tickets -> Nat] /\ dead' \in [Tickets -> Nat]
    BY <2>1, StoredTyped DEF TypeOK
  <2>4. IF Target(t) = "DLQ" THEN dead'[t] > 0 ELSE created'[t] > 0
    BY <2>1, StoredTyped DEF TypeOK
  <2>5. \A s \in Relays, u \in Tickets :
          mark'[s][u] = mark[s][u] \/ (u = t /\ mark'[s][u] = Target(t))
    BY <2>1 DEF TypeOK
  <2> QED
    BY <2>1, <2>2, <2>3, <2>4, <2>5 DEF SentInv, SettledWasSent, TypeOK
<1>4. ASSUME NEW r \in Relays, NEW t \in Tickets, PublishRefused(r, t) PROVE SentInv'
  BY <1>4, FailureKeepsSent DEF PublishRefused, rows, kafka, TypeOK
<1>5. ASSUME NEW r \in Relays, NEW t \in Tickets, PublishFails(r, t) PROVE SentInv'
  <2>1. Stored(t, Target(t)) \/ UNCHANGED kafka
    BY <1>5 DEF PublishFails
  <2>2. /\ \A u \in Tickets : created'[u] >= created[u] /\ dead'[u] >= dead[u]
        /\ created' \in [Tickets -> Nat] /\ dead' \in [Tickets -> Nat]
    BY <2>1, StoredTyped DEF TypeOK
  <2> QED
    BY <1>5, <2>2, FailureKeepsSent DEF PublishFails, rows
<1>6. ASSUME NEW r \in Relays, Commit(r) PROVE SentInv'
  <2>1. \A t \in Tickets : status'[t] = status[t] \/ status'[t] = mark[r][t]
    BY <1>6 DEF Commit
  <2>2. \A s \in Relays, t \in Tickets :
          mark'[s][t] = mark[s][t] \/ mark'[s][t] = "NONE"
    BY <1>6 DEF Commit, Unmarked, TypeOK
  <2>3. UNCHANGED <<created, dead>>
    BY <1>6 DEF Commit, kafka
  <2> QED
    BY <2>1, <2>2, <2>3 DEF SentInv, SettledWasSent
<1>7. ASSUME NEW r \in Relays, OrphanEnds(r) PROVE SentInv'
  <2>1. PICK send \in orphan[r] : Stored(send[1], send[2]) \/ UNCHANGED kafka
    BY <1>7 DEF OrphanEnds
  <2>2. send[1] \in Tickets
    BY DEF TypeOK
  <2>3. /\ \A u \in Tickets : created'[u] >= created[u] /\ dead'[u] >= dead[u]
        /\ created' \in [Tickets -> Nat] /\ dead' \in [Tickets -> Nat]
    BY <2>1, <2>2, StoredTyped DEF TypeOK
  <2>4. UNCHANGED <<status, mark>>
    BY <1>7 DEF OrphanEnds, rows
  <2> QED
    BY <2>3, <2>4, RecordsKeepSent
<1>8. ASSUME NEW r \in Relays, SessionLost(r) PROVE SentInv'
  <2>1. mark' = [mark EXCEPT ![r] = Unmarked] /\ UNCHANGED <<status, created, dead>>
    BY <1>8 DEF SessionLost, rows, kafka
  <2>2. \A s \in Relays, t \in Tickets :
          mark'[s][t] = mark[s][t] \/ mark'[s][t] = "NONE"
    BY <2>1 DEF Unmarked, TypeOK
  <2> QED
    BY <2>1, <2>2 DEF SentInv, SettledWasSent
<1>9. CASE UNCHANGED vars
  BY <1>9 DEF vars, SentInv, SettledWasSent
<1> QED
  BY <1>1, <1>2, <1>3, <1>4, <1>5, <1>6, <1>7, <1>8, <1>9 DEF Next, RelayStep

LEMMA Sent == Spec => []SentInv
<1>1. Init => SentInv
  BY DEF Init, SentInv, SettledWasSent, Unmarked
<1> QED
  BY <1>1, SentStep, TypeCorrect, PTL DEF Spec

\* No accepted ticket is lost between the database and the broker: a row leaves
\* PENDING only when Kafka holds its event, whatever fails and in whatever order.
THEOREM NothingIsLost == Spec => []SettledWasSent
<1>1. SentInv => SettledWasSent
  BY DEF SentInv
<1> QED
  BY <1>1, Sent, PTL

\* No relay reopens or re-marks a settled row, whichever transaction is open.
THEOREM SettlementIsFinal == Spec => SettledIsFinal
<1> DEFINE Final == \A t \in Tickets : status[t] \in Settled =>
                      status'[t] = status[t] /\ attempts'[t] = attempts[t]
<1>1. TypeOK /\ LockInv /\ [Next]_vars => [Final]_vars
  <2> SUFFICES ASSUME TypeOK, LockInv, Next, NEW u \in Tickets, status[u] \in Settled
               PROVE  status'[u] = status[u] /\ attempts'[u] = attempts[u]
    OBVIOUS
  <2>1. ASSUME NEW t \in Tickets, NEW k \in IdempotencyKeys \cup {NoKey},
               NEW stamp \in Stamps, Create(t, k, stamp)
        PROVE status'[u] = status[u] /\ attempts'[u] = attempts[u]
    BY <2>1 DEF Create, Settled, TypeOK
  <2>2. ASSUME NEW r \in Relays, Commit(r)
        PROVE status'[u] = status[u] /\ attempts'[u] = attempts[u]
    <3>1. ~Holds(r, u)
      BY DEF LockInv, Settled
    <3> QED
      BY <2>2, <3>1 DEF Commit, Holds
  <2>3. ASSUME NEW r \in Relays, RelayStep(r) \/ SessionLost(r), ~Commit(r)
        PROVE status'[u] = status[u] /\ attempts'[u] = attempts[u]
    BY <2>3 DEF RelayStep, FetchPending, Publish, PublishRefused, PublishFails,
                OrphanEnds, SessionLost, rows
  <2> QED
    BY <2>1, <2>2, <2>3 DEF Next
<1> QED
  BY <1>1, TypeCorrect, Locks, PTL DEF Spec, SettledIsFinal

-----------------------------------------------------------------------------
\* The dead-letter limit.

\* Inductive form of DlqIsLastResort: a send that outlives its session was
\* aimed at the dead-letter topic only if the limit had been reached then.
LimitInv ==
    /\ DlqIsLastResort
    /\ \A r \in Relays : \A send \in orphan[r] :
         send[2] = "DLQ" => attempts[send[1]] >= MaxAttemptsBeforeDlq

LEMMA LimitStep == TypeOK /\ LimitInv /\ [Next]_vars => LimitInv'
<1> SUFFICES ASSUME TypeOK, LimitInv, [Next]_vars PROVE LimitInv'
  OBVIOUS
<1> USE OutboxConstants
<1>1. ASSUME NEW t \in Tickets, NEW k \in IdempotencyKeys \cup {NoKey},
             NEW stamp \in Stamps, Create(t, k, stamp)
      PROVE LimitInv'
  BY <1>1 DEF Create, LimitInv, DlqIsLastResort, kafka
<1>2. ASSUME NEW r \in Relays, FetchPending(r) PROVE LimitInv'
  BY <1>2 DEF FetchPending, LimitInv, DlqIsLastResort, rows, kafka
<1>3. ASSUME NEW r \in Relays, NEW t \in Tickets,
             Publish(r, t) \/ PublishRefused(r, t) \/ PublishFails(r, t)
      PROVE LimitInv'
  <2>1. (Stored(t, Target(t)) \/ UNCHANGED kafka) /\ UNCHANGED <<attempts, orphan>>
    BY <1>3 DEF Publish, PublishRefused, PublishFails, rows
  <2>2. \A u \in Tickets \ {t} : dead'[u] = dead[u]
    BY <2>1, StoredTyped DEF TypeOK
  <2>3. dead'[t] = dead[t] \/ attempts[t] >= MaxAttemptsBeforeDlq
    <3>1. Target(t) # "DLQ" => dead'[t] = dead[t]
      BY ONLY TypeOK, <2>1, StoredTyped, t \in Tickets DEF TypeOK
    <3> QED
      BY <3>1 DEF Target
  <2> QED
    BY <2>1, <2>2, <2>3 DEF LimitInv, DlqIsLastResort
<1>4. ASSUME NEW r \in Relays, Commit(r) PROVE LimitInv'
  <2>1. \A t \in Tickets : attempts[t] \in Nat /\ attempts'[t] \in Nat
                           /\ attempts'[t] >= attempts[t]
    BY <1>4 DEF Commit, TypeOK, AttemptsCap
  <2>2. UNCHANGED <<dead, orphan>>
    BY <1>4 DEF Commit, kafka
  <2>3. \A s \in Relays : \A send \in orphan[s] : send[1] \in Tickets
    BY DEF TypeOK
  <2> QED
    BY <2>1, <2>2, <2>3 DEF LimitInv, DlqIsLastResort
<1>5. ASSUME NEW r \in Relays, OrphanEnds(r) PROVE LimitInv'
  <2>1. PICK send \in orphan[r] : Stored(send[1], send[2]) \/ UNCHANGED kafka
    BY <1>5 DEF OrphanEnds
  <2>2. send[1] \in Tickets
    BY DEF TypeOK
  <2>3. \A u \in Tickets \ {send[1]} : dead'[u] = dead[u]
    BY <2>1, <2>2, StoredTyped DEF TypeOK
  <2>4. send[2] # "DLQ" => dead'[send[1]] = dead[send[1]]
    BY ONLY TypeOK, <2>1, <2>2, StoredTyped DEF TypeOK
  <2>5. attempts' = attempts /\ orphan' = [orphan EXCEPT ![r] = {}]
    BY <1>5 DEF OrphanEnds, rows
  <2>6. \A s \in Relays : \A other \in orphan'[s] : other \in orphan[s]
    BY <2>5 DEF TypeOK
  <2> QED
    BY <2>2, <2>3, <2>4, <2>5, <2>6 DEF LimitInv, DlqIsLastResort
<1>6. ASSUME NEW r \in Relays, SessionLost(r) PROVE LimitInv'
  <2>1. UNCHANGED <<attempts, dead>>
    BY <1>6 DEF SessionLost, rows, kafka
  <2>2. CASE UNCHANGED orphan
    BY <2>1, <2>2 DEF LimitInv, DlqIsLastResort
  <2>3. ASSUME NEW t \in Tickets,
               orphan' = [orphan EXCEPT ![r] = {<<t, Target(t)>>}]
        PROVE LimitInv'
    <3>1. Target(t) = "DLQ" => attempts[t] >= MaxAttemptsBeforeDlq
      BY DEF Target
    <3>2. \A s \in Relays : \A send \in orphan'[s] :
            send \in orphan[s] \/ send = <<t, Target(t)>>
      BY <2>3 DEF TypeOK
    <3> QED
      BY <2>1, <3>1, <3>2 DEF LimitInv, DlqIsLastResort
  <2> QED
    BY <1>6, <2>2, <2>3 DEF SessionLost
<1>7. CASE UNCHANGED vars
  BY <1>7 DEF vars, LimitInv, DlqIsLastResort
<1> QED
  BY <1>1, <1>2, <1>3, <1>4, <1>5, <1>6, <1>7 DEF Next, RelayStep

\* No ticket reaches the dead-letter topic before its row has recorded the
\* configured number of failures, even through a send that outlived its session.
THEOREM DeadLettersAreLastResort == Spec => []DlqIsLastResort
<1>1. Init => LimitInv
  BY DEF Init, LimitInv, DlqIsLastResort
<1>2. LimitInv => DlqIsLastResort
  BY DEF LimitInv
<1> QED
  BY <1>1, <1>2, LimitStep, TypeCorrect, PTL DEF Spec

-----------------------------------------------------------------------------
\* Idempotency keys.

\* Inductive form of OneEventPerKey: only accepted tickets are ever sent, and
\* accepted tickets do not share a key.
KeyInv ==
    /\ \A t \in Tickets : status[t] = "ABSENT" => created[t] = 0 /\ dead[t] = 0
    /\ \A r \in Relays : \A send \in orphan[r] : status[send[1]] # "ABSENT"
    /\ \A t, u \in Tickets :
         t # u /\ status[t] # "ABSENT" /\ status[u] # "ABSENT"
         => keyOf[t] = NoKey \/ keyOf[t] # keyOf[u]

\* A step that sends for accepted tickets only, and accepts none, keeps it.
LEMMA SendKeepsKeys ==
    ASSUME TypeOK, KeyInv, keyOf' = keyOf,
           \A t \in Tickets : status'[t] = "ABSENT" <=> status[t] = "ABSENT",
           \A t \in Tickets : status[t] = "ABSENT" =>
             created'[t] = created[t] /\ dead'[t] = dead[t],
           \A r \in Relays : \A send \in orphan'[r] :
             send[1] \in Tickets /\ status[send[1]] # "ABSENT"
    PROVE  KeyInv'
  BY DEF KeyInv

LEMMA KeyStep == TypeOK /\ LockInv /\ KeyInv /\ [Next]_vars => KeyInv'
<1> SUFFICES ASSUME TypeOK, LockInv, KeyInv, [Next]_vars PROVE KeyInv'
  OBVIOUS
<1>0. \A r \in Relays : \A send \in orphan[r] :
        send[1] \in Tickets /\ status[send[1]] # "ABSENT"
  BY DEF TypeOK, KeyInv
<1>1. ASSUME NEW t \in Tickets, NEW k \in IdempotencyKeys \cup {NoKey},
             NEW stamp \in Stamps, Create(t, k, stamp)
      PROVE KeyInv'
  <2>1. /\ keyOf' = [keyOf EXCEPT ![t] = k]
        /\ status' = [status EXCEPT ![t] = "PENDING"]
        /\ UNCHANGED <<orphan, created, dead>>
        /\ k = NoKey \/ \A u \in Tickets : status[u] # "ABSENT" => keyOf[u] # k
        /\ status[t] = "ABSENT"
    BY <1>1 DEF Create, KeyIsFree, kafka
  <2> QED
    BY <1>0, <2>1 DEF KeyInv, TypeOK
<1>2. ASSUME NEW r \in Relays, FetchPending(r) PROVE KeyInv'
  BY <1>0, <1>2, SendKeepsKeys DEF FetchPending, rows, kafka
<1>3. ASSUME NEW r \in Relays, NEW t \in Tickets,
             Publish(r, t) \/ PublishRefused(r, t) \/ PublishFails(r, t)
      PROVE KeyInv'
  <2>1. /\ Stored(t, Target(t)) \/ UNCHANGED kafka
        /\ UNCHANGED <<keyOf, status, orphan>>
        /\ t \in todo[r]
    BY <1>3 DEF Publish, PublishRefused, PublishFails, IsNext, rows
  <2>2. status[t] # "ABSENT"
    BY <2>1 DEF LockInv, Holds
  <2>3. \A u \in Tickets \ {t} : created'[u] = created[u] /\ dead'[u] = dead[u]
    BY <2>1, StoredTyped DEF TypeOK
  <2> QED
    BY <1>0, <2>1, <2>2, <2>3, SendKeepsKeys
<1>4. ASSUME NEW r \in Relays, Commit(r) PROVE KeyInv'
  <2>1. \A t \in Tickets : mark[r][t] # "NONE" =>
          status[t] # "ABSENT" /\ mark[r][t] # "ABSENT"
    BY DEF LockInv, Holds, TypeOK, Status, Settled
  <2>2. \A t \in Tickets : status'[t] = "ABSENT" <=> status[t] = "ABSENT"
    BY <1>4, <2>1 DEF Commit
  <2> QED
    BY <1>0, <1>4, <2>2, SendKeepsKeys DEF Commit, kafka
<1>5. ASSUME NEW r \in Relays, OrphanEnds(r) PROVE KeyInv'
  <2>1. PICK send \in orphan[r] : Stored(send[1], send[2]) \/ UNCHANGED kafka
    BY <1>5 DEF OrphanEnds
  <2>2. send[1] \in Tickets /\ status[send[1]] # "ABSENT"
    BY <1>0
  <2>3. \A u \in Tickets \ {send[1]} : created'[u] = created[u] /\ dead'[u] = dead[u]
    BY <2>1, <2>2, StoredTyped DEF TypeOK
  <2>4. UNCHANGED <<keyOf, status>> /\ orphan' = [orphan EXCEPT ![r] = {}]
    BY <1>5 DEF OrphanEnds, rows
  <2>5. \A s \in Relays : \A other \in orphan'[s] : other \in orphan[s]
    BY <2>4 DEF TypeOK
  <2> QED
    BY <1>0, <2>2, <2>3, <2>4, <2>5, SendKeepsKeys
<1>6. ASSUME NEW r \in Relays, SessionLost(r) PROVE KeyInv'
  <2>1. UNCHANGED <<keyOf, status, created, dead>>
    BY <1>6 DEF SessionLost, rows, kafka
  <2>2. CASE UNCHANGED orphan
    BY <1>0, <2>1, <2>2, SendKeepsKeys
  <2>3. ASSUME NEW t \in Tickets, t \in todo[r],
               orphan' = [orphan EXCEPT ![r] = {<<t, Target(t)>>}]
        PROVE KeyInv'
    <3>1. status[t] # "ABSENT"
      BY <2>3 DEF LockInv, Holds
    <3>2. \A s \in Relays : \A send \in orphan'[s] :
            send \in orphan[s] \/ send = <<t, Target(t)>>
      BY <2>3 DEF TypeOK
    <3> QED
      BY <1>0, <2>1, <3>1, <3>2, SendKeepsKeys
  <2> QED
    BY <1>6, <2>2, <2>3 DEF SessionLost, IsNext
<1>7. CASE UNCHANGED vars
  BY <1>7 DEF vars, KeyInv
<1> QED
  BY <1>1, <1>2, <1>3, <1>4, <1>5, <1>6, <1>7 DEF Next, RelayStep

LEMMA Keys == Spec => []KeyInv
<1>1. Init => KeyInv
  BY DEF Init, KeyInv
<1> QED
  BY <1>1, KeyStep, TypeCorrect, Locks, PTL DEF Spec

\* However often a client repeats a request under one idempotencyKey, at most
\* one ticket of that key has an event in Kafka.
THEOREM KeysSendOnce == Spec => []OneEventPerKey
<1>1. TypeOK /\ KeyInv => OneEventPerKey
  <2> SUFFICES ASSUME TypeOK, KeyInv, NEW t \in Tickets, NEW u \in Tickets, t # u,
                      created[t] + dead[t] > 0, created[u] + dead[u] > 0
               PROVE  keyOf[t] = NoKey \/ keyOf[t] # keyOf[u]
    BY DEF OneEventPerKey
  <2>1. status[t] # "ABSENT" /\ status[u] # "ABSENT"
    BY DEF KeyInv
  <2> QED
    BY <2>1 DEF KeyInv
<1> QED
  BY <1>1, Keys, TypeCorrect, PTL

-----------------------------------------------------------------------------
\* The contract of the ingestion service.

\* One more record of an accepted ticket is a Deliver or a DeadLetter step.
LEMMA StoredIsContractStep ==
    ASSUME NEW t \in Tickets, NEW target, TypeOK,
           status[t] # "ABSENT", status' = status,
           Stored(t, target) \/ UNCHANGED kafka
    PROVE  [Contract!Next]_Contract!vars
<1>1. CASE UNCHANGED kafka
  BY <1>1 DEF Contract!vars, kafka
<1>2. CASE Stored(t, target) /\ target = "DLQ"
  <2>1. {u \in Tickets : dead'[u] > 0} = {u \in Tickets : dead[u] > 0} \cup {t}
    BY <1>2 DEF Stored, TypeOK
  <2>2. Contract!DeadLetter(t)
    BY <1>2, <2>1 DEF Contract!DeadLetter, Stored
  <2> QED
    BY <2>2 DEF Contract!Next
<1>3. CASE Stored(t, target) /\ target # "DLQ"
  <2>1. {u \in Tickets : created'[u] > 0} = {u \in Tickets : created[u] > 0} \cup {t}
    BY <1>3 DEF Stored, TypeOK
  <2>2. Contract!Deliver(t)
    BY <1>3, <2>1 DEF Contract!Deliver, Stored
  <2> QED
    BY <2>2 DEF Contract!Next
<1> QED
  BY <1>1, <1>2, <1>3

LEMMA ContractStep ==
    TypeOK /\ LockInv /\ SentInv /\ KeyInv /\ [Next]_vars
    => [Contract!Next]_Contract!vars
<1> SUFFICES ASSUME TypeOK, LockInv, SentInv, KeyInv, [Next]_vars
             PROVE  [Contract!Next]_Contract!vars
  OBVIOUS
<1>1. ASSUME NEW t \in Tickets, NEW k \in IdempotencyKeys \cup {NoKey},
             NEW stamp \in Stamps, Create(t, k, stamp)
      PROVE Contract!Next
  <2>1. /\ status' = [status EXCEPT ![t] = "PENDING"] /\ status[t] = "ABSENT"
        /\ UNCHANGED <<created, dead>>
    BY <1>1 DEF Create, kafka
  <2>2. {u \in Tickets : status'[u] # "ABSENT"}
          = {u \in Tickets : status[u] # "ABSENT"} \cup {t}
    BY <2>1 DEF TypeOK
  <2>3. {u \in Tickets : status'[u] \in Settled}
          = {u \in Tickets : status[u] \in Settled}
    BY <2>1 DEF TypeOK, Settled
  <2>4. Contract!Accept(t)
    BY <2>1, <2>2, <2>3 DEF Contract!Accept
  <2> QED
    BY <2>4 DEF Contract!Next
<1>2. ASSUME NEW r \in Relays, FetchPending(r) PROVE UNCHANGED Contract!vars
  BY <1>2 DEF FetchPending, Contract!vars, rows, kafka
<1>3. ASSUME NEW r \in Relays, NEW t \in Tickets,
             Publish(r, t) \/ PublishRefused(r, t) \/ PublishFails(r, t)
      PROVE [Contract!Next]_Contract!vars
  <2>1. /\ Stored(t, Target(t)) \/ UNCHANGED kafka
        /\ status' = status
        /\ t \in todo[r]
    BY <1>3 DEF Publish, PublishRefused, PublishFails, IsNext, rows
  <2>2. status[t] # "ABSENT"
    BY <2>1 DEF LockInv, Holds
  <2> QED
    BY <2>1, <2>2, StoredIsContractStep
<1>4. ASSUME NEW r \in Relays, Commit(r) PROVE Contract!Next
  <2>0. PICK confirmed \in SUBSET Tickets :
          confirmed = {t \in Tickets : mark[r][t] \in Settled}
    OBVIOUS
  <2>1. /\ \A t \in Tickets :
             status'[t] = IF mark[r][t] = "NONE" THEN status[t] ELSE mark[r][t]
        /\ UNCHANGED <<created, dead>>
    BY <1>4 DEF Commit, kafka
  <2>2. \A t \in Tickets : mark[r][t] # "NONE" =>
          status[t] = "PENDING" /\ mark[r][t] \in Status
    BY DEF LockInv, Holds, TypeOK
  <2>3. \A t \in Tickets : status'[t] # "ABSENT" <=> status[t] # "ABSENT"
    BY <2>1, <2>2 DEF Status, Settled
  <2>4. {t \in Tickets : status'[t] \in Settled}
          = {t \in Tickets : status[t] \in Settled} \cup confirmed
    BY <2>0, <2>1, <2>2 DEF Status, Settled
  <2>5. confirmed \subseteq {t \in Tickets : created[t] > 0}
                        \cup {t \in Tickets : dead[t] > 0}
    BY <2>0 DEF SentInv, Settled
  <2>6. Contract!Settle(confirmed)
    BY <2>1, <2>3, <2>4, <2>5 DEF Contract!Settle
  <2> QED
    BY <2>6 DEF Contract!Next
<1>5. ASSUME NEW r \in Relays, OrphanEnds(r) PROVE [Contract!Next]_Contract!vars
  <2>1. PICK send \in orphan[r] : Stored(send[1], send[2]) \/ UNCHANGED kafka
    BY <1>5 DEF OrphanEnds
  <2>2. send[1] \in Tickets /\ status[send[1]] # "ABSENT"
    BY DEF TypeOK, KeyInv
  <2>3. status' = status
    BY <1>5 DEF OrphanEnds, rows
  <2> QED
    BY <2>1, <2>2, <2>3, StoredIsContractStep
<1>6. ASSUME NEW r \in Relays, SessionLost(r) PROVE UNCHANGED Contract!vars
  BY <1>6 DEF SessionLost, Contract!vars, rows, kafka
<1>7. CASE UNCHANGED vars
  BY <1>7 DEF vars, Contract!vars
<1> QED
  BY <1>1, <1>2, <1>3, <1>4, <1>5, <1>6, <1>7 DEF Next, RelayStep

\* The outbox keeps the contract of the ingestion service: every one of its
\* steps accepts, delivers, dead-letters or settles as OutboxContract allows.
THEOREM OutboxKeepsContract == Spec => ContractSpec
<1>1. Init => Contract!Init
  BY DEF Init, Contract!Init, Settled
<1> QED
  BY <1>1, ContractStep, TypeCorrect, Locks, Sent, Keys, PTL
     DEF Spec, ContractSpec, Contract!Spec

-----------------------------------------------------------------------------
\* Duplicates.

\* The instances with a send of t that outlived its session.
Owing(t) == {r \in Relays : \E send \in orphan[r] : send[1] = t}

\* Some transaction has recorded a successful send of t, or a committed one has.
Earned(t) == status[t] \in Settled \/ \E r \in Relays : mark[r][t] \in Settled

\* Inductive form of DuplicatesNeedFaults: besides the one record a ticket has
\* earned, each record written or still under way is paid for by a fault.
DupInv ==
    \A t \in Tickets :
        created[t] + dead[t] + Cardinality(Owing(t))
          <= faults + IF Earned(t) THEN 1 ELSE 0

LEMMA OwingFinite ==
    ASSUME NEW t \in Tickets
    PROVE  IsFiniteSet(Owing(t)) /\ Cardinality(Owing(t)) \in Nat
  BY OutboxConstants, FS_Subset, FS_CardinalityType DEF Owing

LEMMA OwingAddRemove ==
    ASSUME NEW t \in Tickets, NEW r, NEW after
    PROVE  /\ after = Owing(t) \cup {r} => Cardinality(after) <= Cardinality(Owing(t)) + 1
           /\ after = Owing(t) \ {r} =>
                Cardinality(after) = IF r \in Owing(t) THEN Cardinality(Owing(t)) - 1
                                                      ELSE Cardinality(Owing(t))
<1>1. IsFiniteSet(Owing(t)) /\ Cardinality(Owing(t)) \in Nat
  BY OwingFinite
<1>2. Cardinality(Owing(t) \cup {r}) <= Cardinality(Owing(t)) + 1
  <2>1. Cardinality(Owing(t) \cup {r}) = IF r \in Owing(t) THEN Cardinality(Owing(t))
                                         ELSE Cardinality(Owing(t)) + 1
    BY <1>1, FS_AddElement
  <2> QED
    BY <1>1, <2>1
<1>3. Cardinality(Owing(t) \ {r}) = IF r \in Owing(t) THEN Cardinality(Owing(t)) - 1
                                                      ELSE Cardinality(Owing(t))
  BY <1>1, FS_RemoveElement
<1> QED
  BY <1>2, <1>3

\* A row still to be sent has earned nothing yet, under any instance.
LEMMA TodoIsUnearned ==
    ASSUME TypeOK, LockInv, NEW r \in Relays, NEW t \in todo[r]
    PROVE  t \in Tickets /\ ~Earned(t)
<1>1. t \in Tickets
  BY DEF TypeOK
<1>2. status[t] = "PENDING" /\ mark[r][t] = "NONE"
  BY <1>1 DEF LockInv, Holds
<1>3. \A s \in Relays : mark[s][t] # "NONE" => s = r
  BY <1>1 DEF LockInv, Holds
<1> QED
  BY <1>1, <1>2, <1>3 DEF Earned, Settled

\* A step that pays a fault for each record it adds keeps the balance.
LEMMA BalanceKept ==
    ASSUME TypeOK, TypeOK', DupInv,
           \A t \in Tickets :
             created'[t] + dead'[t] + Cardinality(Owing(t)') + faults
               <= created[t] + dead[t] + Cardinality(Owing(t)) + faults',
           \A t \in Tickets : Earned(t) => Earned(t)'
    PROVE  DupInv'
<1> SUFFICES ASSUME NEW t \in Tickets
             PROVE  created'[t] + dead'[t] + Cardinality(Owing(t)')
                      <= faults' + IF Earned(t)' THEN 1 ELSE 0
  BY DEF DupInv
<1> DEFINE before == Cardinality(Owing(t))
           after  == Cardinality(Owing(t)')
<1>1. before \in Nat
  BY OwingFinite
<1>2. after \in Nat
  <2>1. Owing(t)' \subseteq Relays
    BY DEF Owing
  <2> QED
    BY <2>1, OutboxConstants, FS_Subset, FS_CardinalityType
<1>3. /\ created[t] + dead[t] + before <= faults + IF Earned(t) THEN 1 ELSE 0
      /\ created'[t] + dead'[t] + after + faults <= created[t] + dead[t] + before + faults'
      /\ Earned(t) => Earned(t)'
  BY DEF DupInv, before, after
<1>4. /\ created[t] \in Nat /\ dead[t] \in Nat /\ faults \in Nat
      /\ created'[t] \in Nat /\ dead'[t] \in Nat /\ faults' \in Nat
  BY OutboxConstants DEF TypeOK
<1>5. created'[t] + dead'[t] + after <= faults' + IF Earned(t)' THEN 1 ELSE 0
  <2> HIDE DEF before, after
  <2> QED
    BY <1>1, <1>2, <1>3, <1>4
<1> QED
  BY <1>5

LEMMA DupStep ==
    TypeOK /\ TypeOK' /\ LockInv /\ DupInv /\ [Next]_vars => DupInv'
<1> SUFFICES ASSUME TypeOK, TypeOK', LockInv, DupInv, [Next]_vars PROVE DupInv'
  OBVIOUS
<1> USE DEF TypeOK
<1>0. /\ \A t \in Tickets : Cardinality(Owing(t)) \in Nat
      /\ \A t \in Tickets : created[t] + dead[t] \in Nat
      /\ faults \in Nat
  BY OwingFinite, OutboxConstants
<1>1. ASSUME NEW t \in Tickets, NEW k \in IdempotencyKeys \cup {NoKey},
             NEW stamp \in Stamps, Create(t, k, stamp)
      PROVE DupInv'
  <2>1. UNCHANGED <<mark, orphan, created, dead, faults>>
    BY <1>1 DEF Create, kafka
  <2>2. \A u \in Tickets : Owing(u)' = Owing(u) /\ (Earned(u) => Earned(u)')
    BY <1>1, <2>1 DEF Create, Owing, Earned, Settled
  <2> QED
    BY <1>0, <2>1, <2>2, BalanceKept
<1>2. ASSUME NEW r \in Relays, FetchPending(r) PROVE DupInv'
  <2>1. UNCHANGED <<status, mark, orphan, created, dead, faults>>
    BY <1>2 DEF FetchPending, rows, kafka
  <2>2. \A u \in Tickets : Owing(u)' = Owing(u) /\ (Earned(u) => Earned(u)')
    BY <2>1 DEF Owing, Earned
  <2> QED
    BY <1>0, <2>1, <2>2, BalanceKept
<1>3. ASSUME NEW r \in Relays, NEW t \in Tickets, Publish(r, t) PROVE DupInv'
  <2>1. /\ Stored(t, Target(t)) /\ t \in todo[r]
        /\ mark' = [mark EXCEPT ![r][t] = Target(t)]
        /\ UNCHANGED <<status, orphan, faults>>
    BY <1>3 DEF Publish, MarkProcessed, IsNext, rows
  <2>2. /\ \A u \in Tickets \ {t} : created'[u] = created[u] /\ dead'[u] = dead[u]
        /\ created'[t] + dead'[t] <= created[t] + dead[t] + 1
    BY <2>1, StoredTyped
  <2>3. ~Earned(t)
    BY <2>1, TodoIsUnearned
  <2>4. Earned(t)'
    BY <2>1, TargetTyped DEF Earned
  <2>5. \A u \in Tickets \ {t} : Earned(u)' <=> Earned(u)
    BY <2>1 DEF Earned
  <2>6. \A u \in Tickets : Owing(u)' = Owing(u)
    BY <2>1 DEF Owing
  <2>7. created'[t] + dead'[t] \in Nat
    OBVIOUS
  <2> QED
    BY <1>0, <2>1, <2>2, <2>3, <2>4, <2>5, <2>6, <2>7 DEF DupInv
<1>4. ASSUME NEW r \in Relays, NEW t \in Tickets, PublishRefused(r, t) PROVE DupInv'
  <2>1. /\ t \in todo[r] /\ mark' = [mark EXCEPT ![r][t] = "PENDING"]
        /\ UNCHANGED <<status, orphan, created, dead, faults>>
    BY <1>4 DEF PublishRefused, MarkProcessed, IsNext, rows, kafka
  <2>2. ~Earned(t)
    BY <2>1, TodoIsUnearned
  <2>3. \A u \in Tickets : Owing(u)' = Owing(u) /\ (Earned(u) => Earned(u)')
    BY <2>1, <2>2 DEF Owing, Earned
  <2> QED
    BY <1>0, <2>1, <2>3, BalanceKept
<1>5. ASSUME NEW r \in Relays, NEW t \in Tickets, PublishFails(r, t) PROVE DupInv'
  <2>1. /\ Stored(t, Target(t)) \/ UNCHANGED kafka
        /\ t \in todo[r] /\ mark' = [mark EXCEPT ![r][t] = "PENDING"]
        /\ UNCHANGED <<status, orphan>> /\ faults' = faults + 1
    BY <1>5 DEF PublishFails, MarkProcessed, IsNext, rows
  <2>2. /\ \A u \in Tickets \ {t} : created'[u] = created[u] /\ dead'[u] = dead[u]
        /\ created'[t] + dead'[t] <= created[t] + dead[t] + 1
    BY <2>1, StoredTyped
  <2>3. ~Earned(t)
    BY <2>1, TodoIsUnearned
  <2>4. \A u \in Tickets : Owing(u)' = Owing(u) /\ (Earned(u) => Earned(u)')
    BY <2>1, <2>3 DEF Owing, Earned
  <2>5. \A u \in Tickets : created'[u] + dead'[u] \in Nat
    OBVIOUS
  <2>6. \A u \in Tickets : created'[u] + dead'[u] <= created[u] + dead[u] + 1
    <3> SUFFICES ASSUME NEW u \in Tickets
                 PROVE  created'[u] + dead'[u] <= created[u] + dead[u] + 1
      OBVIOUS
    <3>1. created[u] \in Nat /\ dead[u] \in Nat
      BY <1>0
    <3>2. \/ created'[u] = created[u] /\ dead'[u] = dead[u]
          \/ created'[u] + dead'[u] <= created[u] + dead[u] + 1
      BY ONLY <2>2, u \in Tickets
    <3> QED
      BY ONLY <3>1, <3>2
  <2> QED
    BY <1>0, <2>1, <2>4, <2>5, <2>6, BalanceKept
<1>6. ASSUME NEW r \in Relays, Commit(r) PROVE DupInv'
  <2>1. UNCHANGED <<orphan, created, dead, faults>>
    BY <1>6 DEF Commit, kafka
  <2>2. \A u \in Tickets : Earned(u) => Earned(u)'
    <3> SUFFICES ASSUME NEW u \in Tickets, Earned(u) PROVE Earned(u)'
      OBVIOUS
    <3>1. CASE status[u] \in Settled
      <4>1. mark[r][u] = "NONE"
        BY <3>1 DEF LockInv, Holds, Settled
      <4> QED
        BY <1>6, <3>1, <4>1 DEF Commit, Earned
    <3>2. CASE mark[r][u] \in Settled
      BY <1>6, <3>2 DEF Commit, Earned, Settled
    <3>3. ASSUME NEW s \in Relays \ {r}, mark[s][u] \in Settled PROVE Earned(u)'
      BY <1>6, <3>3 DEF Commit, Earned
    <3> QED
      BY <3>1, <3>2, <3>3 DEF Earned
  <2>3. \A u \in Tickets : Owing(u)' = Owing(u)
    BY <2>1 DEF Owing
  <2> QED
    BY <1>0, <2>1, <2>2, <2>3, BalanceKept
<1>7. ASSUME NEW r \in Relays, OrphanEnds(r) PROVE DupInv'
  <2>1. PICK send \in orphan[r] : Stored(send[1], send[2]) \/ UNCHANGED kafka
    BY <1>7 DEF OrphanEnds
  <2>2. send[1] \in Tickets
    OBVIOUS
  <2>3. /\ \A u \in Tickets \ {send[1]} : created'[u] = created[u] /\ dead'[u] = dead[u]
        /\ created'[send[1]] + dead'[send[1]] <= created[send[1]] + dead[send[1]] + 1
    BY <2>1, <2>2, StoredTyped
  <2>4. UNCHANGED <<status, mark, faults>> /\ orphan' = [orphan EXCEPT ![r] = {}]
    BY <1>7 DEF OrphanEnds, rows
  <2>5. \A u \in Tickets : Owing(u)' = Owing(u) \ {r} /\ (Earned(u) => Earned(u)')
    BY <2>4 DEF Owing, Earned
  <2>6. r \in Owing(send[1])
    BY DEF Owing
  <2>7. \A u \in Tickets :
          Cardinality(Owing(u)') = IF r \in Owing(u) THEN Cardinality(Owing(u)) - 1
                                                     ELSE Cardinality(Owing(u))
    BY ONLY <2>5, OwingAddRemove
  <2>8. \A u \in Tickets : created'[u] + dead'[u] \in Nat
    OBVIOUS
  <2>9. \A u \in Tickets :
          created'[u] + dead'[u] + Cardinality(Owing(u)') + faults
            <= created[u] + dead[u] + Cardinality(Owing(u)) + faults'
    <3> SUFFICES ASSUME NEW u \in Tickets
                 PROVE  created'[u] + dead'[u] + Cardinality(Owing(u)') + faults
                          <= created[u] + dead[u] + Cardinality(Owing(u)) + faults'
      OBVIOUS
    <3> DEFINE before == Cardinality(Owing(u))
               after  == Cardinality(Owing(u)')
    <3>1. before \in Nat /\ after = IF r \in Owing(u) THEN before - 1 ELSE before
      BY <2>7, OwingFinite
    <3>2. /\ u = send[1] => r \in Owing(u)
          /\ created'[u] + dead'[u]
               <= created[u] + dead[u] + IF u = send[1] THEN 1 ELSE 0
      BY <2>2, <2>3, <2>6, <1>0
    <3>3. /\ created[u] \in Nat /\ dead[u] \in Nat /\ faults \in Nat
          /\ created'[u] \in Nat /\ dead'[u] \in Nat /\ faults' = faults
      BY <1>0, <2>4
    <3> HIDE DEF before, after
    <3>4. created'[u] + dead'[u] + after + faults
            <= created[u] + dead[u] + before + faults'
      BY ONLY <3>1, <3>2, <3>3
    <3> QED
      BY ONLY <3>4 DEF before, after
  <2> QED
    BY <2>5, <2>9, BalanceKept
<1>8. ASSUME NEW r \in Relays, SessionLost(r) PROVE DupInv'
  <2>1. /\ mark' = [mark EXCEPT ![r] = Unmarked]
        /\ UNCHANGED <<status, created, dead>> /\ faults' = faults + 1
    BY <1>8 DEF SessionLost, rows, kafka
  <2>2. CASE UNCHANGED orphan
    <3>1. \A u \in Tickets : Owing(u)' = Owing(u)
      BY <2>2 DEF Owing
    <3>2. \A u \in Tickets : Cardinality(Owing(u)') = Cardinality(Owing(u))
      BY <3>1
    <3>3. \A u \in Tickets :
            created[u] + dead[u] + Cardinality(Owing(u)) <= faults + 1
      <4> SUFFICES ASSUME NEW u \in Tickets
                   PROVE  created[u] + dead[u] + Cardinality(Owing(u)) <= faults + 1
        OBVIOUS
      <4>1. created[u] + dead[u] + Cardinality(Owing(u))
              <= faults + IF Earned(u) THEN 1 ELSE 0
        BY DEF DupInv
      <4> QED
        BY ONLY <1>0, <4>1, u \in Tickets
    <3>4. \A u \in Tickets :
            /\ created'[u] + dead'[u] + Cardinality(Owing(u)') \in Nat
            /\ created'[u] + dead'[u] + Cardinality(Owing(u)') <= faults'
      BY <1>0, <2>1, <3>2, <3>3
    <3>5. faults' \in Nat
      BY <1>0, <2>1
    <3>6. \A u \in Tickets :
            created'[u] + dead'[u] + Cardinality(Owing(u)')
              <= faults' + IF Earned(u)' THEN 1 ELSE 0
      BY ONLY <3>4, <3>5
    <3> QED
      BY <3>6 DEF DupInv
  <2>3. ASSUME NEW t \in Tickets, t \in todo[r],
               orphan' = [orphan EXCEPT ![r] = {<<t, Target(t)>>}]
        PROVE DupInv'
    <3>1. ~Earned(t)
      BY <2>3, TodoIsUnearned
    <3>2. Owing(t)' = Owing(t) \cup {r}
      BY <2>3 DEF Owing
    <3>3. Cardinality(Owing(t)') <= Cardinality(Owing(t)) + 1
      BY ONLY <3>2, OwingAddRemove, t \in Tickets
    <3>4. \A u \in Tickets \ {t} : Owing(u)' = Owing(u) \/ Owing(u)' = Owing(u) \ {r}
      BY <2>3 DEF Owing
    <3>5. \A u \in Tickets \ {t} : Cardinality(Owing(u)') <= Cardinality(Owing(u))
      <4> SUFFICES ASSUME NEW u \in Tickets \ {t}
                   PROVE  Cardinality(Owing(u)') <= Cardinality(Owing(u))
        OBVIOUS
      <4>1. Cardinality(Owing(u)) \in Nat
        BY ONLY OwingFinite, u \in Tickets \ {t}
      <4>2. Owing(u)' = Owing(u) \ {r} =>
              Cardinality(Owing(u)') = IF r \in Owing(u) THEN Cardinality(Owing(u)) - 1
                                                        ELSE Cardinality(Owing(u))
        BY ONLY OwingAddRemove, u \in Tickets \ {t}
      <4>3. Owing(u)' = Owing(u) \/ Owing(u)' = Owing(u) \ {r}
        BY ONLY <3>4, u \in Tickets \ {t}
      <4> QED
        BY ONLY <4>1, <4>2, <4>3
    <3>6. \A u \in Tickets : Cardinality(Owing(u)') \in Nat
      <4>1. \A u \in Tickets : Owing(u)' \subseteq Relays
        BY DEF Owing
      <4> QED
        BY <4>1, OutboxConstants, FS_Subset, FS_CardinalityType
    <3> QED
      BY <1>0, <2>1, <3>1, <3>3, <3>5, <3>6 DEF DupInv
  <2> QED
    BY <1>8, <2>2, <2>3 DEF SessionLost, IsNext
<1>9. CASE UNCHANGED vars
  BY <1>9 DEF vars, DupInv, Owing, Earned
<1> QED
  BY <1>1, <1>2, <1>3, <1>4, <1>5, <1>6, <1>7, <1>8, <1>9 DEF Next, RelayStep

\* However many instances run and whatever fails, the records of a ticket in
\* excess of one never outnumber the faults.
THEOREM DuplicatesAreFaults == Spec => []DuplicatesNeedFaults
<1>1. Init => DupInv
  <2> SUFFICES ASSUME Init, NEW t \in Tickets
               PROVE  created[t] + dead[t] + Cardinality(Owing(t))
                        <= faults + IF Earned(t) THEN 1 ELSE 0
    BY DEF DupInv
  <2>1. Owing(t) = {}
    BY DEF Init, Owing
  <2> QED
    BY <2>1, FS_EmptySet DEF Init
<1>2. TypeOK /\ DupInv => DuplicatesNeedFaults
  <2> SUFFICES ASSUME TypeOK, DupInv, NEW t \in Tickets
               PROVE  created[t] + dead[t] <= 1 + faults
    BY DEF DuplicatesNeedFaults
  <2>1. Cardinality(Owing(t)) \in Nat
    BY OwingFinite
  <2> QED
    BY <2>1, OutboxConstants DEF DupInv, TypeOK
<1> QED
  BY <1>1, <1>2, DupStep, TypeCorrect, Locks, PTL DEF Spec
=============================================================================
