---------------------------- MODULE TicketOutbox ----------------------------
(***************************************************************************)
(* The transactional outbox of the ticket-ingestion service.               *)
(*                                                                         *)
(* TicketService.create writes the ticket and its outbox row in one        *)
(* transaction.  Every instance of the service runs                        *)
(* TicketEventProducer.relay on a fixed delay: one database transaction    *)
(* that locks the oldest PENDING rows nobody else has locked (FOR UPDATE   *)
(* SKIP LOCKED), sends them to Kafka one after the other, records the      *)
(* outcome of each send, and makes all the outcomes visible when it        *)
(* commits.  The sends are not part of the transaction: a transaction that *)
(* does not commit leaves rows PENDING whose event is already in Kafka.    *)
(*                                                                         *)
(* A Kafka topic is the bag of its records, because the relay keys every   *)
(* record by its own ticket and nothing orders records of two tickets.     *)
(***************************************************************************)
EXTENDS Integers, FiniteSets

CONSTANTS
    Tickets,               \* the tickets clients may create
    IdempotencyKeys,       \* values of idempotencyKey in a request
    NoKey,                 \* a request without one
    Stamps,                \* values of outbox_events.created_at (ties allowed)
    Relays,                \* running instances of the service
    Oversized,             \* tickets whose payload the producer refuses to send
    BatchSize,             \* BATCH_SIZE
    MaxAttemptsBeforeDlq,  \* MAX_ATTEMPTS_BEFORE_DLQ
    MaxFaults              \* bound: lost sends, lost acks and lost transactions

ASSUME OutboxConstants ==
    /\ IsFiniteSet(Tickets)
    /\ IsFiniteSet(Relays)
    /\ Oversized \subseteq Tickets
    /\ NoKey \notin IdempotencyKeys
    /\ Stamps \subseteq Nat
    /\ BatchSize \in Nat \ {0}
    /\ MaxAttemptsBeforeDlq \in Nat
    /\ MaxFaults \in Nat

VARIABLES
    keyOf,      \* tickets.idempotency_key
    status,     \* outbox_events.status, "ABSENT" before the ticket exists
    attempts,   \* outbox_events.attempts
    createdAt,  \* outbox_events.created_at
    todo,       \* per relay: the rows it has locked and not yet sent
    mark,       \* per relay: the uncommitted status of the rows it has sent
    orphan,     \* per relay: the send still in flight when its session was lost
    created,    \* records per ticket in support.ticket.created
    dead,       \* records per ticket in support.ticket.created.dlq
    faults      \* faults so far

rows  == <<keyOf, status, attempts, createdAt>>
kafka == <<created, dead>>
vars  == <<keyOf, status, attempts, createdAt, todo, mark, orphan,
          created, dead, faults>>

Settled  == {"PUBLISHED", "DLQ"}
Status   == {"PENDING"} \cup Settled
Unmarked == [t \in Tickets |-> "NONE"]

\* The counter is only ever compared with MaxAttemptsBeforeDlq; from one above
\* that limit on, it is kept constant so that the model stays finite.
AttemptsCap == MaxAttemptsBeforeDlq + 1

TypeOK ==
    /\ keyOf \in [Tickets -> IdempotencyKeys \cup {NoKey}]
    /\ status \in [Tickets -> Status \cup {"ABSENT"}]
    /\ attempts \in [Tickets -> 0 .. AttemptsCap]
    /\ createdAt \in [Tickets -> Nat]
    /\ todo \in [Relays -> SUBSET Tickets]
    /\ mark \in [Relays -> [Tickets -> Status \cup {"NONE"}]]
    /\ orphan \in [Relays -> SUBSET (Tickets \X Settled)]
    /\ created \in [Tickets -> Nat]
    /\ dead \in [Tickets -> Nat]
    /\ faults \in 0 .. MaxFaults

Init ==
    /\ keyOf = [t \in Tickets |-> NoKey]
    /\ status = [t \in Tickets |-> "ABSENT"]
    /\ attempts = [t \in Tickets |-> 0]
    /\ createdAt = [t \in Tickets |-> 0]
    /\ todo = [r \in Relays |-> {}]
    /\ mark = [r \in Relays |-> Unmarked]
    /\ orphan = [r \in Relays |-> {}]
    /\ created = [t \in Tickets |-> 0]
    /\ dead = [t \in Tickets |-> 0]
    /\ faults = 0

-----------------------------------------------------------------------------
\* Accepting a ticket.

\* Variant: the index covers only tickets whose event is still waiting.
KeyIsFreeAmongPending(k) ==
    k = NoKey \/ \A u \in Tickets : status[u] = "PENDING" => keyOf[u] # k

\* idx_tickets_idempotency_key: unique among the tickets that carry a key.
KeyIsFree(k) ==
    k = NoKey \/ \A u \in Tickets : status[u] # "ABSENT" => keyOf[u] # k

\* POST /tickets: ticket and outbox row appear together, or a taken key
\* rolls both back.  The application takes created_at before the commit, so a
\* later commit may carry an earlier stamp.
Create(t, k, stamp) ==
    /\ status[t] = "ABSENT"
    /\ KeyIsFree(k)
    /\ keyOf' = [keyOf EXCEPT ![t] = k]
    /\ status' = [status EXCEPT ![t] = "PENDING"]
    /\ createdAt' = [createdAt EXCEPT ![t] = stamp]
    /\ UNCHANGED <<attempts, todo, mark, orphan, kafka, faults>>

-----------------------------------------------------------------------------
\* One run of relay() on instance r.

\* The rows whose locks r's transaction holds.
Held(r) == todo[r] \cup {t \in Tickets : mark[r][t] # "NONE"}

Idle(r) == Held(r) = {} /\ orphan[r] = {}

Locked == UNION {Held(r) : r \in Relays}

\* Variant: the query without FOR UPDATE SKIP LOCKED.
EligibleIgnoringLocks == {t \in Tickets : status[t] = "PENDING"}

Eligible == {t \in Tickets : status[t] = "PENDING" /\ t \notin Locked}

\* ORDER BY created_at ASC LIMIT BatchSize, over the rows that are not locked.
IsBatch(batch) ==
    /\ batch \subseteq Eligible
    /\ Cardinality(batch) <= BatchSize
    /\ batch # Eligible => Cardinality(batch) = BatchSize
    /\ \A t \in batch, u \in Eligible \ batch : createdAt[t] <= createdAt[u]

FetchPending(r) ==
    /\ Idle(r)
    /\ \E batch \in SUBSET Tickets :
        /\ batch # {}
        /\ IsBatch(batch)
        /\ todo' = [todo EXCEPT ![r] = batch]
    /\ UNCHANGED <<rows, mark, orphan, kafka, faults>>

\* The loop walks the batch in the order of the query.
IsNext(r, t) ==
    /\ t \in todo[r]
    /\ \A u \in todo[r] : createdAt[t] <= createdAt[u]

\* Variant: the dead-letter limit is one attempt early.
TargetOneEarly(t) ==
    IF attempts[t] + 1 >= MaxAttemptsBeforeDlq THEN "DLQ" ELSE "PUBLISHED"

\* The topic the event goes to, named by the status it earns there.
Target(t) == IF attempts[t] >= MaxAttemptsBeforeDlq THEN "DLQ" ELSE "PUBLISHED"

\* send(...).get(): the broker has one more record of t, in the target topic.
Stored(t, target) ==
    IF target = "DLQ"
    THEN /\ dead' = [dead EXCEPT ![t] = @ + 1]
         /\ UNCHANGED created
    ELSE /\ created' = [created EXCEPT ![t] = @ + 1]
         /\ UNCHANGED dead

\* outboxEventRepository.markProcessed, seen by others only after the commit.
MarkProcessed(r, t, outcome) ==
    /\ todo' = [todo EXCEPT ![r] = @ \ {t}]
    /\ mark' = [mark EXCEPT ![r][t] = outcome]

Publish(r, t) ==
    /\ IsNext(r, t)
    /\ t \notin Oversized
    /\ Stored(t, Target(t))
    /\ MarkProcessed(r, t, Target(t))
    /\ UNCHANGED <<rows, orphan, faults>>

\* Variant: the failed row gets a status of its own, outside outbox_status_check.
PublishRefusedAsFailed(r, t) ==
    /\ IsNext(r, t)
    /\ t \in Oversized
    /\ MarkProcessed(r, t, "FAILED")
    /\ UNCHANGED <<rows, orphan, kafka, faults>>

\* Variant: without the catch, the exception rolls the whole batch back.
PublishRefusedUncaught(r, t) ==
    /\ IsNext(r, t)
    /\ t \in Oversized
    /\ todo' = [todo EXCEPT ![r] = {}]
    /\ mark' = [mark EXCEPT ![r] = Unmarked]
    /\ UNCHANGED <<rows, orphan, kafka, faults>>

\* The producer refuses the record: nothing reaches the broker.
PublishRefused(r, t) ==
    /\ IsNext(r, t)
    /\ t \in Oversized
    /\ MarkProcessed(r, t, "PENDING")
    /\ UNCHANGED <<rows, orphan, kafka, faults>>

\* Variant: the row is marked before the broker has answered.
PublishFailsMarkedEarly(r, t) ==
    /\ IsNext(r, t)
    /\ t \notin Oversized
    /\ faults < MaxFaults
    /\ faults' = faults + 1
    /\ Stored(t, Target(t)) \/ UNCHANGED kafka
    /\ MarkProcessed(r, t, Target(t))
    /\ UNCHANGED <<rows, orphan>>

\* The send times out, whether the broker stored the record or not.
PublishFails(r, t) ==
    /\ IsNext(r, t)
    /\ t \notin Oversized
    /\ faults < MaxFaults
    /\ faults' = faults + 1
    /\ Stored(t, Target(t)) \/ UNCHANGED kafka
    /\ MarkProcessed(r, t, "PENDING")
    /\ UNCHANGED <<rows, orphan>>

Commit(r) ==
    /\ Held(r) # {}
    /\ todo[r] = {}
    /\ status' = [t \in Tickets |->
                    IF mark[r][t] = "NONE" THEN status[t] ELSE mark[r][t]]
    /\ attempts' = [t \in Tickets |->
                      IF mark[r][t] = "NONE" \/ attempts[t] = AttemptsCap
                      THEN attempts[t] ELSE attempts[t] + 1]
    /\ mark' = [mark EXCEPT ![r] = Unmarked]
    /\ UNCHANGED <<keyOf, createdAt, todo, orphan, kafka, faults>>

\* The database ends the transaction before the commit and releases its locks:
\* the instance died, or only its session did and the send it is blocked in is
\* still on its way to the broker.
SessionLost(r) ==
    /\ Held(r) # {}
    /\ faults < MaxFaults
    /\ faults' = faults + 1
    /\ todo' = [todo EXCEPT ![r] = {}]
    /\ mark' = [mark EXCEPT ![r] = Unmarked]
    /\ \/ UNCHANGED orphan
       \/ \E t \in Tickets \ Oversized :
            /\ IsNext(r, t)
            /\ orphan' = [orphan EXCEPT ![r] = {<<t, Target(t)>>}]
    /\ UNCHANGED <<rows, kafka>>

\* That send ends; the markProcessed after it fails for want of a session,
\* which ends the run of relay().
OrphanEnds(r) ==
    /\ \E send \in orphan[r] : Stored(send[1], send[2]) \/ UNCHANGED kafka
    /\ orphan' = [orphan EXCEPT ![r] = {}]
    /\ UNCHANGED <<rows, todo, mark, faults>>

-----------------------------------------------------------------------------
\* The scheduler calls relay() again after every run, and relay() runs on.
RelayStep(r) ==
    \/ FetchPending(r)
    \/ \E t \in Tickets : Publish(r, t) \/ PublishRefused(r, t) \/ PublishFails(r, t)
    \/ Commit(r)
    \/ OrphanEnds(r)

Next ==
    \/ \E t \in Tickets, k \in IdempotencyKeys \cup {NoKey}, stamp \in Stamps :
         Create(t, k, stamp)
    \/ \E r \in Relays : RelayStep(r) \/ SessionLost(r)

Spec == Init /\ [][Next]_vars

FairSpec == Spec /\ \A r \in Relays : WF_vars(RelayStep(r))

-----------------------------------------------------------------------------
\* Properties.

\* FOR UPDATE SKIP LOCKED: two instances never work on the same row, and a row
\* in work is PENDING for everybody else, whatever fails in between.
ExclusiveBatches ==
    /\ \A r, s \in Relays : r # s => Held(r) \cap Held(s) = {}
    /\ \A r \in Relays : \A t \in Held(r) : status[t] = "PENDING"

\* A row says PUBLISHED or DLQ only if Kafka holds the event in that topic: no
\* accepted ticket is lost between the database and the broker.
SettledWasSent ==
    \A t \in Tickets :
        /\ status[t] = "PUBLISHED" => created[t] > 0
        /\ status[t] = "DLQ" => dead[t] > 0

\* Every record of a ticket beyond the first is owed to a lost ack or a lost
\* transaction: two instances never publish the same event of their own accord.
DuplicatesNeedFaults ==
    \A t \in Tickets : created[t] + dead[t] <= 1 + faults

\* The dead-letter topic is the last resort: it only receives tickets whose
\* row has already recorded MaxAttemptsBeforeDlq failed attempts.
DlqIsLastResort ==
    \A t \in Tickets : dead[t] > 0 => attempts[t] >= MaxAttemptsBeforeDlq

\* An idempotency key never puts two tickets' events into Kafka, however often
\* the client retries.
OneEventPerKey ==
    \A t, u \in Tickets :
        /\ t # u
        /\ created[t] + dead[t] > 0
        /\ created[u] + dead[u] > 0
        => keyOf[t] = NoKey \/ keyOf[t] # keyOf[u]

\* Once a row is settled no relay writes it again: a second instance that read
\* the table before the commit neither reopens the row nor marks it once more.
SettledIsFinal ==
    [][\A t \in Tickets : status[t] \in Settled =>
         status'[t] = status[t] /\ attempts'[t] = attempts[t]]_vars

\* The outbox implements the contract of the ingestion service.
Contract == INSTANCE OutboxContract WITH
    accepted     <- {t \in Tickets : status[t] # "ABSENT"},
    delivered    <- {t \in Tickets : created[t] > 0},
    deadLettered <- {t \in Tickets : dead[t] > 0},
    settled      <- {t \in Tickets : status[t] \in Settled}

ContractSpec == Contract!Spec

Settles(t) == status[t] = "PENDING" ~> status[t] \in Settled

\* Every accepted ticket whose payload Kafka takes reaches PUBLISHED or DLQ once
\* the faults end, even behind older rows that can never be sent, as long as
\* those do not fill a batch by themselves.
SendableEventsSettle ==
    Cardinality(Oversized) < BatchSize => \A t \in Tickets \ Oversized : Settles(t)
=============================================================================
