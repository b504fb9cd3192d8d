--------------------------- MODULE PlatformProofs ----------------------------
(***************************************************************************)
(* The platform as a whole, for every number of instances, reviewers,      *)
(* tickets and faults: what the proofs about the triage service show       *)
(* behind the relay as well, and the safety part of the promise made to    *)
(* the client of a ticket.                                                 *)
(***************************************************************************)
EXTENDS Platform, TriageSystemProofs

-----------------------------------------------------------------------------
\* The parts seen by themselves.

LEMMA TriageServiceStep == [PlatformNext]_platform => [Next]_vars
<1> SUFFICES ASSUME [PlatformNext]_platform PROVE [Next]_vars
    OBVIOUS
<1>1. ASSUME NEW r \in Relays, Relay(r) PROVE [Next]_vars
    BY <1>1 DEF Relay, TopicStep, Next, ConsumerNext
<1>2. ASSUME TriageStep PROVE [Next]_vars
    BY <1>2 DEF TriageStep, Next, ConsumerNext
<1> QED
    BY <1>1, <1>2 DEF PlatformNext, Submit, LoseSession, platform, vars

\* The triage service behind the relay is the triage service of TriageSystem: what
\* the relay stores is one of the copies Produce allows.
THEOREM PlatformIsTriageSystem == PlatformSpec => Spec
<1>1. PlatformInit => Init
    BY DEF PlatformInit
<1> QED
    BY <1>1, TriageServiceStep, PTL DEF PlatformSpec, Spec

\* The records of the topic follow its log.
LEMMA RecordsStay == log' = log => Records' = Records
    BY DEF Records, Messages, TicketOf

\* The consumers read the topic and never write it.
LEMMA TriageKeepsLog == TriageStep => log' = log
    BY DEF TriageStep, consumer, topic, ConsumerStep, Revoke, Assign, Fetch, Start, Handle, Check,
           StoreResult, AuditTriage, Decide, AuditRisk, Enqueue, MarkProcessed, At, Commit,
           CallFails, PoisonFails, CommitFails, Retry, GiveUp, GiveUpFails, Stop, Stopping,
           FetchAtShutdown, StopTimesOut, FinishStop, StopBroken, Crash, Leave

LEMMA IngestionStep == [PlatformNext]_platform => [Ingestion!Next]_(Ingestion!vars)
<1> SUFFICES ASSUME [PlatformNext]_platform PROVE [Ingestion!Next]_(Ingestion!vars)
    OBVIOUS
<1>1. ASSUME NEW t \in Tickets, NEW k \in IdempotencyKeys \cup {NoKey}, NEW stamp \in Stamps,
             Submit(t, k, stamp)
      PROVE  Ingestion!Next
    BY <1>1 DEF Submit, Ingestion!Next
<1>2. ASSUME NEW r \in Relays, Relay(r) \/ LoseSession(r) PROVE Ingestion!Next
    BY <1>2 DEF Relay, LoseSession, Ingestion!Next
<1>3. ASSUME log' = log, UNCHANGED outbox PROVE UNCHANGED Ingestion!vars
    BY <1>3, RecordsStay DEF outbox, Ingestion!vars
<1> QED
    BY <1>1, <1>2, <1>3, TriageKeepsLog DEF PlatformNext, TriageStep, platform, consumer, topic

\* The outbox in front of the consumers is the outbox of TicketOutbox, with the log
\* as its topic: no step of the triage service disturbs it.
THEOREM PlatformIsOutbox == PlatformSpec => Ingestion!Spec
<1>1. PlatformInit => Ingestion!Init
    BY DEF PlatformInit
<1> QED
    BY <1>1, IngestionStep, PTL DEF PlatformSpec, Ingestion!Spec

-----------------------------------------------------------------------------
\* What is in the topic has been accepted.

Accepted(t) == status[t] # "ABSENT"

IngestionTypes ==
    /\ status \in [Tickets -> Ingestion!Status \cup {"ABSENT"}]
    /\ todo \in [Relays -> SUBSET Tickets]
    /\ mark \in [Relays -> [Tickets -> Ingestion!Status \cup {"NONE"}]]
    /\ orphan \in [Relays -> SUBSET (Tickets \X Ingestion!Settled)]
    /\ deadLettered \in [Tickets -> Nat]

\* A relay works on rows that exist, and what it has sent came from them.
AcceptedInv ==
    /\ \A r \in Relays :
         /\ \A t \in Tickets : t \in todo[r] \/ mark[r][t] # "NONE" => Accepted(t)
         /\ \A send \in orphan[r] : Accepted(send[1])
    /\ \A t \in Tickets : deadLettered[t] > 0 => Accepted(t)
    /\ \A m \in Messages : Accepted(TicketOf(m))

LEMMA RecordsType == TypeInv => Records \in [Tickets -> Nat]
<1> SUFFICES ASSUME TypeInv, NEW t \in Tickets
             PROVE  Cardinality({m \in Messages : TicketOf(m) = t}) \in Nat
    BY DEF Records
<1>1. IsFiniteSet({m \in Messages : TicketOf(m) = t})
    BY MessagesFinite, FS_Subset
<1> QED
    BY <1>1, FS_CardinalityType

\* A message more in the log is a record more of its ticket, and of no other.
LEMMA ProduceAddsRecord ==
    ASSUME TypeInv, NEW u \in Tickets, Produce(u)
    PROVE  /\ Records' = [Records EXCEPT ![u] = @ + 1]
           /\ \A m \in Messages' : m \in Messages \/ TicketOf(m)' = u
<1> DEFINE p == PartitionOf[u]
<1>1. p \in Partitions /\ log[p] \in Seq(Tickets) /\ Len(log[p]) < MaxMessages
    BY ProduceFits, ConsumerConstants
       DEF ConsumerConstants, TypeInv, TypeOK, ConsumerTypeOK, Produce
<1>2. /\ log' = [log EXCEPT ![p] = Append(log[p], u)]
      /\ log \in [Partitions -> Seq(Tickets)]
    BY DEF Produce, TypeInv, TypeOK, ConsumerTypeOK
<1>3. /\ Len(log'[p]) = Len(log[p]) + 1 /\ log'[p][Len(log[p]) + 1] = u
      /\ \A q \in Partitions \ {p} : log'[q] = log[q]
    BY <1>1, <1>2
<1>4. Len(log[p]) + 1 \in 1 .. MaxMessages
    BY <1>1, ConsumerConstants DEF ConsumerConstants
<1> PICK new : new = <<p, Len(log[p]) + 1>>
    OBVIOUS
<1>5. new \in Messages' /\ TicketOf(new)' = u /\ new \notin Messages
    BY <1>1, <1>3, <1>4 DEF Messages, TicketOf
<1>6. \A m \in Messages' : m \in Messages \/ m = new
  <2> SUFFICES ASSUME NEW m \in Messages' PROVE m \in Messages \/ m = new
      OBVIOUS
  <2>1. m = <<m[1], m[2]>> /\ m[1] \in Partitions /\ m[2] \in 1 .. MaxMessages /\ m[2] <= Len(log'[m[1]])
      BY DEF Messages
  <2>2. CASE m[1] # p
      BY <2>1, <2>2, <1>3 DEF Messages
  <2>3. CASE m[1] = p
    <3>1. m[2] \in Nat /\ Len(log[p]) \in Nat /\ m[2] <= Len(log[p]) + 1
        BY <1>1, <1>3, <2>1, <2>3, ConsumerConstants DEF ConsumerConstants
    <3>2. m[2] <= Len(log[p]) \/ m[2] = Len(log[p]) + 1
        BY <3>1
    <3> QED
        BY <2>1, <2>3, <3>2 DEF Messages
  <2> QED
      BY <2>2, <2>3
<1> HIDE DEF p
<1>7. \A m \in Messages : m \in Messages' /\ TicketOf(m)' = TicketOf(m)
    BY ProduceType
<1>8. {m \in Messages : TicketOf(m) = u}' = {m \in Messages : TicketOf(m) = u} \cup {new}
    BY <1>5, <1>6, <1>7
<1>9. IsFiniteSet({m \in Messages : TicketOf(m) = u}) /\ new \notin {m \in Messages : TicketOf(m) = u}
    BY <1>5, MessagesFinite, FS_Subset
<1>10. Records'[u] = Records[u] + 1
  <2> DEFINE mine == {m \in Messages : TicketOf(m) = u}
  <2>1. Records[u] = Cardinality(mine) /\ Records'[u] = Cardinality(mine')
      BY DEF Records
  <2>2. Cardinality(mine \cup {new}) = Cardinality(mine) + 1
      BY <1>9, FS_AddElement
  <2> QED
      BY <1>8, <2>1, <2>2
<1>11. ASSUME NEW t \in Tickets, t # u PROVE Records'[t] = Records[t]
  <2>1. {m \in Messages : TicketOf(m) = t}' = {m \in Messages : TicketOf(m) = t}
      BY <1>5, <1>6, <1>7, <1>11
  <2> QED
      BY <2>1 DEF Records
<1>12. Records' = [Records EXCEPT ![u] = @ + 1]
    BY <1>10, <1>11 DEF Records
<1> QED
    BY <1>5, <1>6, <1>12

\* One record more, of ticket t, in one of the topics, or none.
Sends(t) ==
    \/ Records' = Records /\ deadLettered' = deadLettered
    \/ Records' = [Records EXCEPT ![t] = @ + 1] /\ deadLettered' = deadLettered
    \/ Records' = Records /\ deadLettered' = [deadLettered EXCEPT ![t] = @ + 1]

LEMMA StoredSends ==
    ASSUME NEW t \in Tickets, NEW target,
           Ingestion!Stored(t, target) \/ UNCHANGED Ingestion!kafka
    PROVE  Sends(t)
    BY DEF Ingestion!Stored, Ingestion!kafka, Sends

\* What a relay sends is of a ticket that has been accepted.
LEMMA RelaySends ==
    ASSUME IngestionTypes, AcceptedInv, NEW r \in Relays, Ingestion!RelayStep(r)
    PROVE  \/ Records' = Records /\ deadLettered' = deadLettered
           \/ \E t \in Tickets : Accepted(t) /\ Sends(t)
<1>1. CASE Ingestion!FetchPending(r) \/ Ingestion!Commit(r)
    BY <1>1 DEF Ingestion!FetchPending, Ingestion!Commit, Ingestion!kafka
<1>2. ASSUME NEW t \in Tickets,
             \/ Ingestion!Publish(r, t) \/ Ingestion!PublishRefused(r, t)
             \/ Ingestion!PublishFails(r, t)
      PROVE  Accepted(t) /\ Sends(t)
  <2>1. t \in todo[r] /\ \E target : Ingestion!Stored(t, target) \/ UNCHANGED Ingestion!kafka
      BY <1>2 DEF Ingestion!Publish, Ingestion!PublishRefused, Ingestion!PublishFails, Ingestion!IsNext
  <2> QED
      BY <2>1, StoredSends DEF AcceptedInv
<1>3. ASSUME Ingestion!OrphanEnds(r) PROVE \E t \in Tickets : Accepted(t) /\ Sends(t)
  <2>1. PICK send \in orphan[r] : Ingestion!Stored(send[1], send[2]) \/ UNCHANGED Ingestion!kafka
      BY <1>3 DEF Ingestion!OrphanEnds
  <2>2. send[1] \in Tickets /\ Accepted(send[1])
      BY DEF IngestionTypes, AcceptedInv
  <2> QED
      BY <2>1, <2>2, StoredSends
<1> QED
    BY <1>1, <1>2, <1>3 DEF Ingestion!RelayStep

\* The rows a relay holds or has marked: only what it fetched is added to them, and
\* that is PENDING.
LEMMA RelayRows ==
    ASSUME IngestionTypes, AcceptedInv, NEW r \in Relays,
           Ingestion!RelayStep(r) \/ Ingestion!SessionLost(r)
    PROVE  /\ status' \in [Tickets -> Ingestion!Status \cup {"ABSENT"}]
           /\ todo' \in [Relays -> SUBSET Tickets]
           /\ mark' \in [Relays -> [Tickets -> Ingestion!Status \cup {"NONE"}]]
           /\ orphan' \in [Relays -> SUBSET (Tickets \X Ingestion!Settled)]
           /\ \A t \in Tickets : Accepted(t)' <=> Accepted(t)
           /\ \A s \in Relays :
                /\ \A t \in Tickets : t \in todo'[s] \/ mark'[s][t] # "NONE" => Accepted(t)
                /\ \A send \in orphan'[s] : Accepted(send[1])
<1> DEFINE Rows == /\ status' \in [Tickets -> Ingestion!Status \cup {"ABSENT"}]
                   /\ \A t \in Tickets : Accepted(t)' <=> Accepted(t)
           Work == /\ todo' \in [Relays -> SUBSET Tickets]
                   /\ mark' \in [Relays -> [Tickets -> Ingestion!Status \cup {"NONE"}]]
                   /\ \A s \in Relays, t \in Tickets :
                        t \in todo'[s] \/ mark'[s][t] # "NONE" => Accepted(t)
           Flying == /\ orphan' \in [Relays -> SUBSET (Tickets \X Ingestion!Settled)]
                     /\ \A s \in Relays : \A send \in orphan'[s] : Accepted(send[1])
<1>1. status' = status => Rows
    BY DEF IngestionTypes, Accepted
<1>2. UNCHANGED <<todo, mark>> => Work
    BY DEF IngestionTypes, AcceptedInv
<1>3. UNCHANGED orphan => Flying
    BY DEF IngestionTypes, AcceptedInv
<1>4. ASSUME Ingestion!FetchPending(r) PROVE Rows /\ Work /\ Flying
  <2>1. PICK batch \in SUBSET Tickets :
          Ingestion!IsBatch(batch) /\ todo' = [todo EXCEPT ![r] = batch]
      BY <1>4 DEF Ingestion!FetchPending
  <2>2. \A t \in batch : Accepted(t)
      BY <2>1 DEF Ingestion!IsBatch, Ingestion!Eligible, Accepted
  <2>3. Work
      BY <1>4, <2>1, <2>2 DEF IngestionTypes, AcceptedInv, Ingestion!FetchPending
  <2> QED
      BY <1>1, <1>3, <1>4, <2>3 DEF Ingestion!FetchPending, Ingestion!rows
<1>5. ASSUME NEW t \in Tickets,
             \/ Ingestion!Publish(r, t) \/ Ingestion!PublishRefused(r, t)
             \/ Ingestion!PublishFails(r, t)
      PROVE  Rows /\ Work /\ Flying
  <2>1. PICK outcome \in Ingestion!Status : Ingestion!MarkProcessed(r, t, outcome)
      BY <1>5 DEF Ingestion!Publish, Ingestion!PublishRefused, Ingestion!PublishFails,
                  Ingestion!Target, Ingestion!Status, Ingestion!Settled
  <2>2. t \in todo[r]
      BY <1>5 DEF Ingestion!Publish, Ingestion!PublishRefused, Ingestion!PublishFails, Ingestion!IsNext
  <2>3. Work
      BY <2>1, <2>2 DEF IngestionTypes, AcceptedInv, Ingestion!MarkProcessed
  <2> QED
      BY <1>1, <1>3, <1>5, <2>3
         DEF Ingestion!Publish, Ingestion!PublishRefused, Ingestion!PublishFails, Ingestion!rows
<1>6. ASSUME Ingestion!Commit(r) PROVE Rows /\ Work /\ Flying
  <2>1. Rows
    <3>1. \A t \in Tickets : status'[t] = IF mark[r][t] = "NONE" THEN status[t] ELSE mark[r][t]
        BY <1>6 DEF Ingestion!Commit
    <3>2. \A t \in Tickets : mark[r][t] # "NONE" => mark[r][t] \in Ingestion!Status /\ Accepted(t)
        BY DEF IngestionTypes, AcceptedInv
    <3>3. status' \in [Tickets -> Ingestion!Status \cup {"ABSENT"}]
        BY <1>6, <3>2 DEF IngestionTypes, Ingestion!Commit
    <3>4. "ABSENT" \notin Ingestion!Status
        BY DEF Ingestion!Status, Ingestion!Settled
    <3> QED
        BY <3>1, <3>2, <3>3, <3>4 DEF Accepted
  <2>2. Work
      BY <1>6 DEF IngestionTypes, AcceptedInv, Ingestion!Commit, Ingestion!Unmarked
  <2> QED
      BY <1>3, <1>6, <2>1, <2>2 DEF Ingestion!Commit
<1>7. ASSUME Ingestion!OrphanEnds(r) PROVE Rows /\ Work /\ Flying
  <2>1. Flying
      BY <1>7 DEF IngestionTypes, AcceptedInv, Ingestion!OrphanEnds
  <2> QED
      BY <1>1, <1>2, <1>7, <2>1 DEF Ingestion!OrphanEnds, Ingestion!rows
<1>8. ASSUME Ingestion!SessionLost(r) PROVE Rows /\ Work /\ Flying
  <2>1. Work
      BY <1>8 DEF IngestionTypes, AcceptedInv, Ingestion!SessionLost, Ingestion!Unmarked
  <2>2. ASSUME NEW t \in Tickets, Ingestion!IsNext(r, t),
               orphan' = [orphan EXCEPT ![r] = {<<t, Ingestion!Target(t)>>}]
        PROVE  Flying
    <3>1. Ingestion!Target(t) \in Ingestion!Settled
        BY DEF Ingestion!Target, Ingestion!Settled
    <3>2. Accepted(t)
        BY <2>2 DEF AcceptedInv, Ingestion!IsNext
    <3> QED
        BY <2>2, <3>1, <3>2 DEF IngestionTypes, AcceptedInv
  <2>3. Flying
      BY <1>3, <1>8, <2>2 DEF Ingestion!SessionLost
  <2> QED
      BY <1>1, <1>8, <2>1, <2>3 DEF Ingestion!SessionLost, Ingestion!rows
<1> QED
    BY <1>4, <1>5, <1>6, <1>7, <1>8 DEF Ingestion!RelayStep

LEMMA InitAccepted == PlatformInit => IngestionTypes /\ AcceptedInv
<1> SUFFICES ASSUME PlatformInit PROVE IngestionTypes /\ AcceptedInv
    OBVIOUS
<1>1. Ingestion!Init /\ log = [p \in Partitions |-> <<>>]
    BY DEF PlatformInit, Init, ConsumerInit
<1>2. IngestionTypes
    BY <1>1 DEF Ingestion!Init, Ingestion!Unmarked, IngestionTypes
<1>3. Messages = {}
    BY <1>1, ConsumerConstants DEF ConsumerConstants, Messages
<1> QED
    BY <1>1, <1>2, <1>3 DEF Ingestion!Init, Ingestion!Unmarked, AcceptedInv

\* A relay's step on the topic: its record is of an accepted ticket.
LEMMA TopicIsAccepted ==
    ASSUME TypeInv, IngestionTypes, AcceptedInv, NEW r \in Relays, Relay(r)
    PROVE  \A m \in Messages' : TicketOf(m)' \in Tickets /\ Accepted(TicketOf(m)')
<1>0. \A m \in Messages : TicketOf(m) \in Tickets
    BY TicketType DEF TypeInv
<1>1. CASE log' = log
    BY <1>0, <1>1 DEF AcceptedInv, Messages, TicketOf
<1>2. ASSUME NEW u \in Tickets, Produce(u)
      PROVE  \A m \in Messages' : TicketOf(m)' \in Tickets /\ Accepted(TicketOf(m)')
  <2>1. Accepted(u)
    <3>1. Records' = [Records EXCEPT ![u] = @ + 1] /\ Records \in [Tickets -> Nat]
        BY <1>2, ProduceAddsRecord, RecordsType
    <3>2. Records'[u] # Records[u]
        BY <3>1
    <3>3. PICK t \in Tickets : Accepted(t) /\ Records' = [Records EXCEPT ![t] = @ + 1]
        BY <3>2, RelaySends DEF Relay, Sends
    <3> QED
        BY <3>1, <3>2, <3>3
  <2>2. \A m \in Messages : TicketOf(m)' = TicketOf(m)
      BY <1>2, ProduceType
  <2> QED
      BY <1>0, <1>2, <2>1, <2>2, ProduceAddsRecord DEF AcceptedInv
<1> QED
    BY <1>1, <1>2 DEF Relay, TopicStep, vars, consumer, topic

LEMMA AcceptedStep ==
    TypeInv /\ IngestionTypes /\ AcceptedInv /\ [PlatformNext]_platform
    => IngestionTypes' /\ AcceptedInv'
<1> SUFFICES ASSUME TypeInv, IngestionTypes, AcceptedInv, [PlatformNext]_platform
             PROVE  IngestionTypes' /\ AcceptedInv'
    OBVIOUS
<1>1. ASSUME log' = log, UNCHANGED outbox PROVE IngestionTypes' /\ AcceptedInv'
    BY <1>1 DEF IngestionTypes, AcceptedInv, Accepted, Messages, TicketOf, outbox
<1>2. ASSUME NEW t \in Tickets, NEW k \in IdempotencyKeys \cup {NoKey}, NEW stamp \in Stamps,
             Submit(t, k, stamp)
      PROVE  IngestionTypes' /\ AcceptedInv'
  <2>1. /\ status' = [status EXCEPT ![t] = "PENDING"]
        /\ UNCHANGED <<log, todo, mark, orphan, deadLettered>>
      BY <1>2 DEF Submit, Ingestion!Create, Ingestion!kafka, vars, consumer, topic
  <2>2. IngestionTypes'
      BY <2>1 DEF IngestionTypes, Ingestion!Status
  <2>3. \A u \in Tickets : Accepted(u) => Accepted(u)'
      BY <2>1 DEF IngestionTypes, Accepted
  <2>4. \A m \in Messages : TicketOf(m) \in Tickets
      BY TicketType DEF TypeInv
  <2>5. \A r \in Relays : \A send \in orphan[r] : send[1] \in Tickets
      BY DEF IngestionTypes
  <2>6. Messages' = Messages /\ \A m \in Messages : TicketOf(m)' = TicketOf(m)
      BY <2>1 DEF Messages, TicketOf
  <2>7. \A m \in Messages' : Accepted(TicketOf(m))'
      BY <2>1, <2>3, <2>4, <2>6 DEF AcceptedInv, TicketOf, Accepted
  <2> QED
      BY <2>1, <2>2, <2>3, <2>5, <2>7 DEF AcceptedInv
<1>3. ASSUME NEW r \in Relays, Relay(r) \/ LoseSession(r)
      PROVE  IngestionTypes' /\ AcceptedInv'
  <2>1. Ingestion!RelayStep(r) \/ Ingestion!SessionLost(r)
      BY <1>3 DEF Relay, LoseSession
  <2>2. \A t \in Tickets : Accepted(t)' <=> Accepted(t)
      BY <2>1, RelayRows
  <2>3. \/ deadLettered' = deadLettered
        \/ \E t \in Tickets : Accepted(t) /\ deadLettered' = [deadLettered EXCEPT ![t] = @ + 1]
      BY <1>3, RelaySends DEF Relay, LoseSession, Sends, Ingestion!SessionLost, Ingestion!kafka
  <2>4. /\ deadLettered' \in [Tickets -> Nat]
        /\ \A t \in Tickets : deadLettered'[t] > 0 => Accepted(t)
      BY <2>3 DEF IngestionTypes, AcceptedInv
  <2>5. IngestionTypes'
      BY <2>1, <2>4, RelayRows DEF IngestionTypes
  <2>6. \A m \in Messages' : TicketOf(m)' \in Tickets /\ Accepted(TicketOf(m)')
    <3>1. CASE Relay(r)
        BY <3>1, TopicIsAccepted
    <3>2. CASE LoseSession(r)
      <4>1. \A m \in Messages : TicketOf(m) \in Tickets
          BY TicketType DEF TypeInv
      <4> QED
          BY <3>2, <4>1 DEF LoseSession, AcceptedInv, Messages, TicketOf, vars, consumer, topic
    <3> QED
        BY <1>3, <3>1, <3>2
  <2>7. \A m \in Messages' : Accepted(TicketOf(m))'
      BY <2>2, <2>6 DEF Accepted
  <2>8. /\ \A s \in Relays : \A t \in Tickets :
             t \in todo'[s] \/ mark'[s][t] # "NONE" => Accepted(t)'
        /\ \A s \in Relays : \A send \in orphan'[s] : Accepted(send[1])
      BY <2>1, <2>2, RelayRows
  <2>9. \A s \in Relays : \A send \in orphan'[s] : Accepted(send[1])'
    <3>1. \A s \in Relays : \A send \in orphan'[s] : send[1] \in Tickets
        BY <2>5 DEF IngestionTypes
    <3> QED
        BY <2>2, <2>8, <3>1 DEF Accepted
  <2>10. AcceptedInv'
      BY <2>2, <2>4, <2>7, <2>8, <2>9 DEF AcceptedInv
  <2> QED
      BY <2>5, <2>10
<1> QED
    BY <1>1, <1>2, <1>3, TriageKeepsLog DEF PlatformNext, TriageStep, platform, consumer, topic

LEMMA PlatformTypes == PlatformSpec => [](TypeInv /\ PhaseInv)
    BY PlatformIsTriageSystem, Phases, PTL

LEMMA PlatformShutdowns == PlatformSpec => [](OffsetInv /\ StopsInv)
    BY PlatformIsTriageSystem, Shutdowns, PTL

LEMMA AcceptedFirst == PlatformSpec => [](IngestionTypes /\ AcceptedInv)
    BY InitAccepted, AcceptedStep, PlatformTypes, PTL DEF PlatformSpec

-----------------------------------------------------------------------------
\* The promise.

LEMMA InitPromise == PlatformInit => Promise!Init
<1> SUFFICES ASSUME PlatformInit PROVE Promise!Init
    OBVIOUS
<1>1. Ingestion!Init /\ StoreInit /\ ConsumerInit
    BY DEF PlatformInit, Init
<1> QED
    BY <1>1 DEF Ingestion!Init, StoreInit, ConsumerInit, Promise!Init, AcceptedTickets,
                TriagedTickets, WrittenOffTickets, SkippedTickets, Stalled

\* Each set of tickets follows the set of messages it is made of.
LEMMA TriagedStays ==
    ASSUME TypeInv, PhaseInv, [Next]_vars, processed' = processed
    PROVE  TriagedTickets' = TriagedTickets
<1>1. \A m \in processed : TicketOf(m)' = TicketOf(m)
    BY LogStep DEF LogGrows, PhaseInv
<1> QED
    BY <1>1 DEF TriagedTickets

LEMMA WrittenOffStays ==
    ASSUME TypeInv, [Next]_vars, dead' = dead, deadLettered' = deadLettered
    PROVE  WrittenOffTickets' = WrittenOffTickets
<1>1. \A m \in dead : TicketOf(m)' = TicketOf(m)
    BY LogStep DEF LogGrows, TypeInv, TypeOK, ConsumerTypeOK
<1> QED
    BY <1>1 DEF WrittenOffTickets

LEMMA SkippedStays ==
    ASSUME TypeInv, [Next]_vars, lost' = lost
    PROVE  SkippedTickets' = SkippedTickets
<1>1. \A m \in lost : TicketOf(m)' = TicketOf(m)
    BY LogStep DEF LogGrows, TypeInv, TypeOK, ConsumerTypeOK
<1> QED
    BY <1>1 DEF SkippedTickets

LEMMA StalledStays ==
    ASSUME \A w \in Workers : pc'[w] = "broken" <=> pc[w] = "broken"
    PROVE  Stalled' = Stalled
    BY DEF Stalled

LEMMA MessageIsAccepted ==
    ASSUME TypeInv, AcceptedInv, NEW m \in Messages
    PROVE  TicketOf(m) \in Tickets /\ TicketOf(m) \in AcceptedTickets
    BY TicketType DEF TypeInv, AcceptedInv, AcceptedTickets, Accepted

\* Shutdowns cannot skip more tickets than messages.
LEMMA SkippedIsBounded ==
    TypeInv /\ StopsInv => Cardinality(SkippedTickets) \in Nat
                             /\ Cardinality(SkippedTickets) <= Cardinality(lost)
                             /\ Cardinality(SkippedTickets) <= stops
<1> SUFFICES ASSUME TypeInv, StopsInv
             PROVE  /\ Cardinality(SkippedTickets) \in Nat
                    /\ Cardinality(SkippedTickets) <= Cardinality(lost)
                    /\ Cardinality(SkippedTickets) <= stops
    OBVIOUS
<1> DEFINE ticket == [m \in lost |-> TicketOf(m)]
<1>1. ticket \in Surjection(lost, SkippedTickets)
  <2>1. ticket \in [lost -> SkippedTickets]
      BY DEF SkippedTickets
  <2>2. \A t \in SkippedTickets : \E m \in lost : ticket[m] = t
      BY DEF SkippedTickets
  <2> QED
      BY <2>1, <2>2 DEF Surjection
<1>2. IsFiniteSet(lost)
    BY MessagesFinite, FS_Subset DEF TypeInv, TypeOK, ConsumerTypeOK
<1> HIDE DEF ticket
<1>3. IsFiniteSet(SkippedTickets) /\ Cardinality(SkippedTickets) <= Cardinality(lost)
    BY <1>1, <1>2, FS_Surjection
<1>4. /\ Cardinality(SkippedTickets) \in Nat /\ Cardinality(lost) \in Nat
      /\ Cardinality(Ending) \in Nat
    BY <1>2, <1>3, FS_CardinalityType DEF StopsInv
<1>5. stops \in Nat /\ Cardinality(lost) + Cardinality(Ending) <= stops
    BY DEF StopsInv
<1> QED
    BY <1>3, <1>4, <1>5

\* No ticket is unmade, and only a request makes one.
LEMMA AcceptedStays ==
    ASSUME IngestionTypes, AcceptedInv, [PlatformNext]_platform
    PROVE  \/ AcceptedTickets' = AcceptedTickets
           \/ \E t \in Tickets, k \in IdempotencyKeys \cup {NoKey}, stamp \in Stamps :
                Submit(t, k, stamp)
<1>1. ASSUME NEW r \in Relays, Relay(r) \/ LoseSession(r)
      PROVE  AcceptedTickets' = AcceptedTickets
    BY <1>1, RelayRows DEF Relay, LoseSession, AcceptedTickets, Accepted
<1>2. status' = status => AcceptedTickets' = AcceptedTickets
    BY DEF AcceptedTickets
<1> QED
    BY <1>1, <1>2 DEF PlatformNext, TriageStep, platform, outbox

\* A request for a ticket.
LEMMA SubmitAccepts ==
    ASSUME TypeInv, PhaseInv, IngestionTypes, [Next]_vars,
           NEW t \in Tickets, NEW k \in IdempotencyKeys \cup {NoKey}, NEW stamp \in Stamps,
           Submit(t, k, stamp)
    PROVE  Promise!Accept(t)
<1>1. /\ status[t] = "ABSENT" /\ status' = [status EXCEPT ![t] = "PENDING"]
      /\ UNCHANGED <<processed, dead, lost, deadLettered, stops, pc>>
    BY DEF Submit, Ingestion!Create, Ingestion!kafka, vars, store, consumer, history, task
<1>2. AcceptedTickets' = AcceptedTickets \cup {t} /\ t \notin AcceptedTickets
    BY <1>1 DEF IngestionTypes, AcceptedTickets
<1> QED
    BY <1>1, <1>2, TriagedStays, WrittenOffStays, SkippedStays, StalledStays DEF Promise!Accept

\* A step of a relay: what it cannot send, or has tried too often, it writes off.
LEMMA RelayWritesOff ==
    ASSUME TypeInv, PhaseInv, IngestionTypes, AcceptedInv, [PlatformNext]_platform,
           NEW r \in Relays, Relay(r) \/ LoseSession(r)
    PROVE  UNCHANGED Promise!vars \/ \E t \in Tickets : Promise!WriteOff(t)
<1>1. [Next]_vars
    BY TriageServiceStep
<1>2. UNCHANGED <<processed, dead, lost, stops, pc>>
    BY DEF Relay, LoseSession, TopicStep, Produce, vars, store, consumer, history, task
<1>3. AcceptedTickets' = AcceptedTickets
    BY RelayRows DEF Relay, LoseSession, AcceptedTickets, Accepted
<1>4. /\ TriagedTickets' = TriagedTickets /\ SkippedTickets' = SkippedTickets
      /\ Stalled' = Stalled /\ stops' = stops
    BY <1>1, <1>2, TriagedStays, SkippedStays, StalledStays
<1>5. CASE deadLettered' = deadLettered
    BY <1>1, <1>2, <1>3, <1>4, <1>5, WrittenOffStays DEF Promise!vars
<1>6. ASSUME NEW t \in Tickets, Accepted(t), deadLettered' = [deadLettered EXCEPT ![t] = @ + 1]
      PROVE  Promise!WriteOff(t)
  <2>1. \A m \in dead : TicketOf(m)' = TicketOf(m)
      BY <1>1, LogStep DEF LogGrows, TypeInv, TypeOK, ConsumerTypeOK
  <2>2. \A u \in Tickets : deadLettered'[u] > 0 <=> deadLettered[u] > 0 \/ u = t
      BY <1>6 DEF IngestionTypes
  <2>3. WrittenOffTickets' = WrittenOffTickets \cup {t}
      BY <1>2, <2>1, <2>2 DEF WrittenOffTickets
  <2>4. t \in AcceptedTickets
      BY <1>6 DEF AcceptedTickets, Accepted
  <2> QED
      BY <1>3, <1>4, <2>3, <2>4 DEF Promise!WriteOff
<1>7. \/ deadLettered' = deadLettered
      \/ \E t \in Tickets : Accepted(t) /\ deadLettered' = [deadLettered EXCEPT ![t] = @ + 1]
    BY RelaySends DEF Relay, LoseSession, Sends, Ingestion!SessionLost, Ingestion!kafka
<1> QED
    BY <1>5, <1>6, <1>7

\* The steps of the triage service that the client's ticket can be seen in: a message
\* recorded, given up or skipped, a shutdown, an instance that goes down.
LEMMA TriageIsPromised ==
    ASSUME TypeInv, PhaseInv, OffsetInv, StopsInv, AcceptedInv, [Next]_vars,
           AcceptedTickets' = AcceptedTickets, deadLettered' = deadLettered,
           ~\E t \in Tickets : Produce(t)
    PROVE  [Promise!Next]_(Promise!vars)
<1>1. /\ pc \in [Workers -> {"down", "idle", "stopping", "broken"} \cup Handling]
      /\ "broken" \notin Handling
    BY DEF TypeInv, TypeOK, ConsumerTypeOK, Handling, Calls, Triaging
<1>2. ASSUME UNCHANGED <<processed, dead, lost, stops>>,
             \A w \in Workers : pc'[w] = "broken" <=> pc[w] = "broken"
      PROVE  UNCHANGED Promise!vars
    BY <1>2, TriagedStays, WrittenOffStays, SkippedStays, StalledStays DEF Promise!vars
<1>3. CASE UNCHANGED <<processed, dead, lost, stops, pc>>
    BY <1>2, <1>3
<1>4. ASSUME NEW p \in Partitions, NEW w \in Workers, Fetch(w, p) \/ FetchAtShutdown(w, p)
      PROVE  UNCHANGED Promise!vars
    BY <1>1, <1>2, <1>4 DEF Fetch, FetchAtShutdown, Fetched, store, history
<1>5. ASSUME NEW w \in Workers, Progress(w)
      PROVE  UNCHANGED Promise!vars \/ \E t \in Tickets : Promise!Triage(t)
  <2>1. PICK here \in Calls, next \in Handling : At(w, here, next)
      BY <1>5 DEF Progress, Check, StoreResult, AuditTriage, Decide, AuditRisk, Enqueue,
             MarkProcessed, Handling, Calls, Triaging
  <2>2. /\ UNCHANGED <<log, dead, lost, stops>>
        /\ \A v \in Workers : pc'[v] = "broken" <=> pc[v] = "broken"
      BY <1>1, <2>1 DEF At, topic, history, Handling
  <2>3. CASE processed' = processed
      BY <1>2, <2>2, <2>3
  <2>4. CASE processed' # processed
    <3>1. MarkProcessed(w)
        BY <1>5, <2>4 DEF Progress, Check, StoreResult, AuditTriage, Decide, AuditRisk, Enqueue,
                          store
    <3>2. PICK m \in Messages : inHand[w] = {m}
        BY <2>1, OneInHand DEF At, Handling, TypeInv
    <3>3. processed' = processed \cup {m}
        BY <3>1, <3>2 DEF MarkProcessed, MarkEventProcessed
    <3>4. TriagedTickets' = TriagedTickets \cup {TicketOf(m)}
        BY <2>2, <3>3 DEF TicketOf, TriagedTickets
    <3>5. Promise!Triage(TicketOf(m)) /\ TicketOf(m) \in Tickets
        BY <2>2, <3>4, MessageIsAccepted, WrittenOffStays, SkippedStays, StalledStays
           DEF Promise!Triage
    <3> QED
        BY <3>5
  <2> QED
      BY <2>3, <2>4
<1>6. ASSUME NEW w \in Workers, Turns(w)
      PROVE  [Promise!Next]_(Promise!vars)
  <2>1. UNCHANGED <<processed, log>>
      BY <1>6, TurnsKeepStore DEF store
  <2>2. CASE Start(w) \/ CallFails(w) \/ PoisonFails(w) \/ CommitFails(w) \/ Commit(w)
             \/ StopTimesOut(w)
      BY <1>1, <1>2, <2>1, <2>2
         DEF Start, CallFails, PoisonFails, CommitFails, Retry, Commit, StopTimesOut, Running,
             history, Calls, Triaging
  <2>3. CASE Stop(w)
    <3>1. UNCHANGED <<dead, lost, pc>> /\ stops' = stops + 1
        BY <2>3 DEF Stop, history
    <3>2. Promise!Shutdown
        BY <2>1, <3>1, TriagedStays, WrittenOffStays, SkippedStays, StalledStays
           DEF Promise!Shutdown
    <3> QED
        BY <3>2 DEF Promise!Next
  <2>4. CASE GiveUp(w) \/ GiveUpFails(w)
    <3>1. PICK m \in Messages : inHand[w] = {m}
        BY <2>4, OneInHand DEF GiveUp, GiveUpFails, Handling, TypeInv
    <3>2. dead' = dead \cup {m} /\ lost' = lost /\ stops' = stops
        BY <2>4, <3>1 DEF GiveUp, GiveUpFails
    <3>3. WrittenOffTickets' = WrittenOffTickets \cup {TicketOf(m)}
        BY <2>1, <3>1, <3>2, MessageIsAccepted DEF TicketOf, WrittenOffTickets
    <3>4. Stalled' \in {Stalled, TRUE}
      <4>1. CASE GiveUp(w)
        <5>1. \A v \in Workers : pc'[v] = "broken" <=> pc[v] = "broken"
            BY <1>1, <4>1 DEF GiveUp
        <5> QED
            BY <5>1, StalledStays
      <4>2. CASE GiveUpFails(w)
        <5>1. pc'[w] = "broken"
            BY <1>1, <4>2 DEF GiveUpFails
        <5> QED
            BY <5>1 DEF Stalled
      <4> QED
          BY <2>4, <4>1, <4>2
    <3>5. Promise!WriteOff(TicketOf(m)) /\ TicketOf(m) \in Tickets
        BY <2>1, <3>2, <3>3, <3>4, MessageIsAccepted, TriagedStays, SkippedStays
           DEF Promise!WriteOff
    <3> QED
        BY <3>5 DEF Promise!Next
  <2>5. CASE FinishStop(w)
    <3>1. dead' = dead /\ stops' = stops /\ pc[w] = "stopping" /\ pc' = [pc EXCEPT ![w] = "down"]
        BY <2>5 DEF FinishStop, Leave
    <3>2. \A v \in Workers : pc'[v] = "broken" <=> pc[v] = "broken"
        BY <1>1, <3>1
    <3>3. CASE lost' = lost
        BY <1>2, <2>1, <3>1, <3>2, <3>3
    <3>4. ASSUME NEW m \in Messages, lost' = lost \cup {m} PROVE Promise!Skip(TicketOf(m))
      <4>1. SkippedTickets' = SkippedTickets \cup {TicketOf(m)}
          BY <2>1, <3>4 DEF TicketOf, SkippedTickets
      <4>2. Cardinality(SkippedTickets) < stops
        <5>1. w \in Ending
            BY <3>1 DEF StopsInv, Ending
        <5>2. IsFiniteSet(Ending) /\ Cardinality(Ending) \in Nat /\ Cardinality(Ending) # 0
            BY <5>1, FS_CardinalityType, FS_EmptySet DEF StopsInv
        <5>3. Cardinality(lost) \in Nat
            BY MessagesFinite, FS_Subset, FS_CardinalityType DEF TypeInv, TypeOK, ConsumerTypeOK
        <5>4. Cardinality(lost) + Cardinality(Ending) <= stops /\ stops \in Nat
            BY DEF StopsInv
        <5> QED
            BY <5>2, <5>3, <5>4, SkippedIsBounded
      <4>3. TicketOf(m) \in AcceptedTickets
          BY MessageIsAccepted
      <4>4. /\ TriagedTickets' = TriagedTickets /\ WrittenOffTickets' = WrittenOffTickets
            /\ Stalled' = Stalled
          BY <2>1, <3>1, <3>2, TriagedStays, WrittenOffStays, StalledStays
      \* The instance has the operators of FiniteSets under names of its own.
      <4>5. Promise!Cardinality(SkippedTickets) = Cardinality(SkippedTickets)
          BY DEF Promise!Cardinality, Cardinality, Promise!IsFiniteSet, IsFiniteSet
      <4> QED
          BY <3>1, <4>1, <4>2, <4>3, <4>4, <4>5 DEF Promise!Skip
    <3> QED
        BY <2>5, <3>3, <3>4, OneIsLost, MessageIsAccepted DEF Promise!Next
  <2>6. CASE StopBroken(w) \/ Crash(w)
    <3>1. UNCHANGED <<dead, lost, stops>> /\ pc' = [pc EXCEPT ![w] = "down"]
        BY <2>6 DEF StopBroken, Crash, Leave, history
    <3>2. \A v \in Workers : pc'[v] = "broken" => pc[v] = "broken"
        BY <1>1, <3>1
    <3>3. Stalled' => Stalled
        BY <3>2 DEF Stalled
    <3>4. /\ TriagedTickets' = TriagedTickets /\ WrittenOffTickets' = WrittenOffTickets
          /\ SkippedTickets' = SkippedTickets
        BY <2>1, <3>1, TriagedStays, WrittenOffStays, SkippedStays
    <3>5. Stalled \in BOOLEAN /\ Stalled' \in BOOLEAN
        BY DEF Stalled
    <3>6. Stalled' = Stalled \/ Stalled' = FALSE
        BY <3>3, <3>5
    <3> QED
        BY <3>1, <3>4, <3>6 DEF Promise!Recover, Promise!Next, Promise!vars
  <2> QED
      BY <1>6, <2>2, <2>3, <2>4, <2>5, <2>6 DEF Turns
<1>7. DeskNext => processed' = processed
    BY DEF DeskNext, OpenReview, OpenFeedback, Decision, Resolve, ResolveTooLate, Feedback,
           AuditFeedback, Override, AuditReview, Abort, store
<1>8. CASE \/ UNCHANGED <<consumer, processed>>
           \/ \E p \in Partitions : Revoke(p) \/ \E w \in Workers : Assign(w, p)
    BY <1>3, <1>8 DEF Revoke, Assign, consumer, history, task, store
<1> QED
    BY <1>4, <1>5, <1>6, <1>7, <1>8, Kinds DEF Promise!Next, store

LEMMA PromiseStep ==
    /\ TypeInv /\ PhaseInv /\ OffsetInv /\ StopsInv /\ IngestionTypes /\ AcceptedInv
    /\ [PlatformNext]_platform
    => [Promise!Next]_(Promise!vars)
<1> SUFFICES ASSUME TypeInv, PhaseInv, OffsetInv, StopsInv, IngestionTypes, AcceptedInv,
                    [PlatformNext]_platform
             PROVE  [Promise!Next]_(Promise!vars)
    OBVIOUS
<1>1. [Next]_vars
    BY TriageServiceStep
<1>2. ASSUME NEW t \in Tickets, NEW k \in IdempotencyKeys \cup {NoKey}, NEW stamp \in Stamps,
             Submit(t, k, stamp)
      PROVE  [Promise!Next]_(Promise!vars)
    BY <1>1, <1>2, SubmitAccepts DEF Promise!Next
<1>3. ASSUME NEW r \in Relays, Relay(r) \/ LoseSession(r)
      PROVE  [Promise!Next]_(Promise!vars)
    BY <1>3, RelayWritesOff DEF Promise!Next
<1>4. CASE TriageStep \/ UNCHANGED platform
  <2>1. UNCHANGED outbox /\ log' = log
      BY <1>4, TriageKeepsLog DEF TriageStep, platform, consumer, topic
  <2>2. AcceptedTickets' = AcceptedTickets /\ deadLettered' = deadLettered
      BY <2>1 DEF AcceptedTickets, outbox
  <2>3. \A t \in Tickets : ~Produce(t)
    <3> SUFFICES ASSUME NEW t \in Tickets, Produce(t) PROVE FALSE
        OBVIOUS
    <3>1. PartitionOf[t] \in Partitions /\ log \in [Partitions -> Seq(Tickets)]
        BY ConsumerConstants DEF ConsumerConstants, TypeInv, TypeOK, ConsumerTypeOK
    <3>2. log'[PartitionOf[t]] = Append(log[PartitionOf[t]], t)
        BY <3>1 DEF Produce
    <3>3. log[PartitionOf[t]] \in Seq(Tickets)
        BY <3>1
    <3>4. Len(log'[PartitionOf[t]]) = Len(log[PartitionOf[t]]) + 1
        BY <3>2, <3>3
    <3> QED
        BY <2>1, <3>3, <3>4
  <2> QED
      BY <1>1, <2>2, <2>3, TriageIsPromised
<1> QED
    BY <1>2, <1>3, <1>4 DEF PlatformNext

\* Across both services, the topic and any fault, a ticket that is accepted stays
\* accepted, nothing is triaged, written off or skipped before it is accepted, none of
\* it is ever taken back, and tickets are skipped by shutdowns only, one by each at the
\* most.
THEOREM PromiseIsSafe == PlatformSpec => Promise!Safety
    BY InitPromise, PromiseStep, PlatformTypes, PlatformShutdowns, AcceptedFirst, PTL
       DEF PlatformSpec, Promise!Safety

-----------------------------------------------------------------------------
\* Where an accepted ticket is.

\* The topic that the outcome of a send names has a record of t.
Sent(t, outcome) ==
    /\ outcome = "PUBLISHED" => Records[t] > 0
    /\ outcome = "DLQ" => deadLettered[t] > 0

\* A status in the table was a mark first, so marks must be spoken of as well.
SentInv ==
    \A t \in Tickets :
        Sent(t, status[t]) /\ \A r \in Relays : Sent(t, mark[r][t])

\* Neither topic loses a record.
LEMMA RecordsGrow ==
    ASSUME TypeInv, IngestionTypes, AcceptedInv, [PlatformNext]_platform,
           NEW t \in Tickets, NEW outcome, Sent(t, outcome)
    PROVE  Sent(t, outcome)'
<1>1. Records \in [Tickets -> Nat] /\ deadLettered \in [Tickets -> Nat]
    BY RecordsType DEF IngestionTypes
<1>2. ASSUME NEW u \in Tickets, Sends(u) PROVE Sent(t, outcome)'
    BY <1>1, <1>2 DEF Sends, Sent
<1>3. ASSUME Records' = Records, deadLettered' = deadLettered PROVE Sent(t, outcome)'
    BY <1>3 DEF Sent
<1>4. ASSUME NEW r \in Relays, Relay(r) PROVE Sent(t, outcome)'
    BY <1>2, <1>3, <1>4, RelaySends DEF Relay
<1>5. ASSUME log' = log, deadLettered' = deadLettered PROVE Sent(t, outcome)'
    BY <1>3, <1>5, RecordsStay
<1> QED
    BY <1>4, <1>5, TriageKeepsLog DEF PlatformNext, TriageStep, Submit, LoseSession, Ingestion!Create,
       Ingestion!SessionLost, Ingestion!kafka, platform, outbox, vars, consumer, topic

LEMMA SentStep ==
    TypeInv /\ IngestionTypes /\ AcceptedInv /\ SentInv /\ [PlatformNext]_platform => SentInv'
<1> SUFFICES ASSUME TypeInv, IngestionTypes, AcceptedInv, SentInv, [PlatformNext]_platform,
                    NEW t \in Tickets
             PROVE  Sent(t, status[t])' /\ \A s \in Relays : Sent(t, mark[s][t])'
    BY DEF SentInv
<1> DEFINE Rows == Sent(t, status[t])'
           Marks == \A s \in Relays : Sent(t, mark[s][t])'
<1>1. /\ status \in [Tickets -> Ingestion!Status \cup {"ABSENT"}]
      /\ mark \in [Relays -> [Tickets -> Ingestion!Status \cup {"NONE"}]]
    BY DEF IngestionTypes
<1>2. ASSUME NEW outcome, Sent(t, outcome) PROVE Sent(t, outcome)'
    BY <1>2, RecordsGrow
<1>3. status'[t] \in {status[t], "PENDING"} \cup {mark[r][t] : r \in Relays} => Rows
    BY <1>2 DEF SentInv, Sent
<1>4. ASSUME NEW s \in Relays, mark'[s][t] \in {mark[s][t], "NONE", "PENDING"}
      PROVE  Sent(t, mark[s][t])'
    BY <1>2, <1>4 DEF SentInv, Sent
<1>5. UNCHANGED <<status, mark>> => Rows /\ Marks
    BY <1>3, <1>4
<1>6. ASSUME NEW u \in Tickets, NEW k \in IdempotencyKeys \cup {NoKey}, NEW stamp \in Stamps,
             Submit(u, k, stamp)
      PROVE  Rows /\ Marks
    BY <1>1, <1>3, <1>4, <1>6 DEF Submit, Ingestion!Create
<1>7. ASSUME NEW r \in Relays, LoseSession(r) PROVE Rows /\ Marks
    BY <1>1, <1>3, <1>4, <1>7 DEF LoseSession, Ingestion!SessionLost, Ingestion!Unmarked, Ingestion!rows
<1>8. ASSUME NEW r \in Relays, Ingestion!FetchPending(r) \/ Ingestion!OrphanEnds(r)
      PROVE  Rows /\ Marks
    BY <1>5, <1>8 DEF Ingestion!FetchPending, Ingestion!OrphanEnds, Ingestion!rows
<1>9. ASSUME NEW r \in Relays, Ingestion!Commit(r) PROVE Rows /\ Marks
    BY <1>1, <1>3, <1>4, <1>9 DEF Ingestion!Commit, Ingestion!Unmarked
<1>10. ASSUME NEW r \in Relays, NEW u \in Tickets,
              Ingestion!PublishRefused(r, u) \/ Ingestion!PublishFails(r, u)
       PROVE  Rows /\ Marks
    BY <1>1, <1>3, <1>4, <1>10
       DEF Ingestion!PublishRefused, Ingestion!PublishFails, Ingestion!MarkProcessed, Ingestion!rows
<1>11. ASSUME NEW r \in Relays, NEW u \in Tickets, Ingestion!Publish(r, u)
       PROVE  Rows /\ Marks
  <2>1. Rows
      BY <1>3, <1>11 DEF Ingestion!Publish, Ingestion!rows
  <2>2. ASSUME NEW s \in Relays, s # r \/ t # u PROVE Sent(t, mark[s][t])'
      BY <1>1, <1>4, <1>11, <2>2 DEF Ingestion!Publish, Ingestion!MarkProcessed
  <2>3. ASSUME t = u PROVE Sent(t, mark[r][t])'
    <3>1. mark'[r][t] = Ingestion!Target(t) /\ Ingestion!Stored(t, Ingestion!Target(t))
        BY <1>1, <1>11, <2>3 DEF Ingestion!Publish, Ingestion!MarkProcessed
    <3>2. Records \in [Tickets -> Nat] /\ deadLettered \in [Tickets -> Nat]
        BY RecordsType DEF IngestionTypes
    <3> QED
        BY <3>1, <3>2 DEF Ingestion!Target, Ingestion!Stored, Sent
  <2> QED
      BY <2>1, <2>2, <2>3
<1>12. ASSUME NEW r \in Relays, Relay(r) PROVE Rows /\ Marks
    BY <1>8, <1>9, <1>10, <1>11, <1>12 DEF Relay, Ingestion!RelayStep
<1> QED
    BY <1>5, <1>6, <1>7, <1>12 DEF PlatformNext, TriageStep, platform, outbox

LEMMA SentFirst == PlatformSpec => []SentInv
<1>1. PlatformInit => SentInv
  <2> SUFFICES ASSUME PlatformInit PROVE SentInv
      OBVIOUS
  <2> QED
      BY DEF PlatformInit, Ingestion!Init, Ingestion!Unmarked, SentInv, Sent
<1> QED
    BY <1>1, SentStep, PlatformTypes, AcceptedFirst, PTL DEF PlatformSpec

\* What the relay has settled is in a topic, and what the group has committed was
\* triaged, given up, or skipped by a shutdown: nothing else drops an accepted ticket
\* between the two services, and shutdowns drop no more tickets than there were of them.
THEOREM TicketsAreKept == PlatformSpec => []NoTicketIsDropped
<1>1. TypeInv /\ IngestionTypes /\ SentInv /\ StopsInv /\ CommittedIsAccounted
        => NoTicketIsDropped
  <2>0. TypeInv /\ StopsInv => Cardinality(SkippedTickets) <= stops
      BY SkippedIsBounded
  <2> SUFFICES ASSUME TypeInv, IngestionTypes, SentInv, CommittedIsAccounted,
                      NEW t \in AcceptedTickets, status[t] # "PENDING", ~InFlight(t)
               PROVE  t \in TriagedTickets \cup WrittenOffTickets \cup SkippedTickets
      BY <2>0 DEF NoTicketIsDropped
  <2>1. t \in Tickets /\ status[t] \in {"PUBLISHED", "DLQ"}
      BY DEF AcceptedTickets, IngestionTypes, Ingestion!Status, Ingestion!Settled
  <2>2. CASE status[t] = "DLQ"
      BY <2>1, <2>2 DEF SentInv, Sent, WrittenOffTickets
  <2>3. CASE status[t] = "PUBLISHED"
    <3> DEFINE mine == {m \in Messages : TicketOf(m) = t}
    <3>1. Cardinality(mine) > 0
        BY <2>1, <2>3 DEF SentInv, Sent, Records
    <3>2. PICK m \in Messages : TicketOf(m) = t
        BY <3>1, FS_EmptySet
    <3>3. m[2] <= committed[m[1]]
      <4>1. m[1] \in Partitions /\ m[2] \in Nat
          BY ConsumerConstants DEF ConsumerConstants, Messages
      <4>2. committed[m[1]] \in 0 .. MaxMessages
          BY <4>1 DEF TypeInv, TypeOK, ConsumerTypeOK
      <4>3. committed[m[1]] \in Nat
          BY <4>2, ConsumerConstants DEF ConsumerConstants
      <4> QED
          BY <3>2, <4>1, <4>3 DEF InFlight
    <3>4. m \in processed \cup dead \cup lost
        BY <3>3 DEF CommittedIsAccounted, Accounted
    <3> QED
        BY <2>1, <3>2, <3>4 DEF TriagedTickets, WrittenOffTickets, SkippedTickets
  <2> QED
      BY <2>1, <2>2, <2>3
<1> QED
    BY <1>1, PlatformTypes, PlatformShutdowns, AcceptedFirst, SentFirst,
       PlatformIsTriageSystem, CommittedAccounted, PTL

=============================================================================
