------------------------------ MODULE Platform -------------------------------
(***************************************************************************)
(* The two services and the topic between them: the outbox relay of        *)
(* TicketOutbox in the place of TriageSystem's Produce, before the         *)
(* consumers and the review requests.                                      *)
(*                                                                         *)
(* The topic support.ticket.created is the one piece of state they share.  *)
(* For the consumers it is a log per partition; for the relay, a number of *)
(* records per ticket, which is what the log holds of that ticket.  What   *)
(* the relay stores becomes one more message of the log, whatever order    *)
(* the relays' sends and the consumers' steps come in.                     *)
(***************************************************************************)
EXTENDS TriageSystem

CONSTANTS
    IdempotencyKeys, NoKey, Stamps, Relays, Oversized, BatchSize,
    MaxAttemptsBeforeDlq,
    MaxRelayFaults \* bound: lost sends, lost acks and lost transactions

VARIABLES
    keyOf, status, attempts, createdAt, todo, mark, orphan,
    deadLettered, \* records per ticket in support.ticket.created.dlq
    relayFaults

\* The relay's view of the topic: how many records of each ticket it holds.
Records == [t \in Tickets |-> Cardinality({m \in Messages : TicketOf(m) = t})]

outbox == <<keyOf, status, attempts, createdAt, todo, mark, orphan,
            deadLettered, relayFaults>>
platform == <<store, consumer, review, outbox>>

Ingestion == INSTANCE TicketOutbox WITH
    created   <- Records,
    dead      <- deadLettered,
    faults    <- relayFaults,
    MaxFaults <- MaxRelayFaults

PlatformInit == Init /\ Ingestion!Init

-----------------------------------------------------------------------------
Submit(t, k, stamp) ==
    /\ UNCHANGED vars
    /\ Ingestion!Create(t, k, stamp)

\* What a step of the relay does to the log: a record of some ticket at the end
\* of its partition, within the bound MaxMessages, or nothing.
TopicStep == UNCHANGED vars \/ \E t \in Tickets : Produce(t) /\ UNCHANGED review

Relay(r) == TopicStep /\ Ingestion!RelayStep(r)

LoseSession(r) ==
    /\ UNCHANGED vars
    /\ Ingestion!SessionLost(r)

\* A step of the triage service, which reads the topic and never writes it.
TriageStep ==
    /\ \/ ConsumerStep /\ UNCHANGED review
       \/ DeskNext /\ UNCHANGED consumer
    /\ UNCHANGED outbox

PlatformNext ==
    \/ \E t \in Tickets, k \in IdempotencyKeys \cup {NoKey}, stamp \in Stamps :
         Submit(t, k, stamp)
    \/ \E r \in Relays : Relay(r) \/ LoseSession(r)
    \/ TriageStep

PlatformSpec == PlatformInit /\ [][PlatformNext]_platform

\* Both services run on; nothing makes clients, faults or shutdowns come.
PlatformFairSpec ==
    /\ PlatformSpec
    /\ ConsumerFairness
    /\ \A r \in Relays : WF_platform(Relay(r))

-----------------------------------------------------------------------------
\* Properties.

\* Tickets with a row.
AcceptedTickets == {t \in Tickets : status[t] # "ABSENT"}

\* Tickets one of whose messages is recorded as processed: ProcessedIsComplete says
\* what that stands for.
TriagedTickets == {TicketOf(m) : m \in processed}

\* Tickets one of whose events was given up on one side of the topic or the other: it
\* is in the dead-letter topic, or _route_to_dlq has logged it.
WrittenOffTickets == {t \in Tickets : deadLettered[t] > 0} \cup {TicketOf(m) : m \in dead}

\* Tickets one of whose messages stop() committed unhandled.  The code keeps no trace
\* of them: nobody can tell such a ticket from one that is still in the topic.
SkippedTickets == {TicketOf(m) : m \in lost}

Stalled == \E w \in Workers : pc[w] = "broken"

Promise == INSTANCE TicketPromise WITH
    Unsendable <- Oversized,
    accepted   <- AcceptedTickets,
    triaged    <- TriagedTickets,
    writtenOff <- WrittenOffTickets,
    skipped    <- SkippedTickets,
    shutdowns  <- stops,
    stalled    <- Stalled

\* The two services keep the promise made to the client: an accepted ticket is triaged
\* or visibly written off in the end, through lost and doubled sends, database sessions
\* that end, failing calls, rebalances and crashes, and nothing is triaged that was not
\* accepted.  A shutdown breaks the promise: it may skip a ticket without a trace, but
\* no more than one.
PromiseSpec == Promise!Spec

\* A message of t the group will still fetch.
InFlight(t) == \E m \in Messages : TicketOf(m) = t /\ m[2] > committed[m[1]]

\* At every moment an accepted ticket is in the hands of one of the two services, or
\* done with: its row waits for the relay, its message for a consumer, or it has been
\* triaged or visibly written off.  The one thing that drops it in between is stop(),
\* silently, and no more tickets are dropped than there were shutdowns.
NoTicketIsDropped ==
    /\ \A t \in AcceptedTickets :
         \/ status[t] = "PENDING" \/ InFlight(t)
         \/ t \in TriagedTickets \cup WrittenOffTickets \cup SkippedTickets
    /\ Cardinality(SkippedTickets) <= stops
=============================================================================
