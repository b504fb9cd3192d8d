--------------------------- MODULE TriageConsumer ---------------------------
(***************************************************************************)
(* TicketKafkaConsumer and the triage pipeline it drives.                  *)
(*                                                                         *)
(* Each instance of the triage service runs one consumer task.  It fetches *)
(* a message, which moves its position, and handles it to the end before   *)
(* it fetches the next: look the message up in processed_events, triage    *)
(* the ticket (four to five writes), record the message as processed,      *)
(* commit.  Every await is a step of its own: other tasks, instances and   *)
(* the shutdown run in between, and every database call may raise.         *)
(*                                                                         *)
(* commit() takes no arguments: it commits the position of the instance in *)
(* every partition it owns, whatever has been done with the messages up to *)
(* there.  Offsets are counted from 1; committed[p] is the last offset of  *)
(* p that will not be fetched again after a restart.                       *)
(***************************************************************************)
EXTENDS TriageStore

CONSTANTS
    Workers,      \* instances of the triage service in the consumer group
    Partitions,   \* partitions of support.ticket.created
    PartitionOf,  \* the partition the producer's key puts a ticket in
    Poison,       \* tickets whose message cannot be parsed or triaged
    MaxAttempts,  \* _TRANSIENT_TIER[0]
    MaxMessages,  \* bound: messages in the topic, duplicates included
    FaultKinds,   \* bound: which of "DB", "COMMIT", "CRASH", "REBALANCE" occur
    MaxFaults,    \* bound: how many of them
    MaxStops      \* bound: orderly shutdowns

ASSUME ConsumerConstants ==
    /\ Partitions \subseteq Nat /\ IsFiniteSet(Partitions)
    /\ PartitionOf \in [Tickets -> Partitions]
    /\ Poison \subseteq Tickets
    /\ MaxAttempts \in Nat \ {0}
    /\ FaultKinds \subseteq {"DB", "COMMIT", "CRASH", "REBALANCE"}
    /\ MaxMessages \in Nat /\ MaxFaults \in Nat /\ MaxStops \in Nat

VARIABLES
    log,       \* per partition: the tickets of its messages, in offset order
    committed, \* per partition: the group's committed offset
    owner,     \* per partition: {} or the instance it is assigned to
    position,  \* per instance and partition: last offset fetched
    pc,        \* per instance: the await its consumer task is at
    inHand,    \* per instance: {} or the message being handled
    attempt,   \* per instance: failed attempts at that message
    toReview,  \* per instance: requires_review of the prediction it stored
    shutdown,  \* per instance: _shutdown is set
    dead,      \* messages given up after MaxAttempts ("routing to DLQ")
    lost,      \* messages committed by stop() unhandled, of which nothing tells
    contested, \* messages fetched while another instance had them in hand
    faults, stops

topic    == <<log, committed>>
group    == <<owner, position>>
task     == <<pc, inHand, attempt, toReview, shutdown>>
history  == <<dead, lost, contested>>
consumer == <<topic, group, task, history, faults, stops>>

\* The awaits between the fetch of a message and its commit.
Triaging == {"triage", "auditTriage", "decide", "auditRisk", "enqueue"}
Calls    == {"check", "mark"} \cup Triaging
Handling == Calls \cup {"commit", "giveUp"}

Running(w) == pc[w] \in {"idle"} \cup Handling

Messages == {m \in Partitions \X (1 .. MaxMessages) : m[2] <= Len(log[m[1]])}

TicketOf(m) == log[m[1]][m[2]]

\* Messages that no instance has to handle any more.
Accounted == processed \cup dead \cup lost

\* A message of t is still to be handled to its end.
Owes(t) == \E m \in Messages : TicketOf(m) = t /\ m \notin Accounted

\* A message of t was given up, or committed by stop() unhandled.
CutOff(t) == \E m \in dead \cup lost : TicketOf(m) = t

\* Two instances had a message of t in hand at once.
Contested(t) == \E m \in contested : TicketOf(m) = t

ConsumerTypeOK ==
    /\ log \in [Partitions -> Seq(Tickets)]
    /\ committed \in [Partitions -> 0 .. MaxMessages]
    /\ owner \in [Partitions -> SUBSET Workers]
    /\ position \in [Workers -> [Partitions -> 0 .. MaxMessages]]
    /\ pc \in [Workers -> {"down", "idle", "stopping", "broken"} \cup Handling]
    /\ inHand \in [Workers -> SUBSET Messages]
    /\ \A w \in Workers : pc[w] \in Handling => Cardinality(inHand[w]) = 1
    /\ attempt \in [Workers -> 0 .. MaxAttempts]
    /\ toReview \in [Workers -> BOOLEAN]
    /\ shutdown \in [Workers -> BOOLEAN]
    /\ dead \subseteq Messages /\ lost \subseteq Messages /\ contested \subseteq Messages

ConsumerInit ==
    /\ log = [p \in Partitions |-> <<>>]
    /\ committed = [p \in Partitions |-> 0]
    /\ owner = [p \in Partitions |-> {}]
    /\ position = [w \in Workers |-> [p \in Partitions |-> 0]]
    /\ pc = [w \in Workers |-> "down"]
    /\ inHand = [w \in Workers |-> {}]
    /\ attempt = [w \in Workers |-> 0]
    /\ toReview = [w \in Workers |-> FALSE]
    /\ shutdown = [w \in Workers |-> FALSE]
    /\ dead = {}
    /\ lost = {}
    /\ contested = {}
    /\ faults = 0
    /\ stops = 0

Fault(kind) ==
    /\ kind \in FaultKinds
    /\ faults < MaxFaults
    /\ faults' = faults + 1

-----------------------------------------------------------------------------
\* The producer: the outbox relay sends a ticket's event at least once, and
\* every copy carries the ticket's key.
Produce(t) ==
    /\ Cardinality(Messages) < MaxMessages
    /\ log' = [log EXCEPT ![PartitionOf[t]] = Append(@, t)]
    /\ UNCHANGED <<store, committed, group, task, history, faults, stops>>

\* Variant: auto_offset_reset="latest" for every assignment.
AssignFromLatest(w, p) ==
    /\ pc[w] # "down"
    /\ owner[p] = {}
    /\ owner' = [owner EXCEPT ![p] = {w}]
    /\ position' = [position EXCEPT ![w][p] = Len(log[p])]
    /\ UNCHANGED <<store, topic, task, history, faults, stops>>

\* The group coordinator: a partition without an owner is given to an instance
\* that is up, whose position then starts at the committed offset.
Assign(w, p) ==
    /\ pc[w] # "down"
    /\ owner[p] = {}
    /\ owner' = [owner EXCEPT ![p] = {w}]
    /\ position' = [position EXCEPT ![w][p] = committed[p]]
    /\ UNCHANGED <<store, topic, task, history, faults, stops>>

\* The group rebalances while its members are at work.
Revoke(p) ==
    /\ owner[p] # {}
    /\ Fault("REBALANCE")
    /\ owner' = [owner EXCEPT ![p] = {}]
    /\ UNCHANGED <<store, topic, position, task, history, stops>>

-----------------------------------------------------------------------------
\* TicketKafkaConsumer.start
Start(w) ==
    /\ pc[w] = "down"
    /\ pc' = [pc EXCEPT ![w] = "idle"]
    /\ shutdown' = [shutdown EXCEPT ![w] = FALSE]
    /\ UNCHANGED <<store, topic, group, inHand, attempt, toReview, history, faults, stops>>

\* async for message in self.consumer: the position moves with the fetch.
Fetched(w, p) ==
    /\ pc[w] = "idle"
    /\ owner[p] = {w}
    /\ position[w][p] < Len(log[p])
    /\ position' = [position EXCEPT ![w][p] = @ + 1]

\* The message that is fetched next.
Ahead(w, p) == <<p, position[w][p] + 1>>

\* After a rebalance another instance may still be at work on it.
Fetch(w, p) ==
    /\ Fetched(w, p)
    /\ ~shutdown[w]
    /\ pc' = [pc EXCEPT ![w] = "check"]
    /\ inHand' = [inHand EXCEPT ![w] = {Ahead(w, p)}]
    /\ attempt' = [attempt EXCEPT ![w] = 0]
    /\ contested' = contested \cup ({Ahead(w, p)} \cap UNION {inHand[v] : v \in Workers})
    /\ UNCHANGED <<store, topic, owner, toReview, shutdown, dead, lost, faults, stops>>

\* The message that wakes the loop after stop() has been called is not handled.
FetchAtShutdown(w, p) ==
    /\ Fetched(w, p)
    /\ shutdown[w]
    /\ pc' = [pc EXCEPT ![w] = "stopping"]
    /\ UNCHANGED <<store, topic, owner, inHand, attempt, toReview, shutdown,
                   history, faults, stops>>

\* The handler of w passes from one await to the next.
At(w, here, next) ==
    /\ pc[w] = here
    /\ pc' = [pc EXCEPT ![w] = next]
    /\ UNCHANGED <<topic, group, inHand, attempt, shutdown, history, faults, stops>>

\* Variant: no look-up in processed_events.
CheckNothing(w) ==
    /\ At(w, "check", "triage")
    /\ UNCHANGED <<store, toReview>>

\* Variant: the key is stored as soon as it has been looked up.
CheckAndMark(w) ==
    /\ \E m \in inHand[w] :
         /\ At(w, "check", IF m \in processed THEN "commit" ELSE "triage")
         /\ MarkEventProcessed(m)
    /\ UNCHANGED <<toReview, result, reviews, audit, decided, corrected>>

\* is_processed: a message of which the key is already stored is only committed.
Check(w) ==
    /\ \E m \in inHand[w] :
         At(w, "check", IF m \in processed THEN "commit" ELSE "triage")
    /\ UNCHANGED <<store, toReview>>

\* extract_features, classification, requires_review, triage_repository.create.
\* The prediction may differ from one attempt to the next.
StoreResult(w) ==
    /\ At(w, "triage", "auditTriage")
    /\ \E m \in inHand[w], flagged \in BOOLEAN :
         /\ TicketOf(m) \notin Poison
         /\ UpsertResult(TicketOf(m), flagged)
         /\ toReview' = [toReview EXCEPT ![w] = flagged]
    /\ UNCHANGED <<reviews, audit, decided, corrected, processed>>

AuditTriage(w) ==
    /\ At(w, "auditTriage", "decide")
    /\ \E m \in inHand[w] : WriteAudit(TicketOf(m), "TRIAGE_COMPLETED")
    /\ UNCHANGED <<toReview, result, reviews, decided, corrected, processed>>

\* RiskScoringService.decide up to the insert.
Decide(w) ==
    /\ At(w, "decide", "auditRisk")
    /\ \E m \in inHand[w] : InsertDecision(TicketOf(m))
    /\ UNCHANGED <<toReview, result, reviews, audit, corrected, processed>>

\* Variant: step 9 of triage() is left out.
AuditRiskWithoutReview(w) ==
    /\ At(w, "auditRisk", "mark")
    /\ \E m \in inHand[w] : WriteAudit(TicketOf(m), "RISK_DECISION_MADE")
    /\ UNCHANGED <<toReview, result, reviews, decided, corrected, processed>>

AuditRisk(w) ==
    /\ At(w, "auditRisk", IF toReview[w] THEN "enqueue" ELSE "mark")
    /\ \E m \in inHand[w] : WriteAudit(TicketOf(m), "RISK_DECISION_MADE")
    /\ UNCHANGED <<toReview, result, reviews, decided, corrected, processed>>

Enqueue(w) ==
    /\ At(w, "enqueue", "mark")
    /\ \E m \in inHand[w] : EnqueueReview(TicketOf(m))
    /\ UNCHANGED <<toReview, result, audit, decided, corrected, processed>>

MarkProcessed(w) ==
    /\ At(w, "mark", "commit")
    /\ \E m \in inHand[w] : MarkEventProcessed(m)
    /\ UNCHANGED <<toReview, result, reviews, audit, decided, corrected>>

\* Variant: positions are committed whoever owns the partition by now.
CommitAnyPosition(w) ==
    committed' = [p \in Partitions |-> position[w][p]]

\* consumer.commit(): the position in every partition assigned to w.
CommitPositions(w) ==
    committed' = [p \in Partitions |->
                    IF owner[p] = {w} THEN position[w][p] ELSE committed[p]]

Commit(w) ==
    /\ pc[w] = "commit"
    /\ CommitPositions(w)
    /\ pc' = [pc EXCEPT ![w] = "idle"]
    /\ inHand' = [inHand EXCEPT ![w] = {}]
    /\ UNCHANGED <<store, log, group, attempt, toReview, shutdown, history,
                   faults, stops>>

\* Variant: a failed message is tried again without a limit.
RetryForever(w) ==
    /\ pc' = [pc EXCEPT ![w] = "check"]
    /\ UNCHANGED <<store, topic, group, inHand, attempt, toReview, shutdown, history, stops>>

\* except Exception: wait and start over, or give the message up.
Retry(w) ==
    /\ attempt' = [attempt EXCEPT ![w] = @ + 1]
    /\ pc' = [pc EXCEPT ![w] = IF attempt[w] + 1 >= MaxAttempts
                               THEN "giveUp" ELSE "check"]
    /\ UNCHANGED <<store, topic, group, inHand, toReview, shutdown, history, stops>>

\* A database call, or the prediction, raises.
CallFails(w) ==
    /\ pc[w] \in Calls
    /\ Fault("DB")
    /\ Retry(w)

PoisonFails(w) ==
    /\ pc[w] = "triage"
    /\ \E m \in inHand[w] : TicketOf(m) \in Poison
    /\ Retry(w)
    /\ UNCHANGED faults

\* commit() raises, as it does while the group rebalances.
CommitFails(w) ==
    /\ pc[w] = "commit"
    /\ Fault("COMMIT")
    /\ Retry(w)

\* _route_to_dlq only logs the message; then its offset is committed.
GiveUp(w) ==
    /\ pc[w] = "giveUp"
    /\ dead' = dead \cup inHand[w]
    /\ CommitPositions(w)
    /\ pc' = [pc EXCEPT ![w] = "idle"]
    /\ inHand' = [inHand EXCEPT ![w] = {}]
    /\ UNCHANGED <<store, log, group, attempt, toReview, shutdown, lost, contested,
                   faults, stops>>

\* The commit after giving up is outside the try: if it raises, the exception
\* leaves the loop and ends the consumer task; the instance stays in the group.
GiveUpFails(w) ==
    /\ pc[w] = "giveUp"
    /\ Fault("COMMIT")
    /\ dead' = dead \cup inHand[w]
    /\ pc' = [pc EXCEPT ![w] = "broken"]
    /\ inHand' = [inHand EXCEPT ![w] = {}]
    /\ UNCHANGED <<store, topic, group, attempt, toReview, shutdown, lost, contested,
                   stops>>

-----------------------------------------------------------------------------
\* TicketKafkaConsumer.stop sets the event and waits for the task.
Stop(w) ==
    /\ pc[w] # "down"
    /\ ~shutdown[w]
    /\ stops < MaxStops
    /\ stops' = stops + 1
    /\ shutdown' = [shutdown EXCEPT ![w] = TRUE]
    /\ UNCHANGED <<store, topic, group, pc, inHand, attempt, toReview, history, faults>>

\* After ten seconds the task is cancelled at whatever await it has reached.
StopTimesOut(w) ==
    /\ shutdown[w]
    /\ Running(w)
    /\ pc' = [pc EXCEPT ![w] = "stopping"]
    /\ inHand' = [inHand EXCEPT ![w] = {}]
    /\ UNCHANGED <<store, topic, group, attempt, toReview, shutdown, history,
                   faults, stops>>

Leave(w) ==
    /\ pc' = [pc EXCEPT ![w] = "down"]
    /\ inHand' = [inHand EXCEPT ![w] = {}]
    /\ owner' = [p \in Partitions |-> owner[p] \ {w}]
    /\ UNCHANGED <<store, log, position, attempt, toReview, shutdown>>

\* stop() then commits the current position, which includes a message that was
\* fetched and not handled, or not handled to the end.  No row, entry or line of
\* the log says so: lost is known to this model only.
FinishStop(w) ==
    /\ pc[w] = "stopping"
    /\ CommitPositions(w)
    /\ Leave(w)
    /\ lost' = lost \cup {m \in Messages :
                            /\ committed[m[1]] < m[2]
                            /\ m[2] <= committed'[m[1]]
                            /\ m \notin processed \cup dead}
    /\ UNCHANGED <<dead, contested, faults, stops>>

\* Awaiting a task that ended with an exception raises it out of stop().
StopBroken(w) ==
    /\ pc[w] = "broken"
    /\ shutdown[w]
    /\ Leave(w)
    /\ UNCHANGED <<committed, history, faults, stops>>

Crash(w) ==
    /\ pc[w] # "down"
    /\ Fault("CRASH")
    /\ Leave(w)
    /\ UNCHANGED <<committed, history, stops>>

-----------------------------------------------------------------------------
Handle(w) ==
    \/ Check(w) \/ StoreResult(w) \/ AuditTriage(w) \/ Decide(w) \/ AuditRisk(w)
    \/ Enqueue(w) \/ MarkProcessed(w) \/ Commit(w)
    \/ CallFails(w) \/ PoisonFails(w) \/ CommitFails(w)
    \/ GiveUp(w) \/ GiveUpFails(w)

Stopping(w) ==
    \/ \E p \in Partitions : FetchAtShutdown(w, p)
    \/ StopTimesOut(w) \/ FinishStop(w) \/ StopBroken(w)

ConsumerStep ==
    \/ \E p \in Partitions : Revoke(p)
    \/ \E w \in Workers, p \in Partitions : Assign(w, p) \/ Fetch(w, p)
    \/ \E w \in Workers :
         Start(w) \/ Handle(w) \/ Stop(w) \/ Stopping(w) \/ Crash(w)

ConsumerNext == ConsumerStep \/ \E t \in Tickets : Produce(t)

\* The event loop runs the task on and the coordinator assigns free partitions;
\* nothing makes clients create tickets, nor faults or shutdowns happen.
ConsumerFairness ==
    /\ \A w \in Workers : WF_<<store, consumer>>(Start(w) \/ Handle(w) \/ Stopping(w))
    /\ \A w \in Workers, p \in Partitions : WF_<<store, consumer>>(Fetch(w, p))
    /\ \A p \in Partitions :
         WF_<<store, consumer>>(\E w \in Workers : Running(w) /\ Assign(w, p))

-----------------------------------------------------------------------------
\* Properties of the consumer by itself.

\* A message the group will not fetch again was recorded as processed, given up
\* after MaxAttempts failures, or cut off by a shutdown: no rebalance, crash,
\* retry or late commit of another instance loses one in any other way.
CommittedIsAccounted ==
    \A m \in Messages : m[2] <= committed[m[1]] => m \in Accounted

\* The processed_events row is a message's last write: the result, the risk decision
\* and both audit entries of its ticket are in the tables by then, however many
\* attempts and instances shared the work.  So is the review, if the result asks for
\* one, with three exceptions: another message of the ticket is still to be handled;
\* one was given up or cut off half-way; or two instances had a message in hand at
\* once, when the one that has lost its partition may store a flagged result after the
\* other has recorded the message, and end before it queues the review.
ProcessedIsComplete ==
    \A m \in processed :
        LET t == TicketOf(m)
        IN  /\ Triaged(t) /\ t \in decided
            /\ {"TRIAGE_COMPLETED", "RISK_DECISION_MADE"}
                 \subseteq {a \in AuditActions : <<t, a>> \in audit}
            /\ Flagged(t) => Queued(t) \/ Owes(t) \/ CutOff(t) \/ Contested(t)

\* The group's offset never moves back, even when an instance commits after it
\* has lost a partition to another.
OffsetsAdvance ==
    [][\A p \in Partitions : committed'[p] >= committed[p]]_committed

\* Redelivery after a crash or a failed commit does not triage a message again,
\* unless two instances had it in hand at once.
ProcessedOnce ==
    [][\A w \in Workers : pc[w] = "triage" /\ pc'[w] = "auditTriage" =>
         inHand[w] \cap processed \subseteq contested]_<<pc, processed>>

\* Every message is settled in the end: a poison message or a failing database
\* never holds up the messages behind it, unless a consumer task has died.
MessagesSettle ==
    \A p \in Partitions, o \in 1 .. MaxMessages :
        o <= Len(log[p]) ~> committed[p] >= o \/ \E w \in Workers : pc[w] = "broken"
=============================================================================
