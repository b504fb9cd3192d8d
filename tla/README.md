# Verification of the AI ticket triage platform

TLA+ models of the two services under `services/`, model-checked with TLC on small
instances, and theorems about them proved with TLAPS for every value of the constants.

Paths below are relative to the repository root; `J` stands for
`services/ticket-ingestion/src/main/java/com/aihumanloop/ingestion`, `A` for
`services/ai-triage/app`.

## 1. The system

    client ──POST /tickets──► ticket-ingestion ──outbox row──► relay ──► Kafka topic
                              (one transaction)                (any number of instances)
                                                                           │ at least once
    reviewer ──decision──► review API ──► PostgreSQL tables ◄── triage consumer
    operator ──promote, kill switch──►        │                    │
                                        audit_logs             LLM client ──► OpenRouter

The pieces share one PostgreSQL database and two Kafka topics. Apart from the ingestion
transaction and the relay's, nothing is wrapped in a transaction: the pool of
`A/infrastructure/db.py` runs in autocommit, so each repository call is a transaction of
its own and everything else can happen in between.

### Inventory

**Ticket intake and outbox** (`J/service/TicketService.java`,
`J/service/TicketEventProducer.java`, `J/repository/OutboxEventRepository.java`,
`J/domain/OutboxEvent.java`, `db/migration/V4`).
*State:* `tickets` (with a unique partial index on `idempotency_key`), `outbox_events`
(status, attempts, created_at). *Operations:* `create` (ticket and row together),
`relay` (lock a batch with `FOR UPDATE SKIP LOCKED`, send each row, mark it, commit).
*Hard:* several instances poll the same table; sends are outside the transaction; a send
may time out although the broker has the record; a database session may go while a send
is in flight. *Correct when* no accepted ticket is lost, no two instances send one row,
duplicates come from faults only, the dead-letter topic is a last resort, one key never
puts two tickets into Kafka, and everything that can be sent is sent in the end.

**Kafka and the consumer group** (external; `J/config/KafkaTopicConfig.java`).
*State:* a log per partition, the group's committed offsets, the assignment.
*Hard:* rebalances while a message is being handled; commits of positions, not messages.

**Triage consumer** (`A/infrastructure/kafka_consumer.py`). *State:* fetch position,
message in hand, attempt counter, shutdown flag. *Operations:* `start`, the fetch loop,
`_handle_with_retry`, `_route_to_dlq`, `stop`. *Hard:* every await is a point where the
process may die, the call may raise, the group may rebalance, or the shutdown may cancel
the task. *Correct when* each message is handled, or accounted for, before its offset is
committed; a message is marked as processed after all of its writes; none blocks its
partition for ever.

**Triage pipeline** (`A/services/triage_service.py`, `A/services/risk_service.py`).
Result, audit entry, risk decision, audit entry, review: four or five writes in this
order. *Correct when* a ticket flagged for review is reachable for a reviewer.

**Tables** (`A/infrastructure/repositories.py`, `db/migration/V1`–`V6`): the statements.

**Human review and feedback** (`A/services/human_review_service.py`,
`A/services/feedback_service.py`). *Operations:* `decide` (conditional update, then
feedback, audit, override, audit), `create_for_ticket`. *Hard:* reviewers race;
a request ends half-way; the ticket is triaged again meanwhile. *Correct when* one
reviewer decides each review, the decision stays, and it leaves its trail.

**Model governance** (`A/services/model_governance_service.py`). *State:*
`model_registry`, `audit_logs`. *Operations:* `register`, `promote`, `retire`, the kill
switch. *Hard:* check and update are separate statements; promotion to PRIMARY retires
another model first. *Correct when* models move along the progression, there is one
primary, and the log explains the registry.

**Language model client** (`A/services/openrouter_triage.py`). *State:* the circuit
breaker (in memory). *Operations:* `extract_features`. *Hard:* exceptions that are not
in the list; time; the kill switch, kept elsewhere. *Correct when* the breaker's state
agrees with its counter, a failing provider is probed and not hammered, a healthy one is
used again.

**Decision policy** (`policy_engine.py`, `confidence.py`, `routing.py`,
`triage_tree.py`, `classifier.py`, `priority.py`, `escalation.py`,
`feature_extractor.py`, `risk_service.py` in `A/services`). *State:*
`threshold_config`, which operators change; the rest are rules from a ticket to a
prediction, a review flag and a risk decision. *Hard:* two verdicts reached from
different tables by different modules about one ticket; comparisons in opposite
directions; first-match orders. *Correct when* a ticket with a hard signal or an
overriding rule gets to a person, and doubt never makes a verdict milder.

**Replay runs** (`A/services/replay_service.py`, `db/migration/V6`). *State:*
`replay_runs`, `audit_logs`; it reads `risk_decisions`. *Operations:* `create_run`,
`execute_run`, behind four endpoints. *Hard:* a run may be executed whatever its status,
by several callers at once, while the triage service adds decisions to its window; an
execution may raise or die between two statements. *Correct when* RUNNING means that
somebody is at work, and a summary leaves out no decision it should hold.

**Model monitoring** (`A/services/model_monitor.py`): statistics over tables nothing
fills. **HTTP layer, configuration, pool, start scripts:** no state of their own.

## 2. The modules

| module | models | extends |
|---|---|---|
| `OutboxContract` | what ingestion promises, without relays, batches or faults | – |
| `TicketOutbox` | `create`, `relay` on any number of instances | – |
| `TicketOutboxProofs` | theorems about `TicketOutbox` | `TicketOutbox`, `TLAPS` |
| `TriageStore` | the triage tables, one operator per repository statement | – |
| `TriageConsumer` | the consumer group, the fetch loop, the pipeline's writes | `TriageStore` |
| `ReviewDesk` | review decisions and feedback | `TriageStore` |
| `TriageSystem` | consumer and desk over one store | both |
| `MCTriageSystem` | partitions and symmetry for TLC | `TriageSystem` |
| `TriageConsumerProofs` | theorems about the consumer group in `TriageSystem` | `TriageSystem`, `TLAPS` |
| `TriageSystemProofs` | theorems about reviews, overrides and the log | `TriageConsumerProofs` |
| `TicketPromise` | what both services together promise the client of a ticket | – |
| `Platform` | relay, consumers and review desk, composed through the topic; implements `TicketPromise` | `TriageSystem`, instance of `TicketOutbox` |
| `MCPlatform` | partitions for TLC | `Platform` |
| `PlatformProofs` | theorems about the two services together | `Platform`, `TriageSystemProofs` |
| `DecisionPolicy` | what is decided about a ticket, by which rules | – |
| `DecisionPolicyProofs` | theorems about it | `DecisionPolicy`, `TLAPS` |
| `ModelGovernance` | registry, promotions, retirements | – |
| `ModelGovernanceProofs` | theorems about it | `ModelGovernance`, `TLAPS` |
| `LlmGateway` | LLM client, circuit breaker, kill switch | – |
| `LlmGatewayProofs` | theorems about it | `LlmGateway`, `TLAPS` |
| `ReplayRuns` | replay runs, their executions and the window they read | – |
| `ReplayRunsProofs` | theorems about it | `ReplayRuns`, `TLAPS` |

Operators whose comment begins with "Variant" are not part of any specification: each is
a plausible mistake in the operation that follows it, and stands for the change under
which a property of the module must fail (`mutants` in `PROJECT.json`).

### TicketOutbox

| code | model |
|---|---|
| `TicketService.create`, index `idx_tickets_idempotency_key` | `Create`, `KeyIsFree` |
| `fetchPendingForUpdate` | `Eligible`, `IsBatch`, `FetchPending` |
| `attempts >= MAX_ATTEMPTS_BEFORE_DLQ` | `Target` |
| `kafkaTemplate.send(...).get(...)` and `markProcessed` | `Publish`, `PublishRefused`, `PublishFails` |
| commit of the relay's transaction | `Commit` |
| the database ends the session before the commit | `SessionLost`, `OrphanEnds` |

`mark[r]` is the uncommitted part of `status` and `attempts`: only `r` sees it until
`Commit`. A record the producer refuses (too large) is refused by the dead-letter topic
too; `Oversized` names those tickets. A topic is a bag of records, because each record is
keyed by its own ticket and nothing orders the records of two tickets. `SessionLost`
covers both a dead instance and one that has lost only its database session and is still
blocked in a send; `orphan` is that send. The refinement maps the outbox to
`OutboxContract`: accepted, delivered, dead-lettered and settled tickets.

### TriageStore, TriageConsumer, ReviewDesk, TriageSystem

| code | model |
|---|---|
| `start` | `Start` |
| `async for message in self.consumer` | `Fetch`, `FetchAtShutdown` |
| `is_processed` | `Check` |
| `TriageService.triage`: create, audit, risk decision, audit, enqueue | `StoreResult`, `AuditTriage`, `Decide`, `AuditRisk`, `Enqueue` |
| `mark_processed`, `consumer.commit()` | `MarkProcessed`, `Commit` |
| `except Exception`, the attempt counter | `CallFails`, `PoisonFails`, `CommitFails`, `Retry` |
| `_route_to_dlq` and the commit behind it | `GiveUp`, `GiveUpFails` |
| `stop` with its ten seconds | `Stop`, `StopTimesOut`, `FinishStop`, `StopBroken` |
| group coordinator, process death | `Assign`, `Revoke`, `Crash` |
| `HumanReviewService.decide` | `OpenReview`, `Resolve`, `ResolveTooLate`, `Feedback`, `AuditFeedback`, `Override`, `AuditReview` |
| `FeedbackService.create_for_ticket` | `OpenFeedback`, `Feedback`, `AuditFeedback` |
| a request ends between two writes | `Abort` |

`pc[w]` names the await the consumer task is at. `commit()` has no arguments in the code,
so `CommitPositions` commits the position of every partition the instance owns. The
prediction is nondeterministic: `flagged` may differ between two attempts at one message,
as it does with a language model behind it. `dead`, `lost` and `abandoned` are history
variables for messages given up, messages committed by `stop()` unhandled, and decisions
cut short; of `lost` the code itself keeps no trace. `contested` holds the messages fetched
while another instance had them in hand, which takes a rebalance: from then on two
instances write the same rows, and the one that has lost its partition goes on as if
nothing had happened. `Produce` sends any number of copies of a ticket's event: this is exactly what
`TicketOutbox` allows (`DuplicatesNeedFaults` bounds the copies, `SettledWasSent` says
there is one). `ConsumerStep` is the service without `Produce`.

### Platform and TicketPromise

`Platform` puts the relay in the place of `Produce`. The two services share nothing but
the topic, which is a log for the consumer and a count of records per ticket for the
relay: `Ingestion` is an instance of `TicketOutbox` whose `created` is counted in the log
(`Records`). `Submit`, `Relay` and `LoseSession` are the steps of ingestion, with
`TopicStep` saying what they may do to the log: what `Produce` does, within the same bound,
or nothing. `TriageStep` is any step of the consumers or the review desk.

`NoTicketIsDropped` says where an accepted ticket may be at any moment. `TicketPromise`
knows accepted, triaged, written-off and skipped tickets, the number of shutdowns, and
whether a consumer task has died. *Written off* is what somebody can see: a record in the
dead-letter topic, or the error `_route_to_dlq` logs. *Skipped* is what nobody can see: a
message that `stop()` committed unhandled. `Safety` says that only accepted tickets are
triaged, written off or skipped, that none of these is taken back, and that each skipped
ticket has a shutdown of its own; `Spec` adds that every accepted ticket Kafka takes is
triaged or written off in the end, or else skipped (`Kept`). The refinement mapping reads
them off the outbox rows (a row that exists), the `processed` messages
(`ProcessedIsComplete` says what such a row stands for), the dead-letter topic and `dead`,
and the history variable `lost`.

### ReplayRuns

| code | model |
|---|---|
| `create_run`: insert, audit | `CreateRun`, `AuditStarted` |
| `execute_run`: `get_by_id`, `update_status(RUNNING)` | `BeginExecute`, `SetRunning` |
| `_fetch_decisions_in_window` | `InWindow`, `FetchNothing`, `FetchRaises` |
| `update_status(COMPLETED, ...)`, audit | `Complete`, `AuditCompleted` |
| a request fails or dies between two statements | `Abort` |
| the triage service stores a decision, possibly with an earlier `created_at` | `Decide`, `Tick` |

Two parts of `execute_run` are unreachable and left out. The lookup of the challenger
always finds it: `challenger_model_id` is a foreign key and no statement deletes a model.
The loop that scores decisions again and stores samples never begins: with a decision in
the window, building the first `RiskDecision` raises `TypeError`
(`replay_service.py:152`, see below). `before` remembers the decisions in the window when
a run was first started, `hung` the runs that an execution left RUNNING.

### DecisionPolicy

| code | model |
|---|---|
| `FeatureExtractor.extract` | `Features`, `Receive` |
| `evaluate_tier0`, `evaluate`, `score_to_decision` | `Tier0Rules`, `Tier0`, `RiskDecision`, `ScoreOutcome` |
| `evaluate_tree`, `validate_decision_path`, `_path_confidence` | `Walk`, `LeafCategory`, `LeafTeam`, `ValidPath`, `PathConfidence` |
| priority, escalation, combined confidence, team | `PriorityConfidence`, `Escalation`, `Scores`, `Route` |
| `_thresholds_for`, `requires_review` | `Segment`, `SegmentReview`, `RequiresReview` |
| `_derive_segment`, `get_for_segment`, `_fuse_score`, `decide` | `Segment`, `RowFor`, `RiskScore`, `Decide` |
| `TriageService.triage` | `PredictByModel` or `PredictByRules`, `Store`, `Decide`, `Enqueue` |
| `PUT /thresholds` | `Upsert`, at any time |

No ticket's decision depends on another's, so a behaviour follows one ticket. Confidences,
scores and thresholds are whole hundredths; `Scores` gives the hundredths a rounded
floating-point sum may be. Any tier the code does not know behaves as STANDARD, and the
paths a model reports are not kept: nothing but the log shows them. The triage
consumer's model allows every outcome of this one; here the failures of single writes,
which are modelled there, are left out.

### ModelGovernance

A request is at most seven statements; `pc[o]` is the next one. `Register`,
`BeginPromote` (read and check), `FindVictim`, `RetireVictim`, `AuditVictim`, `Promote`,
`AuditDone`, `Retire`; `Abort` ends a request between two of them. `reached` is the
history of each model, `unlogged` what was written and never logged, `overlapped`
says that some request has begun while another was under way, and `vacated` holds the
primaries that were retired without a successor since the last promotion to PRIMARY, by an
operator or by a promotion that was cut off.

### LlmGateway

One consumer task makes one call at a time. `Send` and `Refuse` are the two outcomes of
`_check_circuit`; `Understood`, `Failed` and `Garbled` those of the answer. `age` is the
time since the circuit opened in ticks, capped at the recovery time, `failures` is capped
at the threshold: neither is compared with anything beyond. A faulty provider may answer
anything. `Activate`, `Deactivate` and `AuditSwitch` are the kill switch endpoints, each
two statements, of which the second may raise (`AuditSwitchFails`); `crossed` names the
requests that were under way when another began, failed or were cut off, since the last
request that ran by itself.

## 3. What TLC checks

Every run also checks that the assumptions on the constants hold. `CHECK_DEADLOCK FALSE`
is set throughout: all models are bounded by counters and stop when these are used up.

| run | instance | properties |
|---|---|---|
| `outbox` | 2 relays, 3 tickets (one oversized), 1 key, 2 stamps, batches of 2, limit 1, 1 fault | `TypeOK`, `ExclusiveBatches`, `SettledWasSent`, `DuplicatesNeedFaults`, `DlqIsLastResort`, `OneEventPerKey`, `SendableEventsSettle`, `SettledIsFinal`, `ContractSpec` |
| `triage_review` | 1 consumer, 2 reviewers, 1 ticket, 2 copies of its event, 2 faults, 1 request cut short | `TypeOK`, `FlaggedIsTracked`, `OneDeciderPerReview`, `DecisionsLeaveTrail`, `OverrideIsByReviewer`, `TriageIsAudited`, `ProcessedOnce` |
| `triage_group` | 2 consumers, 2 partitions, 2 messages, 2 faults among rebalances and failed commits, 1 shutdown | `CommittedIsAccounted`, `ProcessedIsComplete`, `OffsetsAdvance` |
| `triage_live` | 2 consumers, 1 partition, a poison and a good ticket, 1 fault, 1 shutdown | `MessagesSettle` |
| `platform_live` | 1 relay, 1 consumer, a poison and a good ticket, 1 relay fault, 1 consumer fault (failing call, failing commit, rebalance or crash), 1 shutdown, no reviewer | `NoTicketIsDropped`, `PromiseSpec` |
| `decision_policy` | strict mode, 2 kinds of Tier-0 signals, every segment, model confidences 0.37, 0.45, 1.00 and NaN, 1 change of a threshold row | `TypeOK`, `Tier0GoesToPeople`, `OverridesGoToPeople`, `DoubtNeverReassures`, `RulesFollowTheTree` |
| `governance` | 2 operators, 2 models, 2 promotions to PRIMARY, 1 cut-off request | `TypeOK`, `OnePrimaryUnlessOverlapped`, `NoStageSkipped`, `StagesAreAudited`, `LegalUnlessOverlapped`, `PrimaryIsNotLost` |
| `gateway` | threshold 5 as in the code, recovery of 3 ticks, 2 outages, 1 restart, 3 uses of the switch by 2 operators | `TypeOK`, `BreakerAgrees`, `OneProbeUnlessEscaped`, `SwitchIsLogged`, `RecoveredIsUsed` |
| `replay` | 2 runs, 2 callers, 2 moments of time, 1 request cut off | `RunningIsExplained`, `SummaryMissesNothing` |

`ProcessedIsComplete` says that a `processed_events` row comes last: with it, the result,
the risk decision and both audit entries are in the tables, and the review if the result
asks for one. The review has three exceptions, each of which occurs within the bounds of
`triage_group`: another message of the ticket is still to be handled (its result is stored,
its review not yet queued); one was given up or cut off half-way; or two instances had a
message in hand at once. In the last case one instance stores an unflagged result, marks
the message and commits, and the other, which has lost the partition, stores a flagged one
and is stopped before it queues the review.

*Why the bounds are enough.* Two relays, consumers or operators are the least that
interfere, and no guard counts them. Batches of two with three tickets give full, partial
and skipped batches; stamps may be equal. The dead-letter limit of one makes both targets
reachable: refused sends are no faults and count, so the oversized ticket gets to the
limit; the code's value, and any number of faults, are covered by the proofs of every
safety property of this run. Two faults of the consumer let one failure follow another (a
give-up after two failed attempts, with `MAX_ATTEMPTS` at two instead of three: the
counter is only compared). Two copies of an event are the least that differ
from one; two partitions the least for which committing positions and committing
messages differ.

`platform_live` has one fault on each side of the topic, so one may follow the other; its
`MaxMessages` of 3 is two tickets and one duplicate, all that one relay fault can make, and
restricts nothing. Second instances are in `outbox` and `triage_live`; with them the
composition is beyond TLC's time here, as it is with a reviewer, who changes nothing the
promise speaks of: `triage_review` has the desk, and the proofs about `Platform` have any
number of all of them. In `gateway` the third use of the switch is the one
that runs by itself after two have crossed. In `replay` two moments put a decision on
either end of a window, inside it, or outside, and give windows that end before they begin;
two callers are the least that overlap.

The policy's bounds leave out nothing that its rules distinguish but other numbers:
0.37 lies between the review thresholds of new accounts and of PREMIUM, 0.45 on one; one
of the two signals blocks and one asks for a review, and each kind raises another
escalation confidence; one change makes a row stricter or milder than the matrix.

*Fairness.* Safety runs assume none. `TicketOutbox`: `@Scheduled(fixedDelay)` calls
`relay` again and again on each instance, so an enabled relay step is taken; faults are
finitely many and no client is forced to create a ticket. `TriageConsumer`: the event loop
resumes an await that is ready (weak fairness of `Start`, `Handle` and `Stopping`, and of
the fetch from each assigned partition), and the coordinator assigns a partition nobody
owns; messages, faults and shutdowns need not happen. `Platform` assumes both: its
promise needs the relay and the consumer to go on, and nothing else. `LlmGateway`: tickets keep arriving,
time passes, and a call ends because httpx gives up at the latest; the provider need not
recover, and `RecoveredIsUsed` speaks only of one that does.

### Where the code and its documentation differ

Three runs check a sentence of the documentation and TLC shows a behaviour of the code that
contradicts it.

| run | sentence | behaviour |
|---|---|---|
| `override_undone` | "applies override to `triage_results`" (`README.md:263`) | a second copy of the event overwrites the override with a prediction |
| `two_primaries` | "retire any existing primary" (`model_governance_service.py:66`) | two promotions look for the primary before either has promoted |
| `replay_stuck` | "Loads historical risk decisions in the window and re-scores them using the challenger model's thresholds. Stores aggregate comparison in result_summary" (`replay_service.py:70`) | a decision in the window raises `TypeError`, which nothing catches, and the run stays RUNNING without a summary |

Others follow from the same models without a run of their own:

- "New accounts get the tightest thresholds (highest review rate)" (`confidence.py:47`):
  a review needs a confidence *below* the threshold, and no threshold is lower than
  theirs; with 0.37 an old account is reviewed and a new one is not (`RequiresReview`).
- "true = kill switch ON (provider disabled)" (`V6:48`): the client never asks the switch
  (`Send` has no guard on it).
- A replay run that has been completed may be executed again and be RUNNING for ever after
  (`hung` in `RunningIsExplained`).
- A payload the producer refuses for its size is refused for the dead-letter topic as
  well, and its row stays PENDING for ever (`TicketEventProducer.java:61`), although the
  relay "marks them PUBLISHED or routes to DLQ" (`OutboxEvent.java:17`).
- `stop()` cancels the handler, possibly after the result is stored, and commits its
  message (`kafka_consumer.py:60`), although "Triage completion writes an audit log"
  (`README.md:530`). `TriageIsAudited` names this exception (`CutOff`).
- The review matrix does not see the risk decision: a ticket decided REVIEW by its score
  or by rule R2 may be queued for nobody, although REVIEW is there "for human
  verification" (`policy_engine.py:44`; `triage_service.py:156`). `OverridesGoToPeople`
  says which rules are safe from this.
- A path that starts at node 3 passes `validate_decision_path`, whose comment says "Node 3
  can only appear after Node 2" (`triage_tree.py:286`).
- A confidence of NaN passes the validation and is clamped to 1.0
  (`openrouter_triage.py:266`).
- `stop()` drops the message that wakes the loop (`kafka_consumer.py:66`) and commits its
  offset (`:60`): the ticket is neither triaged nor in a table, an audit entry, a topic or
  the log, although a client was told it was accepted and a message is otherwise handled or
  logged as "DLQ" (`kafka_consumer.py:112`). A handler cancelled before its first write
  leaves as little. `NoTicketIsDropped` and `TicketPromise` call such tickets skipped
  (`SkippedTickets`) and bound them: one for each shutdown.
- A message given up after its result is stored leaves a ticket flagged for review with
  nothing queued (`kafka_consumer.py:100`; `README.md:262` "Enqueues low-confidence or
  high-risk tickets"). `FlaggedIsTracked` names this exception (`CutOff`).
- `decide` resolves the review before it applies the override; a request that fails in
  between cannot be repeated, since the review is no longer PENDING
  (`human_review_service.py:54`). `FlaggedIsTracked` and `DecisionsLeaveTrail` name it
  (`abandoned`).
- The deduplication key is partition and offset: it recognises a redelivered message, not
  a second copy of an event (`kafka_consumer.py:77`). `ProcessedOnce` is about messages.
- A model retired between the check and the update of a promotion comes back from RETIRED
  (`model_governance_service.py:78`), hence `~overlapped` in `LegalUnlessOverlapped`.
- In HALF_OPEN every call goes out, not "one probe" (`openrouter_triage.py:85`), and
  `ValueError` and `IndexError` escape the client although it promises `None` on any
  failure (`openrouter_triage.py:105`, `:190`). This is `escaped` in
  `OneProbeUnlessEscaped`: without an escape the code does send one probe only.
- Rows that can never be sent are the oldest; once they fill a batch, nothing else is
  fetched (`OutboxEventRepository.java:16`). `SendableEventsSettle` assumes fewer of them
  than a batch holds.
- With two consumers, an instance that has lost its partition may store a flagged result
  after the other has recorded the message as processed, and end before it queues the
  review (`triage_service.py:121`, `:164`), so that nothing is queued for a flagged ticket.
  `ProcessedIsComplete` and `FlaggedIsTracked` name it (`Contested`). In the same way a
  message already recorded may be triaged again (`ProcessedOnce`).

## 4. What is proved

The theorems hold for all values of the constants that satisfy the named assumptions
(`OutboxConstants`, `ConsumerConstants`, `PolicyConstants`, `GovernanceConstants`,
`GatewayConstants`, `ReplayConstants`), which say no more than that sets of tickets, relays
and partitions are finite, limits and thresholds are numbers in their ranges, and batch
size, number of attempts, threshold and recovery time are positive. No theorem assumes a
number of instances: what two of them may do to one message is said by `contested`.

**`TicketOutboxProofs`.** `TypeCorrect`; `BatchesAreExclusive`; `NothingIsLost`;
`SettlementIsFinal`; `DeadLettersAreLastResort`; `KeysSendOnce`; `DuplicatesAreFaults`;
`OutboxKeepsContract`.

- *Locks.* `ExclusiveBatches` alone is inductive only with the fact that a row in `todo`
  has no mark yet (`LockInv`). It makes `Commit` touch rows that are PENDING, whence
  finality.
- *Sent before settled.* A status in the table was a mark first, so the invariant speaks of
  marks as well: a mark PUBLISHED or DLQ means that the topic has the record (`SentInv`).
- *Dead letters.* The limit was checked when the send began, so it must still hold for a
  send in flight that outlives its session (`LimitInv`); `attempts` never decreases.
- *Keys.* A ticket with records was created, and keys of created tickets differ (`KeyInv`).
- *Duplicates.* The count of records alone is not inductive. `DupInv` holds records
  against faults: besides the one record a ticket has earned by a recorded success, each
  record written, and each send still under way behind a lost session, is paid for by a
  fault of its own.
- *Refinement.* Every step maps to `Accept`, `Deliver`, `DeadLetter`, `Settle` or a
  stutter; `Commit` maps to `Settle` of the batch because of `SentInv`.

**`ModelGovernanceProofs`.** `TypeCorrect`; `ProgressionIsComplete`; `RegistryIsAudited`;
`SerialKeepsOnePrimary`; `SerialMovesAreLegal`; `PrimaryIsKept`.

- *Progression.* `stage` changes under a request's feet, so nothing can be said of it;
  `reached` only grows. `PathInv`: a request for a stage holds a model that has reached
  the stage before. This is why `NoStageSkipped` survives any interleaving.
- *Log.* `Explained`: what was reached is in the log, about to be written, or in
  `unlogged`.
- *Serial requests.* `SerialInv`: while nothing has overlapped, the one request under way
  knows the stage of its model, and from `promote` on no other model is PRIMARY. A request
  that is cut off leaves no primary or one, never two.
- *The primary is kept.* `PrimaryIsNotLost` alone is not inductive: a request that
  holds a victim must be known to promote to PRIMARY (`VictimInv`), so that its last update
  ends the gap, and a request that runs alone to touch no other primary (`SerialInv`).

**`LlmGatewayProofs`.** `GatewayTypeCorrect`; `BreakerIsConsistent`; `ProbesAreSingle`;
`LogTellsSwitch`. `ProbeInv` counts the requests since the circuit opened: as long as no exception has
escaped, OPEN means none, and HALF_OPEN means one whose answer is still awaited. `SwitchInv` says
what holds while a request has written the row and not yet the log: an uncrossed request
is alone, and its entry will agree with the row.

**`ReplayRunsProofs`.** `TypeCorrect`; `RunsAreExplained`; `SummariesAreWhole`.

- *Status.* `RunningIsExplained` is inductive given the types: the step that takes a request
  out of its execution either sets the status or puts the run into `hung`.
- *Summaries.* Decisions never leave a window, so what was in it at the first start is there
  at every later reading. `SummaryInv`: a run that is about to be completed was started, and
  what its window held at the start was nothing.

**`TriageConsumerProofs`**, about the specification of `TriageSystem`, so with any number of
review requests next to the consumers. `TypeCorrect`; `CommittedAccounted`;
`OffsetsNeverFall`; `TriagedOnce`.

- *Types.* `TypeOK` needs two bounds: a log is no longer than the bound on messages
  (`TopicInv`: positions and offsets are numbers up to it), and a task that may still fail
  has failed less often than the limit (`AttemptInv`).
- *Offsets.* Commits are of positions, so the invariant is about positions (`OffsetInv`): a
  partition has one owner at most; its position is within the log and not behind the
  committed offset; and everything between that offset and the owner's position is accounted
  for or in the owner's hand (`OwnerAnswers`). A task that is stopping is left out of the
  last part, because what it will commit unhandled enters `lost` with that commit. A
  handler about to commit has a message in hand that is processed, one about to give up is
  put into `dead` by the same step. `OffsetsNeverFall` needs the middle part: only an owner's
  position is committed.
- *Writes in order.* Each await relies on the writes before it (`WritesInOrder`), whoever
  else writes in between: the log, the rows and the history only grow (`LogGrows`,
  `RowsGrow`, `HistoryGrows`), and a result is overwritten, never removed. A `processed` row
  therefore has the other rows with it (`Complete`).
- *Processed once.* `HandInv` is about messages in hand: everything before such a message in
  its partition is accounted for (`InOrder`), a message in two hands is in `contested`
  (`SharedIsContested`), and one between the check and its `processed_events` row is not in
  `processed` unless it is in `contested` (`Unprocessed`): only another instance with the
  same message could have put it there (`RecordedInHand`).
- *Shutdowns.* `StopsInv` pays for what `stop()` skips. A task that is ending leaves one
  message at the most unanswered (`OneUnanswered`), because a position moves by one and only
  when nothing is in hand; the messages in `lost`, together with the tasks that are ending,
  are no more than the shutdowns (`MessageParts`, `EndingMoves`). Hence `OneIsLost`: the
  commit of `stop()` loses one message or none.

**`TriageSystemProofs`.** `OneDecider`; `OverridesAreDecisions`; `DecisionsAreRecorded`;
`TriageAudited`; `FlaggedTracked`; `ProcessedComplete`.

- *Reviews.* A resolved review is never written again (`ReviewsGrow`), so a request past its
  conditional update can be known by the row: `RequestInv` says that the row is resolved and
  names the request's reviewer, that the feedback row and its audit entry are there once the
  request has got so far, and that the ticket has a result. Two requests past the update of
  one review are then one. `DeskInv` adds that overrides come from such rows.
- *Audit.* `Owes`: a message of the ticket is neither processed nor given up nor cut off. A
  result without its entry belongs to a ticket that owes, or was given up or cut off
  (`AuditedInv`); `CommittedIsAccounted` turns that into a message still to be handled.
- *Flagged tickets.* `FlaggedIsTracked` alone is not inductive: when a task skips the queue,
  the result in the table must not be flagged, and when it records the message, the ticket
  must be tracked (`FlagInv`). Another instance may overwrite the result between the two. It
  then has a message of the same ticket in hand, and two messages of a ticket are in one
  partition: either they are the same, which makes the ticket contested, or the earlier of
  them is accounted for and so was given up, cut off or contested (`TwoAtWork`).
- *Processed is complete.* What `FlaggedIsTracked` allows a flagged ticket without a pending
  review, a decision under way or abandoned, was about a row of the queue (`RequestInv`,
  `AbandonedInv`): the review was queued. What is left is the three exceptions.

**`DecisionPolicyProofs`.** `TypeCorrect`; `Tier0ReachesPeople`; `OverridesReachPeople`;
`RulesStayInTheTree`; `DoubtIsSafe`; for every set of signals, hint, confidence, score and
threshold rows. The invariant (`PolicyInv`) remembers of each step what the next ones rely
on: the flag is what the review matrix makes of the prediction, and a ticket with a signal
is predicted by the rules, with High escalation, for the Escalations team
(`PredictionInv`); such a ticket is not approved, and a rule that reviews or blocks it,
other than R2, means a signal or an Urgent prediction (`DecisionInv`); what is queued has
the signal as its reason (`QueueInv`). What the rules do is in lemmas about the operators:
every signal escalates (`SignalsEscalate`), the walk passes the check on paths
(`WalkIsValid`), and reviews, scores and outcomes are monotone in confidence
(`DoubtIsReviewed`, `DoubtRaisesScore`, `OutcomeIsMonotone`).

**`PlatformProofs`.** `PlatformIsTriageSystem`; `PlatformIsOutbox`; `TicketsAreKept`;
`PromiseIsSafe`.

- *The parts.* A step of the platform is a step of the triage service or leaves it alone, and
  the same of the outbox. By the first, every theorem about `TriageSystem` holds behind the
  relay.
- *Accepted first.* `AcceptedInv`: rows a relay holds, has marked, or whose send is under way
  exist; and every message in the log is of an accepted ticket. The last part needs the
  count: a step that adds a message of a ticket to the log adds one to that ticket's records
  and no other's (`ProduceAddsRecord`), and the relay's own step says whose record it sent.
- *Nothing is dropped.* What a row or a mark calls PUBLISHED or DLQ is in that topic
  (`SentInv`), and then `CommittedIsAccounted` takes over: the message is ahead of the
  committed offset, processed, given up or cut off.
- *Skipped tickets.* They are no more than the messages in `lost`, and these no more than the
  shutdowns (`StopsInv`).
- *The promise.* With these, each step is an `Accept`, a `Triage`, a `WriteOff`, a `Shutdown`,
  a `Skip`, a `Recover` or a stutter. The step that ends a shutdown needs `OneIsLost` to be
  one `Skip`, and `StopsInv` to find a shutdown that has not yet skipped a ticket.

**Only model-checked.** Liveness (`SendableEventsSettle`, `MessagesSettle`,
`RecoveredIsUsed`, and `Kept`, the last part of `PromiseSpec`): TLAPS has no rules for
fairness here. Every other property of a passing run is a theorem (`PromiseSpec` by its
safety part).
`TypeOK` of `ReplayRuns` is proved and not checked by a run.

## 5. What is not modelled, and why

- *Replay runs:* the loop over the decisions and its samples, which no execution reaches.
- *Model monitoring:* its writers are never called; the rest is statistics.
- *Statements PostgreSQL may refuse.* `promote` and `update_status` use one parameter both
  as the value of a varchar column and in comparisons with literals; whether the server can
  settle on one type for it depends on its rules for parameters. The models take every
  statement of the code as accepted.
- *HTTP layer, configuration, pool:* conversion of requests and answers; no state.
- *Start scripts, schema copies:* deployment. What they do to a running service appears as
  `SessionLost`, `Crash` and `Stop`.
- *Kafka and PostgreSQL themselves* are modelled as the code uses them: durable, with
  conditional updates and row locks as documented. Loss of committed data is left out.
- *Errors in metadata* (`int()` of an age that is no number) are the poison tickets of
  `TriageConsumer`; `DecisionPolicy` sees metadata that can be read.
- *Contents* of tickets, prompts, answers and audit entries.
- *httpx's time limit* bounds each network operation and not a call; a call of any
  duration is allowed.

## 6. Plan

1. *Done:* outbox with contract and proofs; consumer, desk and their composition; decision
   policy; governance and gateway with proofs.
2. *Done:* replay runs with proofs; relay and consumer composed through the topic, with the
   end-to-end promise; the registry's primary and the log of the kill switch.
3. *Done:* proofs for the consumer, the desk and their composition, the decision policy, and
   the two services together.
4. *Done:* several instances at one message (`contested`) in every theorem about the
   consumers; the tickets a shutdown skips, named and bounded in the promise.
5. *Next:* the liveness of the promise with a second instance and a reviewer, which needs a
   smaller composition than `Platform`; a model of the snapshot a reviewer decides on while
   its ticket is triaged again.
