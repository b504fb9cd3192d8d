------------------------ MODULE TriageConsumerProofs -------------------------
(***************************************************************************)
(* The consumer group in the triage service, next to any number of review  *)
(* requests: types, offsets, and what a committed or a processed message   *)
(* stands for, for every number of instances, partitions, faults and       *)
(* shutdowns.  The theorems are about the specification of TriageSystem.   *)
(*                                                                         *)
(* The invariants come in layers: types, then which messages an owner has  *)
(* answered for, then what each await can rely on in the tables.           *)
(***************************************************************************)
EXTENDS TriageSystem, FiniteSetTheorems, TLAPS

\* The topic never outgrows its bound.
TopicInv == \A p \in Partitions : Len(log[p]) <= MaxMessages

\* What can still fail has not failed too often.
AttemptInv ==
    \A w \in Workers : pc[w] \in Handling \ {"giveUp"} => attempt[w] < MaxAttempts

TypeInv == TypeOK /\ TopicInv /\ AttemptInv

LEMMA MessagesFinite == IsFiniteSet(Messages)
<1>1. MaxMessages \in Int /\ IsFiniteSet(Partitions)
    BY ConsumerConstants DEF ConsumerConstants
<1>2. IsFiniteSet(1 .. MaxMessages)
    BY <1>1, FS_Interval
<1>3. IsFiniteSet(Partitions \X (1 .. MaxMessages))
    BY <1>1, <1>2, FS_Product
<1> QED
    BY <1>3, FS_Subset DEF Messages

\* A handler has one message in hand.
LEMMA OneInHand ==
    ASSUME TypeOK, NEW w \in Workers, pc[w] \in Handling
    PROVE  \E m \in Messages : inHand[w] = {m}
<1>1. inHand[w] \subseteq Messages /\ Cardinality(inHand[w]) = 1
    BY DEF TypeOK, ConsumerTypeOK
<1>2. IsFiniteSet(inHand[w])
    BY <1>1, MessagesFinite, FS_Subset
<1>3. PICK m : inHand[w] = {m}
    BY <1>1, <1>2, FS_Singleton
<1> QED
    BY <1>1, <1>3

LEMMA TicketType ==
    ASSUME TypeOK, NEW m \in Messages
    PROVE  TicketOf(m) \in Tickets
<1>1. m[1] \in Partitions /\ m[2] \in 1 .. Len(log[m[1]])
    BY ConsumerConstants DEF ConsumerConstants, TypeOK, ConsumerTypeOK, Messages
<1>2. log[m[1]] \in Seq(Tickets)
    BY <1>1 DEF TypeOK, ConsumerTypeOK
<1> QED
    BY <1>1, <1>2 DEF TicketOf

LEMMA InitType == Init => TypeInv
<1> SUFFICES ASSUME Init PROVE TypeInv
    OBVIOUS
<1>1. StoreTypeOK
    BY FS_EmptySet DEF Init, StoreInit, StoreTypeOK
<1>2. ConsumerTypeOK
    BY ConsumerConstants DEF ConsumerConstants, Init, ConsumerInit, ConsumerTypeOK, Handling, Calls, Triaging
<1>3. DeskTypeOK
    BY DEF Init, DeskInit, DeskTypeOK
<1>4. TopicInv
    BY ConsumerConstants DEF ConsumerConstants, Init, ConsumerInit, TopicInv
<1>5. AttemptInv
    BY DEF Init, ConsumerInit, AttemptInv, Handling, Calls, Triaging
<1> QED
    BY <1>1, <1>2, <1>3, <1>4, <1>5 DEF TypeInv, TypeOK

-----------------------------------------------------------------------------
\* What the statements do to the types of the tables.

LEMMA ResultType ==
    ASSUME StoreTypeOK, NEW t \in Tickets, NEW row \in Result,
           result' = [result EXCEPT ![t] = {row}],
           UNCHANGED <<reviews, audit, decided, corrected, processed>>
    PROVE  StoreTypeOK'
<1>1. result' \in [Tickets -> SUBSET Result]
    BY DEF StoreTypeOK
<1>2. Cardinality({row}) = 1
    BY FS_Singleton
<1>3. \A u \in Tickets : Cardinality(result'[u]) <= 1
    BY <1>2 DEF StoreTypeOK
<1> QED
    BY <1>1, <1>3 DEF StoreTypeOK

LEMMA AuditType ==
    ASSUME StoreTypeOK, NEW t \in Tickets, NEW action \in AuditActions,
           WriteAudit(t, action),
           UNCHANGED <<result, reviews, decided, corrected, processed>>
    PROVE  StoreTypeOK'
    BY DEF StoreTypeOK, WriteAudit

LEMMA EnqueueType ==
    ASSUME StoreTypeOK, NEW t \in Tickets, EnqueueReview(t),
           UNCHANGED <<result, audit, decided, corrected, processed>>
    PROVE  /\ StoreTypeOK'
           /\ Len(reviews') \in Nat /\ Len(reviews') >= Len(reviews)
<1>1. [ticket |-> t, status |-> "PENDING", reviewer |-> "NOBODY"] \in Review
    BY DEF Review
<1>2. reviews' \in Seq(Review) /\ Len(reviews') \in Nat /\ Len(reviews') >= Len(reviews)
    BY <1>1 DEF StoreTypeOK, EnqueueReview
<1> QED
    BY <1>2 DEF StoreTypeOK

LEMMA ResolveType ==
    ASSUME StoreTypeOK, NEW id, NEW r \in Reviewers, ResolveReview(id, r),
           UNCHANGED <<result, audit, decided, corrected, processed>>
    PROVE  StoreTypeOK' /\ Len(reviews') = Len(reviews)
<1>1. id \in 1 .. Len(reviews) /\ reviews[id] \in Review
    BY DEF StoreTypeOK, ResolveReview, PendingReviews
<1>2. [reviews[id] EXCEPT !.status = "RESOLVED", !.reviewer = r] \in Review
    BY <1>1 DEF Review
<1>3. reviews' = [reviews EXCEPT ![id] = [reviews[id] EXCEPT !.status = "RESOLVED",
                                                           !.reviewer = r]]
    BY <1>1 DEF StoreTypeOK, ResolveReview
<1>4. reviews' \in Seq(Review) /\ Len(reviews') = Len(reviews)
    BY <1>1, <1>2, <1>3 DEF StoreTypeOK
<1> QED
    BY <1>4 DEF StoreTypeOK

LEMMA DeskTypeStays ==
    ASSUME StoreTypeOK, DeskTypeOK, UNCHANGED review,
           Len(reviews') \in Nat, Len(reviews') >= Len(reviews)
    PROVE  DeskTypeOK'
<1>1. 0 .. Len(reviews) \subseteq 0 .. Len(reviews')
    BY DEF StoreTypeOK
<1> QED
    BY <1>1 DEF DeskTypeOK, review

-----------------------------------------------------------------------------
\* What the parts of an action do to the types of the consumer.

LEMMA ConsumerTypeStays ==
    ASSUME ConsumerTypeOK, UNCHANGED consumer
    PROVE  ConsumerTypeOK'
    BY DEF ConsumerTypeOK, consumer, topic, group, task, history, Messages

LEMMA AtType ==
    ASSUME ConsumerTypeOK, NEW w \in Workers, NEW here \in Handling, NEW next \in Handling,
           At(w, here, next), toReview' \in [Workers -> BOOLEAN]
    PROVE  ConsumerTypeOK'
<1>1. pc' \in [Workers -> {"down", "idle", "stopping", "broken"} \cup Handling]
    BY DEF ConsumerTypeOK, At
<1>2. \A v \in Workers : pc'[v] \in Handling => pc[v] \in Handling
    BY DEF ConsumerTypeOK, At
<1> QED
    BY <1>1, <1>2 DEF ConsumerTypeOK, At, topic, group, history, Messages

LEMMA RetryType ==
    ASSUME ConsumerTypeOK, NEW w \in Workers, pc[w] \in Handling,
           attempt[w] < MaxAttempts, Retry(w)
    PROVE  ConsumerTypeOK'
<1>1. pc' \in [Workers -> {"down", "idle", "stopping", "broken"} \cup Handling]
    BY DEF ConsumerTypeOK, Retry, Handling, Calls
<1>2. \A v \in Workers : pc'[v] \in Handling => pc[v] \in Handling
    BY DEF ConsumerTypeOK, Retry
<1>3. attempt' \in [Workers -> 0 .. MaxAttempts]
    BY ConsumerConstants DEF ConsumerConstants, ConsumerTypeOK, Retry
<1> QED
    BY <1>1, <1>2, <1>3 DEF ConsumerTypeOK, Retry, topic, group, history, Messages

LEMMA CommitType ==
    ASSUME ConsumerTypeOK, NEW w \in Workers, CommitPositions(w)
    PROVE  committed' \in [Partitions -> 0 .. MaxMessages]
    BY DEF ConsumerTypeOK, CommitPositions

LEMMA LeaveType ==
    ASSUME ConsumerTypeOK, NEW w \in Workers, Leave(w),
           committed' \in [Partitions -> 0 .. MaxMessages],
           dead' \subseteq Messages, lost' \subseteq Messages, contested' \subseteq Messages
    PROVE  ConsumerTypeOK'
<1>1. pc' \in [Workers -> {"down", "idle", "stopping", "broken"} \cup Handling]
    BY DEF ConsumerTypeOK, Leave
<1>2. inHand' \in [Workers -> SUBSET Messages]
    BY DEF ConsumerTypeOK, Leave
<1>3. \A v \in Workers : pc'[v] \in Handling => Cardinality(inHand'[v]) = 1
    BY DEF ConsumerTypeOK, Leave, Handling, Calls, Triaging
<1>4. owner' \in [Partitions -> SUBSET Workers]
    BY DEF ConsumerTypeOK, Leave
<1> QED
    BY <1>1, <1>2, <1>3, <1>4 DEF ConsumerTypeOK, Leave, Messages

LEMMA FetchedType ==
    ASSUME TypeInv, NEW w \in Workers, NEW p \in Partitions, Fetched(w, p)
    PROVE  /\ position' \in [Workers -> [Partitions -> 0 .. MaxMessages]]
           /\ Ahead(w, p) \in Messages
<1>1. position[w][p] \in 0 .. MaxMessages /\ Len(log[p]) \in Nat /\ Len(log[p]) <= MaxMessages
    BY DEF TypeInv, TypeOK, ConsumerTypeOK, TopicInv
<1>2. position[w][p] + 1 \in 1 .. MaxMessages
    BY <1>1, ConsumerConstants DEF ConsumerConstants, Fetched
<1> QED
    BY <1>1, <1>2 DEF TypeInv, TypeOK, ConsumerTypeOK, Fetched, Ahead, Messages

\* A partition that is full makes the topic full.
LEMMA ProduceFits ==
    ASSUME TypeInv, Cardinality(Messages) < MaxMessages, NEW p \in Partitions
    PROVE  Len(log[p]) < MaxMessages
<1>1. SUFFICES ASSUME Len(log[p]) = MaxMessages PROVE FALSE
    BY ConsumerConstants DEF ConsumerConstants, TypeInv, TypeOK, ConsumerTypeOK, TopicInv
<1> DEFINE full == {p} \X (1 .. MaxMessages)
<1>2. IsFiniteSet(1 .. MaxMessages) /\ Cardinality(1 .. MaxMessages) = MaxMessages
    BY FS_Interval, ConsumerConstants DEF ConsumerConstants
<1>3. Cardinality(full) = MaxMessages
  <2>1. IsFiniteSet({p}) /\ Cardinality({p}) = 1
      BY FS_Singleton
  <2>2. Cardinality(full) = 1 * MaxMessages
      BY <1>2, <2>1, FS_Product
  <2> QED
      BY <2>2, ConsumerConstants DEF ConsumerConstants
<1>4. full \subseteq Messages
    BY <1>1 DEF Messages
<1>5. Cardinality(full) <= Cardinality(Messages) /\ Cardinality(Messages) \in Nat
    BY <1>4, MessagesFinite, FS_Subset, FS_CardinalityType
<1> QED
    BY <1>3, <1>5, ConsumerConstants DEF ConsumerConstants

\* The log only grows, and a message keeps its ticket.
LEMMA ProduceType ==
    ASSUME TypeInv, NEW t \in Tickets, Produce(t)
    PROVE  /\ log' \in [Partitions -> Seq(Tickets)] /\ TopicInv'
           /\ \A p \in Partitions : Len(log'[p]) >= Len(log[p])
           /\ Messages \subseteq Messages'
           /\ \A m \in Messages : TicketOf(m)' = TicketOf(m)
<1> DEFINE q == PartitionOf[t]
<1>1. q \in Partitions /\ \A p \in Partitions : log[p] \in Seq(Tickets)
    BY ConsumerConstants DEF ConsumerConstants, TypeInv, TypeOK, ConsumerTypeOK
<1>2. log' = [log EXCEPT ![q] = Append(log[q], t)] /\ log \in [Partitions -> Seq(Tickets)]
    BY DEF Produce, TypeInv, TypeOK, ConsumerTypeOK
<1>3. Len(log[q]) < MaxMessages
    BY <1>1, ProduceFits DEF Produce
<1> HIDE DEF q
<1>4. log' \in [Partitions -> Seq(Tickets)]
    BY <1>1, <1>2
<1>5. \A p \in Partitions : /\ Len(log'[p]) >= Len(log[p])
                            /\ \A o \in 1 .. Len(log[p]) : log'[p][o] = log[p][o]
    BY <1>1, <1>2
<1>6. TopicInv'
    BY <1>1, <1>2, <1>3, ConsumerConstants
       DEF ConsumerConstants, TypeInv, TopicInv
<1>7. \A m \in Messages : m \in Messages' /\ TicketOf(m)' = TicketOf(m)
  <2> SUFFICES ASSUME NEW m \in Messages PROVE m \in Messages' /\ TicketOf(m)' = TicketOf(m)
      OBVIOUS
  <2>1. m[1] \in Partitions /\ m[2] \in 1 .. MaxMessages /\ m[2] <= Len(log[m[1]])
      BY DEF Messages
  <2>2. Len(log[m[1]]) \in Nat /\ Len(log'[m[1]]) \in Nat /\ m[2] \in Nat
      BY <2>1, <1>1, <1>4, ConsumerConstants DEF ConsumerConstants
  <2>3. m[2] \in 1 .. Len(log[m[1]]) /\ m[2] <= Len(log'[m[1]])
      BY <2>1, <2>2, <1>5
  <2> QED
      BY <2>1, <2>3, <1>5 DEF Messages, TicketOf
<1> QED
    BY <1>4, <1>5, <1>6, <1>7

-----------------------------------------------------------------------------
\* Every step of the service keeps the types; first those of the consumer.

LEMMA TypeOfGroup ==
    ASSUME TypeInv, UNCHANGED review, NEW p \in Partitions,
           \/ Revoke(p)
           \/ \E w \in Workers : Assign(w, p) \/ Fetch(w, p) \/ FetchAtShutdown(w, p)
    PROVE  TypeInv'
<1> USE DEF TypeInv, TypeOK
<1>1. CASE Revoke(p)
  <2>1. ConsumerTypeOK'
      BY <1>1 DEF Revoke, ConsumerTypeOK, topic, task, history, Messages
  <2> QED
      BY <1>1, <2>1 DEF Revoke, StoreTypeOK, store, DeskTypeOK, review, TopicInv,
                        AttemptInv, topic, task
<1>2. ASSUME NEW w \in Workers, Assign(w, p) PROVE TypeInv'
  <2>1. ConsumerTypeOK'
      BY <1>2 DEF Assign, ConsumerTypeOK, topic, task, history, Messages
  <2> QED
      BY <1>2, <2>1 DEF Assign, StoreTypeOK, store, DeskTypeOK, review, TopicInv,
                        AttemptInv, topic, task
<1>3. ASSUME NEW w \in Workers, Fetch(w, p) PROVE TypeInv'
  <2>1. /\ position' \in [Workers -> [Partitions -> 0 .. MaxMessages]]
        /\ Ahead(w, p) \in Messages
      BY <1>3, FetchedType DEF Fetch
  <2>2. inHand' \in [Workers -> SUBSET Messages]
      BY <1>3, <2>1 DEF Fetch, ConsumerTypeOK
  <2>3. Cardinality({Ahead(w, p)}) = 1
      BY FS_Singleton
  <2>4. \A v \in Workers : pc'[v] \in Handling => Cardinality(inHand'[v]) = 1
      BY <1>3, <2>3 DEF Fetch, ConsumerTypeOK
  <2>5. ConsumerTypeOK'
    <3>1. pc' \in [Workers -> {"down", "idle", "stopping", "broken"} \cup Handling]
        BY <1>3 DEF Fetch, ConsumerTypeOK, Handling, Calls
    <3>2. attempt' \in [Workers -> 0 .. MaxAttempts]
        BY <1>3, ConsumerConstants DEF ConsumerConstants, Fetch, ConsumerTypeOK
    <3>3. Messages' = Messages
        BY <1>3 DEF Fetch, topic, Messages
    <3>4. dead' \subseteq Messages /\ lost' \subseteq Messages /\ contested' \subseteq Messages
        BY <1>3, <2>1 DEF Fetch, ConsumerTypeOK
    <3> QED
        BY <1>3, <2>1, <2>2, <2>4, <3>1, <3>2, <3>3, <3>4
           DEF Fetch, ConsumerTypeOK, topic
  <2>6. AttemptInv'
      BY <1>3, ConsumerConstants
         DEF ConsumerConstants, Fetch, ConsumerTypeOK, AttemptInv
  <2> QED
      BY <1>3, <2>5, <2>6 DEF Fetch, StoreTypeOK, store, DeskTypeOK, review, TopicInv, topic
<1>4. ASSUME NEW w \in Workers, FetchAtShutdown(w, p) PROVE TypeInv'
  <2>1. position' \in [Workers -> [Partitions -> 0 .. MaxMessages]]
      BY <1>4, FetchedType DEF FetchAtShutdown
  <2>2. ConsumerTypeOK' /\ AttemptInv'
      BY <1>4, <2>1 DEF FetchAtShutdown, ConsumerTypeOK, topic, history, Messages,
                        Handling, Calls, Triaging, AttemptInv
  <2> QED
      BY <1>4, <2>2 DEF FetchAtShutdown, StoreTypeOK, store, DeskTypeOK, review,
                        TopicInv, topic
<1> QED
    BY <1>1, <1>2, <1>3, <1>4

\* The awaits of a message, as long as they succeed.
Progress(w) ==
    \/ Check(w) \/ StoreResult(w) \/ AuditTriage(w) \/ Decide(w) \/ AuditRisk(w)
    \/ Enqueue(w) \/ MarkProcessed(w)

LEMMA TypeOfProgress ==
    ASSUME TypeInv, UNCHANGED review, NEW w \in Workers, Progress(w)
    PROVE  TypeInv'
<1> USE DEF TypeInv, TypeOK
<1>1. PICK here \in Calls, next \in Handling : At(w, here, next) /\ next # "giveUp"
    BY DEF Progress, Check, StoreResult, AuditTriage, Decide, AuditRisk, Enqueue,
           MarkProcessed, Handling, Calls, Triaging
<1>2. PICK m \in Messages : inHand[w] = {m} /\ TicketOf(m) \in Tickets
    BY <1>1, OneInHand, TicketType DEF At, Handling
<1>3. toReview' \in [Workers -> BOOLEAN]
    BY DEF Progress, Check, StoreResult, AuditTriage, Decide, AuditRisk, Enqueue,
           MarkProcessed, ConsumerTypeOK
<1>4. ConsumerTypeOK'
    BY <1>1, <1>3, AtType DEF Handling
<1>5. AttemptInv' /\ TopicInv'
  <2>1. pc[w] \in Handling \ {"giveUp"} /\ UNCHANGED <<attempt, log>>
      BY <1>1 DEF At, Handling, Calls, Triaging, topic
  <2>2. \A v \in Workers : v # w => pc'[v] = pc[v]
      BY <1>1 DEF At, ConsumerTypeOK
  <2> QED
      BY <2>1, <2>2 DEF AttemptInv, TopicInv
<1>6. StoreTypeOK' /\ Len(reviews') \in Nat /\ Len(reviews') >= Len(reviews)
  <2>1. CASE Check(w)
      BY <2>1 DEF Check, StoreTypeOK, store
  <2>2. CASE StoreResult(w)
    <3>1. PICK flagged \in BOOLEAN : UpsertResult(TicketOf(m), flagged)
        BY <1>2, <2>2 DEF StoreResult
    <3>2. [by |-> "MODEL", flagged |-> flagged] \in Result
        BY DEF Result
    <3> QED
      <4>1. /\ result' = [result EXCEPT ![TicketOf(m)] =
                              {[by |-> "MODEL", flagged |-> flagged]}]
            /\ UNCHANGED <<reviews, audit, decided, corrected, processed>>
          BY <2>2, <3>1 DEF StoreResult, UpsertResult
      <4>2. StoreTypeOK'
          BY <1>2, <3>2, <4>1, ResultType
      <4>3. Len(reviews) \in Nat /\ reviews' = reviews
          BY <4>1 DEF StoreTypeOK
      <4> QED
          BY <4>2, <4>3
  <2>3. CASE AuditTriage(w)
      BY <1>2, <2>3, AuditType DEF AuditTriage, AuditActions, StoreTypeOK
  <2>4. CASE Decide(w)
      BY <1>2, <2>4 DEF Decide, InsertDecision, StoreTypeOK
  <2>5. CASE AuditRisk(w)
      BY <1>2, <2>5, AuditType DEF AuditRisk, AuditActions, StoreTypeOK
  <2>6. CASE Enqueue(w)
      BY <1>2, <2>6, EnqueueType DEF Enqueue
  <2>7. CASE MarkProcessed(w)
    <3>1. m \in Nat \X Nat
      <4>1. m \in Partitions \X (1 .. MaxMessages)
          BY <1>2 DEF Messages
      <4>2. Partitions \subseteq Nat /\ 1 .. MaxMessages \subseteq Nat
          BY ConsumerConstants DEF ConsumerConstants
      <4> QED
          BY <4>1, <4>2
    <3> QED
        BY <1>2, <2>7, <3>1 DEF MarkProcessed, MarkEventProcessed, StoreTypeOK
  <2> QED
      BY <2>1, <2>2, <2>3, <2>4, <2>5, <2>6, <2>7 DEF Progress
<1> QED
    BY <1>4, <1>5, <1>6, DeskTypeStays

\* The other steps of a task: failures, commits, start and end.
Turns(w) ==
    \/ Start(w) \/ Commit(w) \/ CallFails(w) \/ PoisonFails(w) \/ CommitFails(w)
    \/ GiveUp(w) \/ GiveUpFails(w) \/ Stop(w) \/ StopTimesOut(w) \/ FinishStop(w)
    \/ StopBroken(w) \/ Crash(w)

LEMMA TurnsKeepStore ==
    ASSUME NEW w \in Workers, Turns(w)
    PROVE  UNCHANGED <<store, log>>
    BY DEF Turns, Start, Commit, CallFails, PoisonFails, CommitFails, Retry, GiveUp,
           GiveUpFails, Stop, StopTimesOut, FinishStop, StopBroken, Crash, Leave, topic

LEMMA TypeOfTurns ==
    ASSUME TypeInv, UNCHANGED review, NEW w \in Workers, Turns(w)
    PROVE  TypeInv'
<1> USE DEF TypeInv, TypeOK
<1>1. StoreTypeOK' /\ DeskTypeOK' /\ TopicInv'
    BY TurnsKeepStore DEF StoreTypeOK, store, DeskTypeOK, review, TopicInv
<1>2. CASE Start(w)
    BY <1>1, <1>2 DEF Start, ConsumerTypeOK, AttemptInv, topic, group, history, Messages,
                      Handling, Calls, Triaging
<1>3. CASE CallFails(w) \/ PoisonFails(w) \/ CommitFails(w)
  <2>1. Retry(w) /\ pc[w] \in Handling \ {"giveUp"} /\ attempt[w] < MaxAttempts
      BY <1>3 DEF CallFails, PoisonFails, CommitFails, Handling, Calls, Triaging, AttemptInv
  <2>2. ConsumerTypeOK'
      BY <2>1, RetryType
  <2>3. AttemptInv'
      BY <2>1, ConsumerConstants
         DEF ConsumerConstants, Retry, AttemptInv, ConsumerTypeOK
  <2> QED
      BY <1>1, <2>2, <2>3
<1>4. CASE Commit(w) \/ GiveUp(w) \/ GiveUpFails(w)
  <2>1. committed' \in [Partitions -> 0 .. MaxMessages]
      BY <1>4, CommitType DEF Commit, GiveUp, GiveUpFails, ConsumerTypeOK, topic
  <2>2. /\ pc' \in [Workers -> {"down", "idle", "stopping", "broken"} \cup Handling]
        /\ \A v \in Workers : pc'[v] \in Handling => pc[v] \in Handling /\ v # w
        /\ \A v \in Workers \ {w} : pc'[v] = pc[v] /\ inHand'[v] = inHand[v]
      BY <1>4 DEF Commit, GiveUp, GiveUpFails, ConsumerTypeOK, Handling, Calls, Triaging
  <2>3. inHand' \in [Workers -> SUBSET Messages] /\ dead' \subseteq Messages
      BY <1>4 DEF Commit, GiveUp, GiveUpFails, ConsumerTypeOK, history
  <2>4. UNCHANGED <<log, group, attempt, toReview, shutdown, lost, contested>>
      BY <1>4 DEF Commit, GiveUp, GiveUpFails, history, topic
  <2>5. ConsumerTypeOK' /\ AttemptInv'
      BY <2>1, <2>2, <2>3, <2>4 DEF ConsumerTypeOK, AttemptInv, group, Messages
  <2> QED
      BY <1>1, <2>5
<1>5. CASE Stop(w)
    BY <1>1, <1>5 DEF Stop, ConsumerTypeOK, AttemptInv, topic, group, history, Messages
<1>6. CASE StopTimesOut(w)
  <2>1. /\ pc' \in [Workers -> {"down", "idle", "stopping", "broken"} \cup Handling]
        /\ \A v \in Workers : pc'[v] \in Handling => pc[v] \in Handling /\ v # w
        /\ \A v \in Workers \ {w} : pc'[v] = pc[v] /\ inHand'[v] = inHand[v]
        /\ inHand' \in [Workers -> SUBSET Messages]
      BY <1>6 DEF StopTimesOut, ConsumerTypeOK, Handling, Calls, Triaging
  <2> QED
      BY <1>1, <1>6, <2>1 DEF StopTimesOut, ConsumerTypeOK, AttemptInv, topic, group,
                              history, Messages
<1>7. CASE FinishStop(w) \/ StopBroken(w) \/ Crash(w)
  <2>1. /\ Leave(w) /\ dead' \subseteq Messages /\ lost' \subseteq Messages
        /\ contested' \subseteq Messages
      BY <1>7 DEF FinishStop, StopBroken, Crash, ConsumerTypeOK, history
  <2>2. committed' \in [Partitions -> 0 .. MaxMessages]
      BY <1>7, CommitType DEF FinishStop, StopBroken, Crash, ConsumerTypeOK
  <2>3. AttemptInv'
      BY <2>1 DEF Leave, AttemptInv, ConsumerTypeOK, Handling, Calls, Triaging
  <2> QED
      BY <1>1, <2>1, <2>2, <2>3, LeaveType
<1> QED
    BY <1>2, <1>3, <1>4, <1>5, <1>6, <1>7 DEF Turns

LEMMA ProduceKeepsTypes ==
    ASSUME TypeInv, UNCHANGED review, NEW t \in Tickets, Produce(t)
    PROVE  TypeInv'
<1>1. log' \in [Partitions -> Seq(Tickets)] /\ TopicInv' /\ Messages \subseteq Messages'
    BY ProduceType
<1>2. UNCHANGED <<store, review, committed, group, task, history>>
    BY DEF Produce
<1>3. ConsumerTypeOK'
    BY <1>1, <1>2 DEF TypeInv, TypeOK, ConsumerTypeOK, group, task, history
<1>4. StoreTypeOK' /\ DeskTypeOK' /\ AttemptInv'
    BY <1>2 DEF TypeInv, TypeOK, StoreTypeOK, DeskTypeOK, AttemptInv, store, review, task
<1> QED
    BY <1>1, <1>3, <1>4 DEF TypeInv, TypeOK

\* A request works on a review, or feedback, of an existing ticket.
LEMMA ItemType ==
    ASSUME DeskTypeOK, StoreTypeOK, NEW r \in Reviewers, NEW item \in work[r]
    PROVE  item[1] \in Tickets /\ item[2] \in 0 .. Len(reviews)
    BY DEF DeskTypeOK

LEMMA CloseType ==
    ASSUME DeskTypeOK, NEW r \in Reviewers, Close(r), reviews' = reviews,
           abandoned' \subseteq Tickets \X (0 .. Len(reviews))
    PROVE  DeskTypeOK'
    BY DEF DeskTypeOK, Close

LEMMA TurnType ==
    ASSUME DeskTypeOK, NEW r \in Reviewers, NEW here, NEW next \in Committed,
           here # "free", Turn(r, here, next), Len(reviews') = Len(reviews)
    PROVE  DeskTypeOK'
    BY DEF DeskTypeOK, Turn, Committed

LEMMA TypeOfDesk ==
    ASSUME TypeInv, UNCHANGED consumer, DeskNext
    PROVE  TypeInv'
<1> USE DEF TypeInv, TypeOK
<1>1. ConsumerTypeOK' /\ TopicInv' /\ AttemptInv'
    BY ConsumerTypeStays DEF consumer, topic, task, TopicInv, AttemptInv
<1> SUFFICES ASSUME NEW r \in Reviewers,
                    \/ \E id \in DOMAIN reviews : OpenReview(r, id)
                    \/ \E t \in Tickets : OpenFeedback(r, t)
                    \/ Decision(r) \/ Abort(r)
             PROVE  StoreTypeOK' /\ DeskTypeOK'
    BY <1>1 DEF DeskNext
<1>2. ASSUME NEW id \in DOMAIN reviews, OpenReview(r, id)
      PROVE  StoreTypeOK' /\ DeskTypeOK'
  <2>1. id \in 1 .. Len(reviews) /\ Len(reviews) \in Nat /\ reviews[id] \in Review
      BY DEF StoreTypeOK
  <2>2. reviews[id].ticket \in Tickets /\ id \in 0 .. Len(reviews)
      BY <2>1 DEF Review
  <2> QED
      BY <1>2, <2>2 DEF OpenReview, StoreTypeOK, DeskTypeOK, store
<1>3. ASSUME NEW t \in Tickets, OpenFeedback(r, t) PROVE StoreTypeOK' /\ DeskTypeOK'
  <2>1. <<t, 0>> \in Tickets \X (0 .. Len(reviews))
      BY DEF StoreTypeOK
  <2> QED
      BY <1>3, <2>1 DEF OpenFeedback, StoreTypeOK, DeskTypeOK, store
<1>4. CASE Resolve(r)
  <2>1. PICK item \in work[r] : ResolveReview(item[2], r)
      BY <1>4 DEF Resolve
  <2>2. StoreTypeOK' /\ Len(reviews') = Len(reviews)
      BY <1>4, <2>1, ResolveType DEF Resolve
  <2> QED
      BY <1>4, <2>2, TurnType DEF Resolve, Committed
<1>5. CASE ResolveTooLate(r)
    BY <1>5, CloseType DEF ResolveTooLate, StoreTypeOK, DeskTypeOK, store
<1>6. CASE Feedback(r)
  <2>1. PICK item \in work[r] : InsertFeedback(item[1], item[2])
      BY <1>6 DEF Feedback
  <2>2. item[1] \in Tickets /\ item[2] \in 0 .. Len(reviews)
      BY ItemType
  <2>3. StoreTypeOK' /\ Len(reviews') = Len(reviews)
      BY <1>6, <2>1, <2>2 DEF Feedback, InsertFeedback, StoreTypeOK
  <2> QED
      BY <1>6, <2>3, TurnType DEF Feedback, Committed
<1>7. CASE AuditFeedback(r)
  <2>1. PICK item \in work[r] : WriteAudit(item[1], "FEEDBACK_CAPTURED")
      BY <1>7 DEF AuditFeedback
  <2>2. StoreTypeOK'
      BY <1>7, <2>1, ItemType, AuditType DEF AuditFeedback, AuditActions
  <2>3. \/ Close(r)
        \/ desk' = [desk EXCEPT ![r] = "override"] /\ UNCHANGED work
      BY <1>7 DEF AuditFeedback
  <2>4. DeskTypeOK'
      BY <1>7, <2>3, CloseType DEF AuditFeedback, DeskTypeOK, Committed
  <2> QED
      BY <2>2, <2>4
<1>8. CASE Override(r)
  <2>1. PICK item \in work[r] : ApplyOverride(item[1], r)
      BY <1>8 DEF Override
  <2>2. item[1] \in Tickets /\ [by |-> r, flagged |-> FALSE] \in Result
      BY ItemType DEF Result
  <2>3. StoreTypeOK' /\ reviews' = reviews
      BY <1>8, <2>1, <2>2, ResultType DEF Override, ApplyOverride
  <2> QED
      BY <1>8, <2>3, TurnType DEF Override, Committed
<1>9. CASE AuditReview(r)
  <2>1. PICK item \in work[r] : WriteAudit(item[1], "HUMAN_REVIEW_RESOLVED")
      BY <1>9 DEF AuditReview
  <2>2. StoreTypeOK'
      BY <1>9, <2>1, ItemType, AuditType DEF AuditReview, AuditActions
  <2> QED
      BY <1>9, <2>2, CloseType DEF AuditReview, DeskTypeOK
<1>10. CASE Abort(r)
  <2>1. abandoned' \subseteq Tickets \X (0 .. Len(reviews))
      BY <1>10 DEF Abort, DeskTypeOK
  <2> QED
      BY <1>10, <2>1, CloseType DEF Abort, StoreTypeOK, store
<1> QED
    BY <1>2, <1>3, <1>4, <1>5, <1>6, <1>7, <1>8, <1>9, <1>10 DEF Decision

\* The kinds of steps the service takes, as the proofs below go through them.
LEMMA Kinds ==
    ASSUME [Next]_vars
    PROVE  \/ UNCHANGED <<consumer, review>> /\ UNCHANGED store
           \/ DeskNext /\ UNCHANGED consumer
           \/ /\ UNCHANGED review
              /\ \/ \E t \in Tickets : Produce(t)
                 \/ \E p \in Partitions :
                      \/ Revoke(p)
                      \/ \E w \in Workers :
                           Assign(w, p) \/ Fetch(w, p) \/ FetchAtShutdown(w, p)
                 \/ \E w \in Workers : Progress(w) \/ Turns(w)
    BY DEF Next, vars, ConsumerNext, ConsumerStep, Handle, Stopping, Progress, Turns

LEMMA TypeStep == TypeInv /\ [Next]_vars => TypeInv'
<1> SUFFICES ASSUME TypeInv, [Next]_vars PROVE TypeInv'
    OBVIOUS
<1>1. CASE UNCHANGED <<consumer, review>> /\ UNCHANGED store
    BY <1>1 DEF TypeInv, TypeOK, StoreTypeOK, ConsumerTypeOK, DeskTypeOK, TopicInv,
                AttemptInv, Messages, consumer, topic, group, task, history, review, store
<1> QED
    BY <1>1, Kinds, ProduceKeepsTypes, TypeOfGroup, TypeOfProgress, TypeOfTurns, TypeOfDesk

LEMMA Types == Spec => []TypeInv
    BY InitType, TypeStep, PTL DEF Spec

\* The tables, the consumers and the review requests keep their types; among
\* them, a ticket has at most one result and a handler one message, of the topic.
THEOREM TypeCorrect == Spec => []TypeOK
<1>1. TypeInv => TypeOK
    BY DEF TypeInv
<1> QED
    BY <1>1, Types, PTL

-----------------------------------------------------------------------------
\* Offsets: what an owner's position and the group's committed offset answer for.

\* The messages of p up to offset o.
UpTo(p, o) == {m \in Messages : m[1] = p /\ m[2] <= o}

SoleOwner == \A p \in Partitions : \A w \in owner[p] : owner[p] = {w}

InTheLog ==
    \A p \in Partitions :
        /\ committed[p] <= Len(log[p])
        /\ \A w \in Workers : position[w][p] <= Len(log[p])

OwnerAhead ==
    \A p \in Partitions, w \in Workers : owner[p] = {w} => committed[p] <= position[w][p]

HandsEmpty == \A w \in Workers : pc[w] \notin Handling => inHand[w] = {}

HandsDone == \A w \in Workers : pc[w] = "commit" => inHand[w] \subseteq processed

\* A task about to be ended by stop() is left out: what it leaves undone is
\* entered in lost with its commit.
OwnerAnswers ==
    \A p \in Partitions, w \in Workers :
        owner[p] = {w} /\ pc[w] # "stopping" =>
            UpTo(p, position[w][p]) \subseteq Accounted \cup inHand[w]

OffsetInv ==
    /\ SoleOwner /\ InTheLog /\ OwnerAhead
    /\ HandsEmpty /\ HandsDone /\ OwnerAnswers
    /\ CommittedIsAccounted

LEMMA InitOffsets == Init => OffsetInv
<1> SUFFICES ASSUME Init PROVE OffsetInv
    OBVIOUS
<1>1. Messages = {}
    BY ConsumerConstants DEF ConsumerConstants, Init, ConsumerInit, Messages
<1> QED
    BY <1>1 DEF Init, ConsumerInit, OffsetInv, SoleOwner, InTheLog, OwnerAhead, HandsEmpty,
                HandsDone, OwnerAnswers, CommittedIsAccounted, UpTo

\* The types of offsets, for arithmetic.
LEMMA OffsetTypes ==
    ASSUME TypeInv, NEW p \in Partitions
    PROVE  /\ committed[p] \in Nat /\ Len(log[p]) \in Nat
           /\ \A w \in Workers : position[w][p] \in Nat
           /\ \A m \in Messages : m[1] \in Partitions /\ m[2] \in Nat
    BY ConsumerConstants DEF ConsumerConstants, TypeInv, TypeOK, ConsumerTypeOK, Messages

\* The offset moves, for the partitions w owns, to a position that is answered for.
LEMMA CommitAnswers ==
    ASSUME TypeInv, OffsetInv, NEW w \in Workers, CommitPositions(w), log' = log,
           Accounted \subseteq Accounted',
           \A p \in Partitions : owner[p] = {w} =>
               UpTo(p, position[w][p]) \subseteq Accounted'
    PROVE  /\ CommittedIsAccounted'
           /\ \A p \in Partitions : committed'[p] <= Len(log[p])
           /\ \A p \in Partitions : committed'[p] >= committed[p]
<1>1. Messages' = Messages
    BY DEF Messages
<1>2. \A p \in Partitions :
        committed'[p] = IF owner[p] = {w} THEN position[w][p] ELSE committed[p]
    BY DEF CommitPositions
<1>3. CommittedIsAccounted'
  <2> SUFFICES ASSUME NEW m \in Messages, m[2] <= committed'[m[1]]
               PROVE  m \in Accounted'
      BY <1>1 DEF CommittedIsAccounted, Accounted
  <2>1. m[1] \in Partitions
      BY DEF Messages
  <2>2. CASE owner[m[1]] = {w}
      BY <1>2, <2>1, <2>2 DEF UpTo
  <2>3. CASE owner[m[1]] # {w}
      BY <1>2, <2>1, <2>3 DEF OffsetInv, CommittedIsAccounted, Accounted
  <2> QED
      BY <2>2, <2>3
<1>4. \A p \in Partitions : committed'[p] <= Len(log[p]) /\ committed'[p] >= committed[p]
    BY <1>2, OffsetTypes DEF OffsetInv, InTheLog, OwnerAhead
<1> QED
    BY <1>3, <1>4

LEMMA OffsetsOfProduce ==
    ASSUME TypeInv, OffsetInv, NEW t \in Tickets, Produce(t)
    PROVE  OffsetInv'
<1>1. /\ \A p \in Partitions : Len(log'[p]) >= Len(log[p])
      /\ log' \in [Partitions -> Seq(Tickets)]
    BY ProduceType
<1>2. UNCHANGED <<processed, committed, owner, position, pc, inHand, dead, lost>>
    BY DEF Produce, store, group, task, history
<1>3. InTheLog'
    BY <1>1, <1>2, OffsetTypes DEF OffsetInv, InTheLog
<1>4. \* What the log has gained lies behind every position.
      \A p \in Partitions, o \in Nat : o <= Len(log[p]) => UpTo(p, o)' = UpTo(p, o)
  <2> SUFFICES ASSUME NEW p \in Partitions, NEW o \in Nat, o <= Len(log[p]),
                      NEW m \in Partitions \X (1 .. MaxMessages), m[1] = p, m[2] <= o
               PROVE  m[2] <= Len(log[m[1]]) /\ m[2] <= Len(log'[m[1]])
      BY DEF UpTo, Messages
  <2>1. m[2] \in Nat /\ Len(log[p]) \in Nat /\ Len(log'[p]) \in Nat
      BY <1>1, OffsetTypes, ConsumerConstants DEF ConsumerConstants
  <2> QED
      BY <1>1, <2>1
<1>5. OwnerAnswers'
    BY <1>2, <1>4, OffsetTypes DEF OffsetInv, InTheLog, OwnerAnswers, Accounted
<1>6. CommittedIsAccounted'
  <2> SUFFICES ASSUME NEW m \in Messages', m[2] <= committed[m[1]]
               PROVE  m \in Accounted
      BY <1>2 DEF CommittedIsAccounted, Accounted
  <2>1. m[1] \in Partitions
      BY DEF Messages
  <2>2. m \in UpTo(m[1], committed[m[1]])
      BY <1>2, <1>4, <2>1, OffsetTypes DEF OffsetInv, InTheLog, UpTo
  <2> QED
      BY <2>2 DEF UpTo, OffsetInv, CommittedIsAccounted, Accounted
<1> QED
    BY <1>2, <1>3, <1>5, <1>6 DEF OffsetInv, SoleOwner, OwnerAhead, HandsEmpty, HandsDone

LEMMA OffsetsOfGroup ==
    ASSUME TypeInv, OffsetInv, NEW p \in Partitions,
           \/ Revoke(p)
           \/ \E w \in Workers : Assign(w, p) \/ Fetch(w, p) \/ FetchAtShutdown(w, p)
    PROVE  OffsetInv'
<1> USE DEF OffsetInv
<1>1. /\ UNCHANGED <<log, committed, dead, lost, processed>>
      /\ Messages' = Messages /\ Accounted' = Accounted
      /\ CommittedIsAccounted'
    BY DEF Revoke, Assign, Fetch, FetchAtShutdown, topic, history, store, Messages,
           Accounted, CommittedIsAccounted
<1>2. CASE Revoke(p)
  <2>1. /\ UNCHANGED <<position, pc, inHand>>
        /\ \A q \in Partitions : owner'[q] = owner[q] \/ owner'[q] = {}
      BY <1>2 DEF Revoke, task, TypeInv, TypeOK, ConsumerTypeOK
  <2> QED
      BY <1>1, <2>1 DEF SoleOwner, InTheLog, OwnerAhead, HandsEmpty, HandsDone,
                        OwnerAnswers, UpTo
<1>3. ASSUME NEW w \in Workers, Assign(w, p) PROVE OffsetInv'
  <2>1. /\ UNCHANGED <<pc, inHand>>
        /\ owner'[p] = {w} /\ position'[w][p] = committed[p]
        /\ \A q \in Partitions \ {p} : owner'[q] = owner[q]
        /\ \A v \in Workers, q \in Partitions :
             <<v, q>> # <<w, p>> => position'[v][q] = position[v][q]
      BY <1>3 DEF Assign, task, TypeInv, TypeOK, ConsumerTypeOK
  <2>2. SoleOwner' /\ HandsEmpty' /\ HandsDone'
      BY <1>1, <2>1 DEF SoleOwner, HandsEmpty, HandsDone
  <2>3. InTheLog' /\ OwnerAhead'
    <3>1. ASSUME NEW q \in Partitions, NEW v \in Workers
          PROVE  /\ position'[v][q] <= Len(log[q])
                 /\ owner'[q] = {v} => committed[q] <= position'[v][q]
      <4>1. CASE v = w /\ q = p
          BY <2>1, <4>1, OffsetTypes DEF InTheLog
      <4>2. CASE <<v, q>> # <<w, p>> /\ q = p
          BY <2>1, <4>2 DEF InTheLog
      <4>3. CASE q # p
          BY <2>1, <4>3 DEF InTheLog, OwnerAhead
      <4> QED
          BY <4>1, <4>2, <4>3
    <3> QED
        BY <1>1, <3>1 DEF InTheLog, OwnerAhead
  <2>4. UpTo(p, committed[p]) \subseteq Accounted
      BY DEF UpTo, CommittedIsAccounted, Accounted
  <2>5. OwnerAnswers'
    <3> SUFFICES ASSUME NEW q \in Partitions, NEW v \in Workers,
                        owner'[q] = {v}, pc[v] # "stopping"
                 PROVE  UpTo(q, position'[v][q]) \subseteq Accounted \cup inHand[v]
        BY <1>1, <2>1 DEF OwnerAnswers, UpTo
    <3>1. CASE q = p
        BY <2>1, <2>4, <3>1
    <3>2. CASE q # p
        BY <2>1, <3>2 DEF OwnerAnswers
    <3> QED
        BY <3>1, <3>2
  <2> QED
      BY <1>1, <2>2, <2>3, <2>5
<1>4. ASSUME NEW w \in Workers, Fetched(w, p), UNCHANGED owner
      PROVE  /\ SoleOwner' /\ InTheLog' /\ OwnerAhead'
             /\ UpTo(p, position'[w][p])
                  \subseteq UpTo(p, position[w][p]) \cup {Ahead(w, p)}
             /\ \A v \in Workers, q \in Partitions :
                  <<v, q>> # <<w, p>> => position'[v][q] = position[v][q]
  <2>1. /\ position'[w][p] = position[w][p] + 1
        /\ \A v \in Workers, q \in Partitions :
             <<v, q>> # <<w, p>> => position'[v][q] = position[v][q]
      BY <1>4 DEF Fetched, TypeInv, TypeOK, ConsumerTypeOK
  <2>2. InTheLog' /\ OwnerAhead' /\ SoleOwner'
      BY <1>1, <1>4, <2>1, OffsetTypes DEF Fetched, InTheLog, OwnerAhead, SoleOwner
  <2>3. ASSUME NEW m \in UpTo(p, position[w][p] + 1), m \notin UpTo(p, position[w][p])
        PROVE  m = Ahead(w, p)
    <3>1. m \in Messages /\ m[1] = p /\ m[2] <= position[w][p] + 1 /\ ~(m[2] <= position[w][p])
        BY <2>3 DEF UpTo
    <3>2. m[2] = position[w][p] + 1
        BY <3>1, OffsetTypes
    <3>3. m = <<m[1], m[2]>>
        BY <3>1 DEF Messages
    <3> QED
        BY <3>1, <3>2, <3>3 DEF Ahead
  <2> QED
      BY <2>1, <2>2, <2>3
<1>5. ASSUME NEW w \in Workers, Fetch(w, p) PROVE OffsetInv'
  <2>1. /\ pc[w] = "idle" /\ pc' = [pc EXCEPT ![w] = "check"] /\ owner' = owner
        /\ inHand' = [inHand EXCEPT ![w] = {Ahead(w, p)}]
        /\ pc \in [Workers -> {"down", "idle", "stopping", "broken"} \cup Handling]
        /\ inHand \in [Workers -> SUBSET Messages]
      BY <1>5 DEF Fetch, Fetched, TypeInv, TypeOK, ConsumerTypeOK
  <2>2. inHand[w] = {}
      BY <2>1 DEF HandsEmpty, Handling, Calls, Triaging
  <2>3. HandsEmpty' /\ HandsDone'
      BY <1>1, <2>1 DEF HandsEmpty, HandsDone, Handling, Calls, Triaging
  <2>4. OwnerAnswers'
    <3> SUFFICES ASSUME NEW q \in Partitions, NEW v \in Workers,
                        owner[q] = {v}, pc'[v] # "stopping"
                 PROVE  UpTo(q, position'[v][q]) \subseteq Accounted \cup inHand'[v]
        BY <1>1, <2>1 DEF OwnerAnswers, UpTo
    <3>1. CASE v # w
        BY <1>4, <1>5, <2>1, <3>1 DEF OwnerAnswers, Fetch
    <3>2. CASE v = w
      <4>1. UpTo(q, position[w][q]) \subseteq Accounted
          BY <2>1, <2>2, <3>2 DEF OwnerAnswers
      <4>2. inHand'[w] = {Ahead(w, p)}
          BY <2>1
      <4>3. CASE q = p
          BY <1>4, <1>5, <3>2, <4>1, <4>2, <4>3 DEF Fetch
      <4>4. CASE q # p
        <5>1. position'[w][q] = position[w][q]
            BY <1>4, <1>5, <4>4 DEF Fetch
        <5> QED
            BY <3>2, <4>1, <5>1
      <4> QED
          BY <4>3, <4>4
    <3> QED
        BY <3>1, <3>2
  <2> QED
      BY <1>1, <1>4, <1>5, <2>1, <2>3, <2>4 DEF Fetch
<1>6. ASSUME NEW w \in Workers, FetchAtShutdown(w, p) PROVE OffsetInv'
  <2>1. /\ pc[w] = "idle" /\ pc' = [pc EXCEPT ![w] = "stopping"] /\ UNCHANGED <<owner, inHand>>
        /\ pc \in [Workers -> {"down", "idle", "stopping", "broken"} \cup Handling]
      BY <1>6 DEF FetchAtShutdown, Fetched, TypeInv, TypeOK, ConsumerTypeOK
  <2>2. HandsEmpty' /\ HandsDone'
      BY <1>1, <2>1 DEF HandsEmpty, HandsDone, Handling, Calls, Triaging
  <2>3. OwnerAnswers'
      BY <1>1, <1>4, <1>6, <2>1 DEF OwnerAnswers, FetchAtShutdown, UpTo
  <2> QED
      BY <1>1, <1>4, <1>6, <2>1, <2>2, <2>3 DEF FetchAtShutdown
<1> QED
    BY <1>2, <1>3, <1>5, <1>6

LEMMA OffsetsOfProgress ==
    ASSUME TypeInv, OffsetInv, NEW w \in Workers, Progress(w)
    PROVE  OffsetInv'
<1>1. PICK here \in Calls, next \in Handling : At(w, here, next)
    BY DEF Progress, Check, StoreResult, AuditTriage, Decide, AuditRisk, Enqueue,
           MarkProcessed, Handling, Calls, Triaging
<1>2. PICK m \in Messages : inHand[w] = {m}
    BY <1>1, OneInHand DEF At, Handling, TypeInv
<1>3. processed \subseteq processed'
    BY DEF Progress, Check, StoreResult, AuditTriage, Decide, AuditRisk, Enqueue,
           MarkProcessed, MarkEventProcessed, store
<1>4. pc'[w] = "commit" => m \in processed'
  <2>1. pc'[w] = "commit" => Check(w) \/ MarkProcessed(w)
      BY DEF Progress, StoreResult, AuditTriage, Decide, AuditRisk, Enqueue, At,
             TypeInv, TypeOK, ConsumerTypeOK
  <2>2. CASE Check(w)
      BY <1>2, <2>2 DEF Check, At, TypeInv, TypeOK, ConsumerTypeOK, store
  <2>3. CASE MarkProcessed(w)
      BY <1>2, <2>3 DEF MarkProcessed, MarkEventProcessed
  <2> QED
      BY <2>1, <2>2, <2>3
<1>5. /\ UNCHANGED <<log, committed, owner, position, inHand, dead, lost>>
      /\ Messages' = Messages /\ Accounted \subseteq Accounted'
      /\ pc[w] \in Handling /\ pc[w] # "stopping" /\ pc'[w] \in Handling /\ pc'[w] # "stopping"
      /\ \A v \in Workers \ {w} : pc'[v] = pc[v]
    BY <1>1, <1>3 DEF At, topic, group, history, Messages, Accounted, TypeInv, TypeOK,
                      ConsumerTypeOK, Handling, Calls, Triaging
<1>6. SoleOwner' /\ InTheLog' /\ OwnerAhead' /\ CommittedIsAccounted'
    BY <1>5 DEF OffsetInv, SoleOwner, InTheLog, OwnerAhead, CommittedIsAccounted, Accounted
<1>7. HandsEmpty' /\ HandsDone'
    BY <1>2, <1>3, <1>4, <1>5 DEF OffsetInv, HandsEmpty, HandsDone
<1>8. OwnerAnswers'
    BY <1>5 DEF OffsetInv, OwnerAnswers, UpTo
<1> QED
    BY <1>6, <1>7, <1>8 DEF OffsetInv

\* A commit at the end of handling: what w had in hand is accounted for by then.
LEMMA OffsetsOfCommit ==
    ASSUME TypeInv, OffsetInv, NEW w \in Workers,
           Commit(w) \/ GiveUp(w) \/ GiveUpFails(w)
    PROVE  OffsetInv' /\ \A p \in Partitions : committed'[p] >= committed[p]
<1> USE DEF OffsetInv
<1>1. /\ UNCHANGED <<log, owner, position, lost, processed>> /\ Messages' = Messages
      /\ Accounted \subseteq Accounted' /\ inHand[w] \subseteq Accounted'
      /\ inHand' = [inHand EXCEPT ![w] = {}]
      /\ pc[w] \in Handling /\ pc'[w] \in {"idle", "broken"}
      /\ \A v \in Workers \ {w} : pc'[v] = pc[v]
    BY DEF Commit, GiveUp, GiveUpFails, group, topic, history, store, Messages, Accounted,
           HandsDone, Handling, TypeInv, TypeOK, ConsumerTypeOK
<1>2. inHand \in [Workers -> SUBSET Messages]
    BY DEF TypeInv, TypeOK, ConsumerTypeOK
<1>3. \A p \in Partitions : owner[p] = {w} => UpTo(p, position[w][p]) \subseteq Accounted'
    BY <1>1 DEF OwnerAnswers, Handling, Calls, Triaging
<1>4. /\ CommittedIsAccounted' /\ InTheLog'
      /\ \A p \in Partitions : committed'[p] >= committed[p]
  <2>1. CASE CommitPositions(w)
      BY <1>1, <1>3, <2>1, CommitAnswers DEF InTheLog
  <2>2. CASE UNCHANGED committed
      BY <1>1, <2>2, OffsetTypes DEF CommittedIsAccounted, Accounted, InTheLog
  <2> QED
      BY <2>1, <2>2 DEF Commit, GiveUp, GiveUpFails, topic
<1>5. OwnerAhead'
  <2>1. \A p \in Partitions, v \in Workers : owner[p] = {v} =>
          committed'[p] = committed[p] \/ committed'[p] = position[v][p]
      BY DEF Commit, GiveUp, GiveUpFails, CommitPositions, topic
  <2> QED
      BY <1>1, <2>1, OffsetTypes DEF OwnerAhead
<1>6. HandsEmpty' /\ HandsDone' /\ SoleOwner'
    BY <1>1, <1>2 DEF HandsEmpty, HandsDone, SoleOwner
<1>7. OwnerAnswers'
  <2> SUFFICES ASSUME NEW p \in Partitions, NEW v \in Workers,
                      owner[p] = {v}, pc'[v] # "stopping"
               PROVE  UpTo(p, position[v][p]) \subseteq Accounted' \cup inHand'[v]
      BY <1>1 DEF OwnerAnswers, UpTo
  <2>1. CASE v = w
      BY <1>3, <2>1
  <2>2. CASE v # w
      BY <1>1, <1>2, <2>2 DEF OwnerAnswers
  <2> QED
      BY <2>1, <2>2
<1> QED
    BY <1>4, <1>5, <1>6, <1>7

\* An instance that leaves the group owns nothing; the others keep what they own.
LEMMA OffsetsOfLeave ==
    ASSUME TypeInv, OffsetInv, NEW w \in Workers,
           FinishStop(w) \/ StopBroken(w) \/ Crash(w)
    PROVE  OffsetInv' /\ \A p \in Partitions : committed'[p] >= committed[p]
<1> USE DEF OffsetInv
<1>1. /\ UNCHANGED <<log, position, dead, processed>> /\ Messages' = Messages
      /\ Accounted \subseteq Accounted'
      /\ inHand' = [inHand EXCEPT ![w] = {}] /\ pc' = [pc EXCEPT ![w] = "down"]
      /\ owner' = [p \in Partitions |-> owner[p] \ {w}]
      /\ inHand \in [Workers -> SUBSET Messages]
      /\ pc \in [Workers -> {"down", "idle", "stopping", "broken"} \cup Handling]
    BY DEF FinishStop, StopBroken, Crash, Leave, history, store, Messages, Accounted,
           TypeInv, TypeOK, ConsumerTypeOK
<1>2. \A p \in Partitions : owner'[p] \subseteq owner[p] /\ w \notin owner'[p]
    BY <1>1
<1>3. \A p \in Partitions, v \in Workers : owner'[p] = {v} => owner[p] = {v} /\ v # w
    BY <1>2 DEF SoleOwner
<1>4. SoleOwner'
  <2> SUFFICES ASSUME NEW p \in Partitions, NEW v \in owner'[p] PROVE owner'[p] = {v}
      BY DEF SoleOwner
  <2>1. owner[p] = {v} /\ v # w
      BY <1>2 DEF SoleOwner
  <2> QED
      BY <1>1, <2>1
<1>5. /\ CommittedIsAccounted' /\ InTheLog'
      /\ \A p \in Partitions : committed'[p] >= committed[p]
  <2>1. CASE StopBroken(w) \/ Crash(w)
    <3>1. committed' = committed
        BY <2>1 DEF StopBroken, Crash
    <3> QED
        BY <1>1, <3>1, OffsetTypes DEF CommittedIsAccounted, Accounted, InTheLog
  <2>2. CASE FinishStop(w)
    <3>1. ASSUME NEW p \in Partitions, owner[p] = {w}, NEW m \in UpTo(p, position[w][p])
          PROVE  m \in Accounted'
      <4>1. m \in Messages /\ m[1] = p /\ m[2] <= committed'[m[1]]
          BY <2>2, <3>1 DEF UpTo, FinishStop, CommitPositions
      <4>2. CASE m[2] <= committed[p]
          BY <1>1, <4>1, <4>2 DEF CommittedIsAccounted, Accounted
      <4>3. CASE committed[p] < m[2]
          BY <2>2, <4>1, <4>3 DEF FinishStop, Accounted, Leave, store
      <4> QED
          BY <4>1, <4>2, <4>3, OffsetTypes
    <3> QED
        BY <1>1, <2>2, <3>1, CommitAnswers DEF FinishStop, InTheLog
  <2> QED
      BY <2>1, <2>2
<1>6. OwnerAhead'
  <2>1. \A p \in Partitions, v \in Workers : owner'[p] = {v} => committed'[p] = committed[p]
      BY <1>3 DEF FinishStop, StopBroken, Crash, CommitPositions
  <2> QED
      BY <1>1, <1>3, <2>1 DEF OwnerAhead
<1>7. HandsEmpty' /\ HandsDone'
    BY <1>1 DEF HandsEmpty, HandsDone
<1>8. OwnerAnswers'
    BY <1>1, <1>3 DEF OwnerAnswers, UpTo
<1> QED
    BY <1>4, <1>5, <1>6, <1>7, <1>8

LEMMA OffsetsOfTurns ==
    ASSUME TypeInv, OffsetInv, NEW w \in Workers, Turns(w)
    PROVE  OffsetInv' /\ \A p \in Partitions : committed'[p] >= committed[p]
<1>1. CASE Commit(w) \/ GiveUp(w) \/ GiveUpFails(w)
    BY <1>1, OffsetsOfCommit
<1>2. CASE FinishStop(w) \/ StopBroken(w) \/ Crash(w)
    BY <1>2, OffsetsOfLeave
<1>3. CASE \/ Start(w) \/ CallFails(w) \/ PoisonFails(w) \/ CommitFails(w)
           \/ Stop(w) \/ StopTimesOut(w)
  <2>1. /\ UNCHANGED <<log, committed, owner, position, dead, lost, processed>>
        /\ Messages' = Messages /\ Accounted' = Accounted
      BY <1>3 DEF Start, CallFails, PoisonFails, CommitFails, Retry, Stop, StopTimesOut,
                  topic, group, history, store, Messages, Accounted
  <2>2. /\ pc \in [Workers -> {"down", "idle", "stopping", "broken"} \cup Handling]
        /\ inHand \in [Workers -> SUBSET Messages]
      BY DEF TypeInv, TypeOK, ConsumerTypeOK
  <2>3. /\ SoleOwner' /\ InTheLog' /\ OwnerAhead' /\ CommittedIsAccounted'
        /\ \A p \in Partitions : committed'[p] >= committed[p]
      BY <2>1, OffsetTypes DEF OffsetInv, SoleOwner, InTheLog, OwnerAhead,
                               CommittedIsAccounted, Accounted
  <2>4. HandsEmpty' /\ HandsDone'
      BY <1>3, <2>1, <2>2
         DEF OffsetInv, HandsEmpty, HandsDone, Start, CallFails, PoisonFails, CommitFails,
             Retry, Stop, StopTimesOut, Handling, Calls, Triaging
  <2>5. \A v \in Workers : \/ pc'[v] = "stopping"
                           \/ pc[v] # "stopping" /\ inHand'[v] = inHand[v]
      BY <1>3, <2>2 DEF Start, CallFails, PoisonFails, CommitFails, Retry, Stop,
                        StopTimesOut, Calls, Triaging
  <2>6. OwnerAnswers'
      BY <2>1, <2>5 DEF OffsetInv, OwnerAnswers, UpTo
  <2> QED
      BY <2>3, <2>4, <2>6 DEF OffsetInv
<1> QED
    BY <1>1, <1>2, <1>3 DEF Turns

LEMMA OffsetStep ==
    ASSUME TypeInv, OffsetInv, [Next]_vars
    PROVE  OffsetInv' /\ \A p \in Partitions : committed'[p] >= committed[p]
<1>1. ASSUME UNCHANGED consumer, processed' = processed
      PROVE  OffsetInv' /\ \A p \in Partitions : committed'[p] >= committed[p]
    BY <1>1, OffsetTypes
       DEF OffsetInv, SoleOwner, InTheLog, OwnerAhead, HandsEmpty, HandsDone, OwnerAnswers,
           CommittedIsAccounted, Accounted, UpTo, Messages, consumer, topic, group, task,
           history
<1>2. DeskNext => processed' = processed
    BY DEF DeskNext, OpenReview, OpenFeedback, Decision, Resolve, ResolveTooLate, Feedback,
           AuditFeedback, Override, AuditReview, Abort, store
<1>3. ASSUME \/ \E t \in Tickets : Produce(t)
             \/ \E p \in Partitions : \/ Revoke(p)
                                      \/ \E w \in Workers : \/ Assign(w, p) \/ Fetch(w, p)
                                                            \/ FetchAtShutdown(w, p)
             \/ \E w \in Workers : Progress(w)
      PROVE  \A p \in Partitions : committed'[p] >= committed[p]
  <2>1. committed' = committed
      BY <1>3 DEF Produce, Revoke, Assign, Fetch, FetchAtShutdown, Progress, Check, StoreResult,
             AuditTriage, Decide, AuditRisk, Enqueue, MarkProcessed, At, topic
  <2> QED
      BY <2>1, OffsetTypes
<1> QED
    BY <1>1, <1>2, <1>3, Kinds, OffsetsOfProduce, OffsetsOfGroup, OffsetsOfProgress,
       OffsetsOfTurns DEF store

LEMMA Offsets == Spec => [](TypeInv /\ OffsetInv)
<1>1. TypeInv /\ OffsetInv /\ [Next]_vars => TypeInv' /\ OffsetInv'
    BY TypeStep, OffsetStep
<1> QED
    BY InitType, InitOffsets, <1>1, PTL DEF Spec

\* A message the group will not fetch again was processed, given up, or cut off
\* by stop(), whatever the rebalances, crashes, retries and late commits.
THEOREM CommittedAccounted == Spec => []CommittedIsAccounted
<1>1. OffsetInv => CommittedIsAccounted
    BY DEF OffsetInv
<1> QED
    BY <1>1, Offsets, PTL

\* The group's offset never moves back, whoever commits.
THEOREM OffsetsNeverFall == Spec => OffsetsAdvance
<1>1. TypeInv /\ OffsetInv /\ [Next]_vars =>
        [\A p \in Partitions : committed'[p] >= committed[p]]_committed
    BY OffsetStep
<1> QED
    BY <1>1, Offsets, PTL DEF Spec, OffsetsAdvance

-----------------------------------------------------------------------------
\* Nothing the service has written goes away, whichever step is taken.

LogGrows ==
    \A m \in Messages : m \in Messages' /\ TicketOf(m)' = TicketOf(m)

RowsGrow ==
    /\ audit \subseteq audit' /\ decided \subseteq decided'
    /\ corrected \subseteq corrected' /\ processed \subseteq processed'
    /\ \A t \in Tickets : Triaged(t) => Triaged(t)'

\* A review keeps its number and ticket; once resolved, it stays as it is.
ReviewsGrow ==
    \A id \in DOMAIN reviews :
        /\ id \in DOMAIN reviews'
        /\ reviews'[id].ticket = reviews[id].ticket
        /\ reviews[id].status = "RESOLVED" => reviews'[id] = reviews[id]

HistoryGrows ==
    /\ dead \subseteq dead' /\ lost \subseteq lost' /\ contested \subseteq contested'
    /\ abandoned \subseteq abandoned'

LEMMA LogStep == TypeInv /\ [Next]_vars => LogGrows
<1> SUFFICES ASSUME TypeInv, [Next]_vars PROVE LogGrows
    OBVIOUS
<1>1. CASE log' = log
    BY <1>1 DEF LogGrows, Messages, TicketOf
<1>2. ASSUME NEW t \in Tickets, Produce(t) PROVE LogGrows
    BY <1>2, ProduceType DEF LogGrows
<1>3. log' = log \/ \E t \in Tickets : Produce(t)
    BY Kinds, TurnsKeepStore
       DEF Revoke, Assign, Fetch, FetchAtShutdown, Progress, Check, StoreResult, AuditTriage,
           Decide, AuditRisk, Enqueue, MarkProcessed, At, topic, consumer
<1> QED
    BY <1>1, <1>2, <1>3

LEMMA HistoryStep == TypeInv /\ [Next]_vars => HistoryGrows
<1> SUFFICES ASSUME TypeInv, [Next]_vars PROVE HistoryGrows
    OBVIOUS
<1>1. UNCHANGED review => abandoned' = abandoned
    BY DEF review
<1>2. DeskNext => abandoned \subseteq abandoned'
    BY DEF DeskNext, OpenReview, OpenFeedback, Decision, Resolve, ResolveTooLate, Feedback,
           AuditFeedback, Override, AuditReview, Abort, Turn
<1>3. UNCHANGED consumer => UNCHANGED <<dead, lost, contested>>
    BY DEF consumer, history
<1>4. ConsumerNext =>
        dead \subseteq dead' /\ lost \subseteq lost' /\ contested \subseteq contested'
    BY DEF ConsumerNext, ConsumerStep, Produce, Revoke, Assign, Fetch, Start, Handle, Check,
           StoreResult, AuditTriage, Decide, AuditRisk, Enqueue, MarkProcessed, At, Commit,
           CallFails, PoisonFails, CommitFails, Retry, GiveUp, GiveUpFails, Stop, Stopping,
           FetchAtShutdown, StopTimesOut, FinishStop, StopBroken, Crash, history
<1> QED
    BY <1>1, <1>2, <1>3, <1>4 DEF Next, vars, HistoryGrows

\* The statements, and who makes them: every other step leaves the tables alone.
LEMMA StoreKinds ==
    ASSUME TypeInv, [Next]_vars
    PROVE  \/ UNCHANGED store
           \/ \E w \in Workers : Progress(w) /\ UNCHANGED review
           \/ \E r \in Reviewers :
                /\ Resolve(r) \/ Feedback(r) \/ AuditFeedback(r) \/ Override(r) \/ AuditReview(r)
                /\ UNCHANGED consumer
    BY Kinds, TurnsKeepStore
       DEF Produce, Revoke, Assign, Fetch, FetchAtShutdown, DeskNext, OpenReview,
           OpenFeedback, Decision, ResolveTooLate, Abort

\* A result is only ever overwritten.
LEMMA OverwriteKeeps ==
    ASSUME StoreTypeOK, NEW u \in Tickets, NEW row, result' = [result EXCEPT ![u] = {row}]
    PROVE  \A t \in Tickets : Triaged(t) => Triaged(t)'
    BY DEF StoreTypeOK, Triaged

LEMMA RowsStep == TypeInv /\ [Next]_vars => RowsGrow
<1> SUFFICES ASSUME TypeInv, [Next]_vars PROVE RowsGrow
    OBVIOUS
<1>1. /\ audit \subseteq audit' /\ decided \subseteq decided'
      /\ corrected \subseteq corrected' /\ processed \subseteq processed'
    BY StoreKinds
       DEF Progress, Check, StoreResult, AuditTriage, Decide, AuditRisk, Enqueue,
           MarkProcessed, Resolve, Feedback, AuditFeedback, Override, AuditReview, store,
           WriteAudit, InsertDecision, InsertFeedback, MarkEventProcessed
<1>2. \/ result' = result
      \/ \E w \in Workers : StoreResult(w)
      \/ \E r \in Reviewers : Override(r)
    BY StoreKinds
       DEF Progress, Check, AuditTriage, Decide, AuditRisk, Enqueue, MarkProcessed, Resolve,
           Feedback, AuditFeedback, AuditReview, store
<1>3. ASSUME NEW w \in Workers, StoreResult(w)
      PROVE  \A t \in Tickets : Triaged(t) => Triaged(t)'
  <2>1. PICK m \in inHand[w], flagged \in BOOLEAN : UpsertResult(TicketOf(m), flagged)
      BY <1>3 DEF StoreResult
  <2>2. TicketOf(m) \in Tickets
      BY TicketType DEF TypeInv, TypeOK, ConsumerTypeOK
  <2> QED
      BY <2>1, <2>2, OverwriteKeeps DEF UpsertResult, TypeInv, TypeOK
<1>4. ASSUME NEW r \in Reviewers, Override(r)
      PROVE  \A t \in Tickets : Triaged(t) => Triaged(t)'
  <2>1. PICK item \in work[r] : ApplyOverride(item[1], r)
      BY <1>4 DEF Override
  <2>2. item[1] \in Tickets
      BY ItemType DEF TypeInv, TypeOK
  <2> QED
      BY <2>1, <2>2, OverwriteKeeps DEF ApplyOverride, TypeInv, TypeOK
<1>5. result' = result => \A t \in Tickets : Triaged(t) => Triaged(t)'
    BY DEF Triaged
<1> QED
    BY <1>1, <1>2, <1>3, <1>4, <1>5 DEF RowsGrow

LEMMA ReviewsStep == TypeInv /\ [Next]_vars => ReviewsGrow
<1> SUFFICES ASSUME TypeInv, [Next]_vars PROVE ReviewsGrow
    OBVIOUS
<1>1. reviews \in Seq(Review) /\ DOMAIN reviews = 1 .. Len(reviews) /\ Len(reviews) \in Nat
    BY DEF TypeInv, TypeOK, StoreTypeOK
<1>2. \/ reviews' = reviews
      \/ \E w \in Workers : Enqueue(w)
      \/ \E r \in Reviewers : Resolve(r)
    BY StoreKinds
       DEF Progress, Check, StoreResult, AuditTriage, Decide, AuditRisk, MarkProcessed,
           Feedback, AuditFeedback, Override, AuditReview, store
<1>3. ASSUME NEW w \in Workers, Enqueue(w) PROVE ReviewsGrow
  <2>1. PICK m \in inHand[w] : EnqueueReview(TicketOf(m))
      BY <1>3 DEF Enqueue
  <2>2. TicketOf(m) \in Tickets
      BY TicketType DEF TypeInv, TypeOK, ConsumerTypeOK
  <2>3. [ticket |-> TicketOf(m), status |-> "PENDING", reviewer |-> "NOBODY"] \in Review
      BY <2>2 DEF Review
  <2>4. \A id \in DOMAIN reviews : id \in DOMAIN reviews' /\ reviews'[id] = reviews[id]
      BY <1>1, <2>1, <2>3 DEF EnqueueReview
  <2> QED
      BY <2>4 DEF ReviewsGrow
<1>4. ASSUME NEW r \in Reviewers, Resolve(r) PROVE ReviewsGrow
  <2>1. PICK item \in work[r] : ResolveReview(item[2], r)
      BY <1>4 DEF Resolve
  <2> DEFINE id == item[2]
  <2>2. id \in DOMAIN reviews /\ reviews[id].status = "PENDING"
      BY <2>1 DEF ResolveReview, PendingReviews
  <2>3. reviews[id] \in Review
      BY <1>1, <2>2
  <2>4. reviews' = [reviews EXCEPT ![id] = [reviews[id] EXCEPT !.status = "RESOLVED",
                                                             !.reviewer = r]]
      BY <1>1, <2>1, <2>2 DEF ResolveReview
  <2>5. [reviews[id] EXCEPT !.status = "RESOLVED", !.reviewer = r].ticket = reviews[id].ticket
      BY <2>3 DEF Review
  <2> HIDE DEF id
  <2> QED
      BY <1>1, <2>2, <2>4, <2>5 DEF ReviewsGrow
<1>5. reviews' = reviews => ReviewsGrow
    BY DEF ReviewsGrow
<1> QED
    BY <1>2, <1>3, <1>4, <1>5

-----------------------------------------------------------------------------
\* What an await can rely on in the tables: the writes of triage(), in order.

AfterResult   == {"auditTriage", "decide", "auditRisk", "enqueue", "mark"}
AfterAudit    == AfterResult \ {"auditTriage"}
AfterDecision == AfterAudit \ {"decide"}
AfterTriage   == {"enqueue", "mark"}

WritesInOrder(w) ==
    \A m \in inHand[w] :
        /\ pc[w] \in AfterResult => Triaged(TicketOf(m))
        /\ pc[w] \in AfterAudit => <<TicketOf(m), "TRIAGE_COMPLETED">> \in audit
        /\ pc[w] \in AfterDecision => TicketOf(m) \in decided
        /\ pc[w] \in AfterTriage => <<TicketOf(m), "RISK_DECISION_MADE">> \in audit

\* The writes of every triage() are in the tables; the fifth, the review, is not
\* made of every ticket.
Complete(t) ==
    /\ Triaged(t) /\ t \in decided
    /\ <<t, "TRIAGE_COMPLETED">> \in audit /\ <<t, "RISK_DECISION_MADE">> \in audit

PhaseInv ==
    /\ \A w \in Workers : WritesInOrder(w)
    /\ processed \subseteq Messages
    /\ \A m \in processed : Complete(TicketOf(m))

LEMMA InitPhases == Init => PhaseInv
    BY DEF Init, StoreInit, ConsumerInit, PhaseInv, WritesInOrder

\* A task that does not move keeps what it relies on.
LEMMA PhaseStays ==
    ASSUME TypeInv, LogGrows, RowsGrow, NEW w \in Workers, WritesInOrder(w),
           pc'[w] = pc[w] \/ pc'[w] \notin AfterResult, inHand'[w] = inHand[w]
    PROVE  WritesInOrder(w)'
<1> SUFFICES ASSUME NEW m \in inHand[w]
             PROVE  /\ pc'[w] \in AfterResult => Triaged(TicketOf(m))'
                    /\ pc'[w] \in AfterAudit => <<TicketOf(m)', "TRIAGE_COMPLETED">> \in audit'
                    /\ pc'[w] \in AfterDecision => TicketOf(m)' \in decided'
                    /\ pc'[w] \in AfterTriage =>
                         <<TicketOf(m)', "RISK_DECISION_MADE">> \in audit'
    BY DEF WritesInOrder
<1>1. m \in Messages /\ TicketOf(m) \in Tickets
    BY TicketType DEF TypeInv, TypeOK, ConsumerTypeOK
<1>2. TicketOf(m)' = TicketOf(m)
    BY <1>1 DEF LogGrows
<1>3. Triaged(TicketOf(m)) => Triaged(TicketOf(m))'
    BY <1>1, <1>2 DEF RowsGrow, Triaged
<1> QED
    BY <1>2, <1>3 DEF RowsGrow, WritesInOrder, AfterAudit, AfterDecision, AfterTriage,
                      AfterResult

\* A complete ticket stays complete.
LEMMA CompleteStays ==
    ASSUME TypeInv, LogGrows, RowsGrow, NEW m \in Messages, Complete(TicketOf(m))
    PROVE  Complete(TicketOf(m))'
<1>1. TicketOf(m) \in Tickets /\ TicketOf(m)' = TicketOf(m)
    BY TicketType DEF TypeInv, LogGrows
<1> QED
    BY <1>1 DEF RowsGrow, Complete, Triaged

LEMMA PhaseOfProgress ==
    ASSUME TypeInv, LogGrows, RowsGrow, NEW w \in Workers, WritesInOrder(w), Progress(w)
    PROVE  WritesInOrder(w)'
<1> USE DEF TypeInv, TypeOK
<1>1. PICK here \in Calls, next \in Handling : At(w, here, next)
    BY DEF Progress, Check, StoreResult, AuditTriage, Decide, AuditRisk, Enqueue,
           MarkProcessed, Handling, Calls, Triaging
<1>2. PICK m \in Messages : inHand[w] = {m} /\ TicketOf(m) \in Tickets
    BY <1>1, OneInHand, TicketType DEF At, Handling
<1>3. inHand' = inHand /\ TicketOf(m)' = TicketOf(m) /\ pc'[w] = next /\ pc[w] = here
    BY <1>1, <1>2 DEF At, LogGrows, ConsumerTypeOK
<1> DEFINE t == TicketOf(m)
<1> HIDE DEF t
<1>4. SUFFICES /\ next \in AfterResult => Triaged(t)'
               /\ next \in AfterAudit => <<t, "TRIAGE_COMPLETED">> \in audit'
               /\ next \in AfterDecision => t \in decided'
               /\ next \in AfterTriage => <<t, "RISK_DECISION_MADE">> \in audit'
    BY <1>2, <1>3 DEF WritesInOrder, Triaged, t
<1>5. /\ here \in AfterResult => Triaged(t)
      /\ here \in AfterAudit => <<t, "TRIAGE_COMPLETED">> \in audit
      /\ here \in AfterDecision => t \in decided
      /\ here \in AfterTriage => <<t, "RISK_DECISION_MADE">> \in audit
    BY <1>2, <1>3 DEF WritesInOrder, Triaged, t
<1>6. t \in Tickets /\ (Triaged(t) => result'[t] # {})
    BY <1>2 DEF RowsGrow, Triaged, t
<1>0. result'[t] # {} => Triaged(t)'
  <2>1. t' = t
      BY <1>3 DEF t
  <2> QED
      BY <2>1 DEF Triaged
<1> USE DEF AfterResult, AfterAudit, AfterDecision, AfterTriage
<1>7. CASE Check(w)
    BY <1>3, <1>7 DEF Check, At, ConsumerTypeOK
<1>8. CASE StoreResult(w)
  <2>1. next = "auditTriage"
      BY <1>3, <1>8 DEF StoreResult, At, ConsumerTypeOK
  <2>2. PICK flagged \in BOOLEAN : UpsertResult(t, flagged)
      BY <1>2, <1>8 DEF StoreResult, t
  <2>3. result'[t] # {}
      BY <1>6, <2>2 DEF UpsertResult, StoreTypeOK
  <2> QED
      BY <1>0, <2>1, <2>3
<1>9. CASE AuditTriage(w)
    BY <1>2, <1>3, <1>5, <1>6, <1>9
       DEF AuditTriage, At, WriteAudit, ConsumerTypeOK, Triaged, t
<1>10. CASE Decide(w)
    BY <1>2, <1>3, <1>5, <1>6, <1>10
       DEF Decide, At, InsertDecision, ConsumerTypeOK, Triaged, t
<1>11. CASE AuditRisk(w)
    BY <1>2, <1>3, <1>5, <1>6, <1>11
       DEF AuditRisk, At, WriteAudit, ConsumerTypeOK, Triaged, t
<1>12. CASE Enqueue(w)
    BY <1>0, <1>3, <1>5, <1>6, <1>12 DEF Enqueue, At, ConsumerTypeOK
<1>13. CASE MarkProcessed(w)
    BY <1>3, <1>13 DEF MarkProcessed, At, ConsumerTypeOK
<1> QED
    BY <1>7, <1>8, <1>9, <1>10, <1>11, <1>12, <1>13 DEF Progress

\* A task goes on with its message, or is not, or no longer, among its writes, or
\* waits while something else happens.
LEMMA TaskMoves ==
    ASSUME TypeInv, [Next]_vars, NEW w \in Workers
    PROVE  \/ Progress(w)
           \/ pc'[w] \notin AfterResult
           \/ pc'[w] = pc[w] /\ inHand'[w] = inHand[w] /\ toReview'[w] = toReview[w]
<1> DEFINE Moves == \/ Progress(w)
                    \/ pc'[w] \notin AfterResult
                    \/ pc'[w] = pc[w] /\ inHand'[w] = inHand[w] /\ toReview'[w] = toReview[w]
<1>1. /\ pc \in [Workers -> {"down", "idle", "stopping", "broken"} \cup Handling]
      /\ inHand \in [Workers -> SUBSET Messages] /\ toReview \in [Workers -> BOOLEAN]
    BY DEF TypeInv, TypeOK, ConsumerTypeOK
<1>2. UNCHANGED task => Moves
    BY DEF task
<1>3. ASSUME NEW v \in Workers, Progress(v) PROVE Moves
  <2>1. CASE v # w
      BY <1>1, <1>3, <2>1 DEF Progress, Check, StoreResult, AuditTriage, Decide, AuditRisk,
                              Enqueue, MarkProcessed, At
  <2> QED
      BY <1>3, <2>1
<1>4. ASSUME NEW v \in Workers, Turns(v) PROVE Moves
    BY <1>1, <1>4
       DEF Turns, Start, Commit, CallFails, PoisonFails, CommitFails, Retry, GiveUp,
           GiveUpFails, Stop, StopTimesOut, FinishStop, StopBroken, Crash, Leave, AfterResult
<1>5. ASSUME NEW v \in Workers, NEW p \in Partitions, Fetch(v, p) \/ FetchAtShutdown(v, p)
      PROVE  Moves
    BY <1>1, <1>5 DEF Fetch, FetchAtShutdown, AfterResult
<1> QED
    BY <1>2, <1>3, <1>4, <1>5, Kinds DEF Produce, Revoke, Assign, consumer

LEMMA PhaseStep == TypeInv /\ PhaseInv /\ [Next]_vars => PhaseInv'
<1> SUFFICES ASSUME TypeInv, PhaseInv, [Next]_vars PROVE PhaseInv'
    OBVIOUS
<1>1. LogGrows /\ RowsGrow
    BY LogStep, RowsStep
<1>2. ASSUME NEW w \in Workers PROVE WritesInOrder(w)'
  <2>1. CASE Progress(w)
      BY <1>1, <2>1, PhaseOfProgress DEF PhaseInv
  <2>2. CASE pc'[w] \notin AfterResult
      BY <2>2 DEF WritesInOrder, AfterAudit, AfterDecision, AfterTriage, AfterResult
  <2>3. CASE pc'[w] = pc[w] /\ inHand'[w] = inHand[w]
      BY <1>1, <2>3, PhaseStays DEF PhaseInv
  <2>4. \/ Progress(w)
        \/ pc'[w] \notin AfterResult
        \/ pc'[w] = pc[w] /\ inHand'[w] = inHand[w]
      BY TaskMoves
  <2> QED
      BY <2>1, <2>2, <2>3, <2>4
<1>3. ASSUME NEW m \in processed', m \notin processed
      PROVE  m \in Messages /\ Complete(TicketOf(m))
  <2>1. PICK w \in Workers : MarkProcessed(w)
      BY <1>3, StoreKinds
         DEF Progress, Check, StoreResult, AuditTriage, Decide, AuditRisk, Enqueue, Resolve,
             Feedback, AuditFeedback, Override, AuditReview, store
  <2>2. m \in inHand[w] /\ pc[w] = "mark"
      BY <1>3, <2>1, OneInHand DEF MarkProcessed, At, MarkEventProcessed
  <2>3. m \in Messages
      BY <2>2 DEF TypeInv, TypeOK, ConsumerTypeOK
  <2>4. WritesInOrder(w)
      BY DEF PhaseInv
  <2> QED
      BY <2>2, <2>3, <2>4 DEF WritesInOrder, Complete, AfterResult, AfterAudit,
                              AfterDecision, AfterTriage
<1>4. \A m \in processed' : m \in Messages' /\ Complete(TicketOf(m))'
  <2> SUFFICES ASSUME NEW m \in processed' PROVE m \in Messages' /\ Complete(TicketOf(m))'
      OBVIOUS
  <2>1. m \in Messages /\ Complete(TicketOf(m))
      BY <1>3 DEF PhaseInv
  <2> QED
      BY <1>1, <2>1, CompleteStays DEF LogGrows
<1> QED
    BY <1>2, <1>4 DEF PhaseInv

LEMMA Phases == Spec => [](TypeInv /\ PhaseInv)
<1>1. TypeInv /\ PhaseInv /\ [Next]_vars => TypeInv' /\ PhaseInv'
    BY TypeStep, PhaseStep
<1> QED
    BY InitType, InitPhases, <1>1, PTL DEF Spec

-----------------------------------------------------------------------------
\* The messages in hand: they come one after the other, and a message is in two hands
\* only if the group has taken its partition from the first.

\* What lies before a message in hand has been answered for.
InOrder ==
    \A w \in Workers : \A m \in inHand[w] :
        \A o \in 1 .. m[2] - 1 : <<m[1], o>> \in Accounted

SharedIsContested ==
    \A v, w \in Workers : v # w => inHand[v] \cap inHand[w] \subseteq contested

\* What a task found unprocessed stays so until the task itself records it, unless
\* another instance has it in hand as well.
Unprocessed ==
    \A w \in Workers : pc[w] \in Triaging \cup {"mark"} =>
        inHand[w] \cap processed \subseteq contested

\* The producer's key decides the partition.
KeyInv == \A m \in Messages : m[1] = PartitionOf[TicketOf(m)]

HandInv == InOrder /\ SharedIsContested /\ Unprocessed /\ KeyInv

LEMMA InitHands == Init => HandInv
<1> SUFFICES ASSUME Init PROVE HandInv
    OBVIOUS
<1>1. Messages = {}
    BY ConsumerConstants DEF ConsumerConstants, Init, ConsumerInit, Messages
<1> QED
    BY <1>1 DEF Init, ConsumerInit, HandInv, InOrder, SharedIsContested, Unprocessed, KeyInv,
                Triaging

\* A hand is empty, keeps its message, or takes the next one.
LEMMA HandMoves ==
    ASSUME TypeInv, OffsetInv, [Next]_vars, NEW w \in Workers
    PROVE  \/ inHand'[w] \subseteq inHand[w]
           \/ \E p \in Partitions : Fetch(w, p) /\ inHand[w] = {} /\ inHand'[w] = {Ahead(w, p)}
<1> DEFINE Moves == \/ inHand'[w] \subseteq inHand[w]
                    \/ \E p \in Partitions : /\ Fetch(w, p) /\ inHand[w] = {}
                                             /\ inHand'[w] = {Ahead(w, p)}
<1>1. inHand \in [Workers -> SUBSET Messages]
    BY DEF TypeInv, TypeOK, ConsumerTypeOK
<1>2. UNCHANGED inHand => Moves
    OBVIOUS
<1>3. ASSUME NEW v \in Workers, Progress(v) \/ Turns(v) PROVE Moves
    BY <1>1, <1>3
       DEF Progress, Check, StoreResult, AuditTriage, Decide, AuditRisk, Enqueue,
           MarkProcessed, At, Turns, Start, Commit, CallFails, PoisonFails, CommitFails, Retry,
           GiveUp, GiveUpFails, Stop, StopTimesOut, FinishStop, StopBroken, Crash, Leave
<1>4. ASSUME NEW v \in Workers, NEW p \in Partitions, Fetch(v, p) PROVE Moves
  <2>1. CASE v = w
    <3>1. inHand'[w] = {Ahead(w, p)} /\ pc[w] = "idle"
        BY <1>1, <1>4, <2>1 DEF Fetch, Fetched
    <3>2. inHand[w] = {}
        BY <3>1 DEF OffsetInv, HandsEmpty, Handling, Calls, Triaging
    <3> QED
        BY <1>4, <2>1, <3>1, <3>2
  <2>2. CASE v # w
      BY <1>1, <1>4, <2>2 DEF Fetch
  <2> QED
      BY <2>1, <2>2
<1> QED
    BY <1>2, <1>3, <1>4, Kinds
       DEF Produce, Revoke, Assign, FetchAtShutdown, consumer, task

LEMMA InOrderStep ==
    ASSUME TypeInv, OffsetInv, InOrder, [Next]_vars
    PROVE  InOrder'
<1>1. Accounted \subseteq Accounted'
    BY RowsStep, HistoryStep DEF RowsGrow, HistoryGrows, Accounted
<1> SUFFICES ASSUME NEW w \in Workers, NEW m \in inHand'[w], NEW o \in 1 .. m[2] - 1
             PROVE  <<m[1], o>> \in Accounted
    BY <1>1 DEF InOrder
<1>2. CASE inHand'[w] \subseteq inHand[w]
    BY <1>2 DEF InOrder
<1>3. ASSUME NEW p \in Partitions, Fetch(w, p), inHand[w] = {}, inHand'[w] = {Ahead(w, p)}
      PROVE  <<m[1], o>> \in Accounted
  <2>1. m[1] = p /\ m[2] = position[w][p] + 1
      BY <1>3 DEF Ahead
  <2>2. owner[p] = {w} /\ pc[w] # "stopping" /\ position[w][p] < Len(log[p])
      BY <1>3 DEF Fetch, Fetched
  <2>3. o \in Nat /\ 1 <= o /\ o <= position[w][p]
      BY <2>1, OffsetTypes
  <2>4. o \in 1 .. MaxMessages /\ o <= Len(log[p])
      BY <2>2, <2>3, OffsetTypes, ConsumerConstants
         DEF ConsumerConstants, TypeInv, TopicInv
  <2>5. <<p, o>> \in UpTo(p, position[w][p])
      BY <2>3, <2>4 DEF UpTo, Messages
  <2> QED
      BY <1>3, <2>1, <2>2, <2>5 DEF OffsetInv, OwnerAnswers
<1> QED
    BY <1>2, <1>3, HandMoves

LEMMA SharedStep ==
    ASSUME TypeInv, OffsetInv, SharedIsContested, [Next]_vars
    PROVE  SharedIsContested'
<1>1. contested \subseteq contested'
    BY HistoryStep DEF HistoryGrows
<1>2. inHand \in [Workers -> SUBSET Messages]
    BY DEF TypeInv, TypeOK, ConsumerTypeOK
<1>3. \* Who takes a message out of another's hand enters it in contested.
      ASSUME NEW v \in Workers, NEW w \in Workers, v # w, NEW p \in Partitions, Fetch(w, p),
             inHand'[w] = {Ahead(w, p)}
      PROVE  inHand'[v] \cap inHand'[w] \subseteq contested'
  <2>1. inHand'[v] = inHand[v]
      BY <1>2, <1>3 DEF Fetch
  <2> QED
      BY <1>3, <2>1 DEF Fetch
<1> SUFFICES ASSUME NEW v \in Workers, NEW w \in Workers, v # w
             PROVE  inHand'[v] \cap inHand'[w] \subseteq contested'
    BY DEF SharedIsContested
<1>4. CASE inHand'[v] \subseteq inHand[v] /\ inHand'[w] \subseteq inHand[w]
    BY <1>1, <1>4 DEF SharedIsContested
<1>5. /\ \/ inHand'[v] \subseteq inHand[v]
         \/ \E p \in Partitions : Fetch(v, p) /\ inHand'[v] = {Ahead(v, p)}
      /\ \/ inHand'[w] \subseteq inHand[w]
         \/ \E p \in Partitions : Fetch(w, p) /\ inHand'[w] = {Ahead(w, p)}
    BY HandMoves
<1> QED
    BY <1>3, <1>4, <1>5

\* Only the instance that has a message in hand records it as processed.
LEMMA RecordedInHand ==
    ASSUME TypeInv, [Next]_vars, NEW m \in processed', m \notin processed
    PROVE  \E w \in Workers : MarkProcessed(w) /\ UNCHANGED review /\ inHand[w] = {m}
<1>1. PICK w \in Workers : MarkProcessed(w) /\ UNCHANGED review
    BY StoreKinds
       DEF Progress, Check, StoreResult, AuditTriage, Decide, AuditRisk, Enqueue, Resolve,
           Feedback, AuditFeedback, Override, AuditReview, store
<1>2. pc[w] \in Handling
    BY <1>1 DEF MarkProcessed, At, Handling, Calls
<1>3. PICK n \in Messages : inHand[w] = {n}
    BY <1>2, OneInHand DEF TypeInv
<1>4. processed' = processed \cup {n}
    BY <1>1, <1>3 DEF MarkProcessed, MarkEventProcessed
<1> QED
    BY <1>1, <1>3, <1>4

LEMMA UnprocessedStep ==
    ASSUME TypeInv, SharedIsContested, Unprocessed, [Next]_vars
    PROVE  Unprocessed'
<1> USE DEF TypeInv, TypeOK
<1>0. contested \subseteq contested'
    BY HistoryStep DEF HistoryGrows
<1> SUFFICES ASSUME NEW w \in Workers, pc'[w] \in Triaging \cup {"mark"},
                    NEW m \in inHand'[w], m \in processed'
             PROVE  m \in contested'
    BY DEF Unprocessed
<1>1. CASE Progress(w)
  <2>1. PICK here \in Calls, next \in Handling : At(w, here, next)
      BY <1>1 DEF Progress, Check, StoreResult, AuditTriage, Decide, AuditRisk, Enqueue,
             MarkProcessed, Handling, Calls, Triaging
  <2>2. inHand[w] = {m}
      BY <2>1, OneInHand DEF At, Handling
  <2>3. pc'[w] = next /\ pc[w] = here
      BY <2>1 DEF At, ConsumerTypeOK
  <2>4. CASE Check(w)
      BY <2>2, <2>3, <2>4 DEF Check, At, ConsumerTypeOK, store, Triaging
  <2>5. CASE MarkProcessed(w)
      BY <2>3, <2>5 DEF MarkProcessed, At, ConsumerTypeOK, Triaging
  <2>6. CASE StoreResult(w) \/ AuditTriage(w) \/ Decide(w) \/ AuditRisk(w) \/ Enqueue(w)
    <3>1. processed' = processed /\ here \in Triaging
        BY <2>3, <2>6 DEF StoreResult, AuditTriage, Decide, AuditRisk, Enqueue, At, Triaging
    <3> QED
        BY <1>0, <2>2, <2>3, <3>1 DEF Unprocessed
  <2> QED
      BY <1>1, <2>4, <2>5, <2>6 DEF Progress
<1>2. CASE pc'[w] = pc[w] /\ inHand'[w] = inHand[w]
  <2>1. CASE m \in processed
      BY <1>0, <1>2, <2>1 DEF Unprocessed
  <2>2. CASE m \notin processed
    <3>1. PICK v \in Workers : MarkProcessed(v) /\ inHand[v] = {m}
        BY <2>2, RecordedInHand
    <3>2. v # w
        BY <1>2, <3>1 DEF MarkProcessed, At, ConsumerTypeOK, Triaging
    <3> QED
        BY <1>0, <1>2, <3>1, <3>2 DEF SharedIsContested
  <2> QED
      BY <2>1, <2>2
<1>3. Progress(w) \/ (pc'[w] = pc[w] /\ inHand'[w] = inHand[w])
  <2>1. /\ pc \in [Workers -> {"down", "idle", "stopping", "broken"} \cup Handling]
        /\ inHand \in [Workers -> SUBSET Messages]
      BY DEF ConsumerTypeOK
  <2>2. ASSUME NEW v \in Workers, Progress(v), v # w
        PROVE  pc'[w] = pc[w] /\ inHand'[w] = inHand[w]
      BY <2>1, <2>2 DEF Progress, Check, StoreResult, AuditTriage, Decide, AuditRisk, Enqueue,
                        MarkProcessed, At
  <2>3. ASSUME NEW v \in Workers, Turns(v)
        PROVE  pc'[w] = pc[w] /\ inHand'[w] = inHand[w]
      BY <2>1, <2>3
         DEF Turns, Start, Commit, CallFails, PoisonFails, CommitFails, Retry, GiveUp,
             GiveUpFails, Stop, StopTimesOut, FinishStop, StopBroken, Crash, Leave, Triaging
  <2>4. ASSUME NEW v \in Workers, NEW p \in Partitions, Fetch(v, p) \/ FetchAtShutdown(v, p)
        PROVE  pc'[w] = pc[w] /\ inHand'[w] = inHand[w]
      BY <2>1, <2>4 DEF Fetch, FetchAtShutdown, Triaging
  <2> QED
      BY <2>2, <2>3, <2>4, Kinds DEF Produce, Revoke, Assign, consumer, task
<1> QED
    BY <1>1, <1>2, <1>3

LEMMA KeyStep ==
    ASSUME TypeInv, KeyInv, [Next]_vars
    PROVE  KeyInv'
<1>1. CASE log' = log
    BY <1>1 DEF KeyInv, Messages, TicketOf
<1>2. ASSUME NEW t \in Tickets, Produce(t) PROVE KeyInv'
  <2> SUFFICES ASSUME NEW m \in Messages' PROVE m[1] = PartitionOf[TicketOf(m)']
      BY DEF KeyInv
  <2>1. CASE m \in Messages
      BY <1>2, <2>1, ProduceType DEF KeyInv
  <2>2. CASE m \notin Messages
    <3>1. /\ m[1] \in Partitions /\ m[2] \in 1 .. MaxMessages
          /\ m[2] <= Len(log'[m[1]]) /\ ~(m[2] <= Len(log[m[1]]))
        BY <2>2 DEF Messages
    <3>2. PartitionOf[t] \in Partitions /\ log \in [Partitions -> Seq(Tickets)]
        BY ConsumerConstants DEF ConsumerConstants, TypeInv, TypeOK, ConsumerTypeOK
    <3>3. log' = [log EXCEPT ![PartitionOf[t]] = Append(log[PartitionOf[t]], t)]
        BY <1>2 DEF Produce
    <3>4. m[1] = PartitionOf[t]
        BY <3>1, <3>2, <3>3
    <3>5. log'[m[1]] = Append(log[m[1]], t) /\ log[m[1]] \in Seq(Tickets)
        BY <3>2, <3>3, <3>4
    <3>6. m[2] = Len(log[m[1]]) + 1
        BY <3>1, <3>5, ConsumerConstants DEF ConsumerConstants
    <3>7. log'[m[1]][m[2]] = t
        BY <3>5, <3>6
    <3> QED
        BY <3>4, <3>7 DEF TicketOf
  <2> QED
      BY <2>1, <2>2
<1>3. log' = log \/ \E t \in Tickets : Produce(t)
    BY Kinds, TurnsKeepStore
       DEF Revoke, Assign, Fetch, FetchAtShutdown, Progress, Check, StoreResult, AuditTriage,
           Decide, AuditRisk, Enqueue, MarkProcessed, At, topic, consumer
<1> QED
    BY <1>1, <1>2, <1>3

GroupInv == TypeInv /\ OffsetInv /\ HandInv

LEMMA HandStep == GroupInv /\ [Next]_vars => HandInv'
    BY InOrderStep, SharedStep, UnprocessedStep, KeyStep DEF GroupInv, HandInv

LEMMA Hands == Spec => []GroupInv
<1>1. Init => GroupInv
    BY InitType, InitOffsets, InitHands DEF GroupInv
<1>2. GroupInv /\ [Next]_vars => GroupInv'
    BY TypeStep, OffsetStep, HandStep DEF GroupInv
<1> QED
    BY <1>1, <1>2, PTL DEF Spec

\* Redelivery after a crash or a failed commit never triages again what was recorded
\* as processed, unless two instances had the message in hand at once.
THEOREM TriagedOnce == Spec => ProcessedOnce
<1>1. GroupInv /\ [Next]_vars =>
        [\A w \in Workers : pc[w] = "triage" /\ pc'[w] = "auditTriage" =>
           inHand[w] \cap processed \subseteq contested]_<<pc, processed>>
    BY DEF GroupInv, HandInv, Unprocessed, Triaging
<1> QED
    BY <1>1, Hands, PTL DEF Spec, ProcessedOnce

-----------------------------------------------------------------------------
\* Orderly shutdowns: how many messages they can skip.

\* The messages w has fetched from its partitions and nobody has answered for.
Unanswered(w) ==
    {m \in Messages : /\ owner[m[1]] = {w} /\ m[2] <= position[w][m[1]]
                      /\ m \notin Accounted}

\* The instances that have been told to stop and have not left the group.
Ending == {w \in Workers : shutdown[w] /\ pc[w] # "down"}

StopsInv ==
    /\ \A w \in Workers : pc[w] = "stopping" =>
         shutdown[w] /\ \A m, n \in Unanswered(w) : m = n
    /\ IsFiniteSet(Ending)
    /\ stops \in Nat /\ Cardinality(lost) + Cardinality(Ending) <= stops

LEMMA InitStops == Init => StopsInv
<1> SUFFICES ASSUME Init PROVE StopsInv
    OBVIOUS
<1>1. Ending = {} /\ lost = {} /\ stops = 0 /\ \A w \in Workers : pc[w] = "down"
    BY DEF Init, ConsumerInit, Ending
<1> QED
    BY <1>1, FS_EmptySet DEF StopsInv

\* A task that has not been ended has one message to answer for, the one in its hand.
LEMMA OneUnanswered ==
    ASSUME TypeInv, OffsetInv, NEW w \in Workers, pc[w] # "stopping"
    PROVE  Unanswered(w) \subseteq inHand[w] /\ \A m, n \in inHand[w] : m = n
<1>1. ASSUME NEW m \in Unanswered(w) PROVE m \in inHand[w]
  <2>1. m \in UpTo(m[1], position[w][m[1]]) /\ owner[m[1]] = {w} /\ m \notin Accounted
      BY DEF Unanswered, UpTo
  <2>2. m[1] \in Partitions
      BY DEF Unanswered, Messages
  <2> QED
      BY <2>1, <2>2 DEF OffsetInv, OwnerAnswers
<1>2. CASE pc[w] \in Handling
    BY <1>1, <1>2, OneInHand DEF TypeInv
<1>3. CASE pc[w] \notin Handling
    BY <1>1, <1>3 DEF OffsetInv, HandsEmpty
<1> QED
    BY <1>2, <1>3

LEMMA MessageParts ==
    ASSUME NEW m \in Messages
    PROVE  m[1] \in Partitions /\ m = <<m[1], m[2]>>
    BY DEF Messages

\* While a task waits to be ended, its debts do not grow: only the coordinator can
\* move its position, to an offset that is committed.
LEMMA UnansweredShrinks ==
    ASSUME TypeInv, OffsetInv, [Next]_vars, NEW w \in Workers,
           pc[w] = "stopping", pc'[w] = "stopping"
    PROVE  Unanswered(w)' \subseteq Unanswered(w)
<1> SUFFICES ASSUME NEW m \in Messages', owner'[m[1]] = {w}, m[2] <= position'[w][m[1]],
                    m \notin Accounted'
             PROVE  m \in Unanswered(w)
    BY DEF Unanswered
<1>1. Accounted \subseteq Accounted'
    BY RowsStep, HistoryStep DEF RowsGrow, HistoryGrows, Accounted
<1>2. /\ pc \in [Workers -> {"down", "idle", "stopping", "broken"} \cup Handling]
      /\ position \in [Workers -> [Partitions -> 0 .. MaxMessages]]
      /\ owner \in [Partitions -> SUBSET Workers]
    BY DEF TypeInv, TypeOK, ConsumerTypeOK
<1>3. m[1] \in Partitions
    BY DEF Messages
<1>4. \/ owner[m[1]] = {w} /\ position'[w] = position[w]
      \/ \E p \in Partitions : /\ Assign(w, p)
                               /\ m[1] # p => owner[m[1]] = {w}
  <2>1. CASE UNCHANGED group
      BY <2>1 DEF group
  <2>2. ASSUME NEW p \in Partitions, Revoke(p) PROVE owner[m[1]] = {w} /\ position'[w] = position[w]
    <3>1. owner'[m[1]] = owner[m[1]]
        BY <1>2, <1>3, <2>2 DEF Revoke
    <3> QED
        BY <2>2, <3>1 DEF Revoke
  <2>3. ASSUME NEW p \in Partitions, NEW v \in Workers, Assign(v, p), v # w
        PROVE  owner[m[1]] = {w} /\ position'[w] = position[w]
      BY <1>2, <1>3, <2>3 DEF Assign
  <2>4. ASSUME NEW p \in Partitions, Assign(w, p)
        PROVE  m[1] # p => owner[m[1]] = {w}
      BY <1>2, <1>3, <2>4 DEF Assign
  <2>5. ASSUME NEW p \in Partitions, NEW v \in Workers, Fetch(v, p) \/ FetchAtShutdown(v, p)
        PROVE  owner[m[1]] = {w} /\ position'[w] = position[w]
    <3>1. v # w
        BY <2>5 DEF Fetch, FetchAtShutdown, Fetched
    <3> QED
        BY <1>2, <2>5, <3>1 DEF Fetch, FetchAtShutdown, Fetched
  <2>6. ASSUME NEW v \in Workers, Turns(v), ~UNCHANGED group
        PROVE  owner[m[1]] = {w} /\ position'[w] = position[w]
    <3>1. Leave(v) /\ position' = position
        BY <2>6 DEF Turns, Start, Commit, CallFails, PoisonFails, CommitFails, Retry, GiveUp,
                    GiveUpFails, Stop, StopTimesOut, FinishStop, StopBroken, Crash, Leave, group
    <3>2. owner'[m[1]] \subseteq owner[m[1]]
        BY <1>2, <1>3, <3>1 DEF Leave
    <3>3. owner[m[1]] = {w}
        BY <1>3, <3>2 DEF OffsetInv, SoleOwner
    <3> QED
        BY <3>1, <3>3
  <2> QED
      BY <2>1, <2>2, <2>3, <2>4, <2>5, <2>6, Kinds
         DEF Produce, Progress, Check, StoreResult, AuditTriage, Decide, AuditRisk, Enqueue,
             MarkProcessed, At, consumer
<1>5. CASE owner[m[1]] = {w} /\ position'[w] = position[w]
  <2>1. m \in Messages
    <3>1. position[w][m[1]] <= Len(log[m[1]])
        BY <1>3 DEF OffsetInv, InTheLog
    <3>2. m \in Partitions \X (1 .. MaxMessages)
        BY DEF Messages
    <3>3. m[2] \in Nat
        BY <3>2, ConsumerConstants DEF ConsumerConstants
    <3>4. m[2] <= Len(log[m[1]])
        BY <1>3, <1>5, <3>1, <3>3, OffsetTypes
    <3> QED
        BY <3>2, <3>4 DEF Messages
  <2> QED
      BY <1>1, <1>5, <2>1 DEF Unanswered
<1>6. ASSUME NEW p \in Partitions, Assign(w, p), m[1] # p => owner[m[1]] = {w}
      PROVE  m \in Unanswered(w)
  <2>1. Messages' = Messages
      BY <1>6 DEF Assign, topic, Messages
  <2>2. CASE m[1] = p
    <3>1. position'[w][p] = committed[p]
        BY <1>2, <1>6 DEF Assign
    <3>2. m \in Accounted
        BY <2>1, <2>2, <3>1 DEF OffsetInv, CommittedIsAccounted
    <3> QED
        BY <1>1, <3>2
  <2>3. CASE m[1] # p
    <3>1. position'[w][m[1]] = position[w][m[1]]
        BY <1>2, <1>3, <1>6, <2>3 DEF Assign
    <3> QED
        BY <1>1, <1>6, <2>1, <2>3, <3>1 DEF Unanswered
  <2> QED
      BY <2>2, <2>3
<1> QED
    BY <1>4, <1>5, <1>6

\* A task is ended with the message in its hand, or with the one that woke it.
LEMMA OneWhenEnded ==
    ASSUME TypeInv, OffsetInv, [Next]_vars, NEW w \in Workers,
           pc[w] # "stopping", pc'[w] = "stopping"
    PROVE  shutdown'[w] /\ \A m, n \in Unanswered(w)' : m = n
<1>1. /\ pc \in [Workers -> {"down", "idle", "stopping", "broken"} \cup Handling]
      /\ position \in [Workers -> [Partitions -> 0 .. MaxMessages]]
    BY DEF TypeInv, TypeOK, ConsumerTypeOK
<1>2. StopTimesOut(w) \/ \E p \in Partitions : FetchAtShutdown(w, p)
  <2>1. ASSUME NEW v \in Workers, Progress(v) PROVE FALSE
      BY <1>1, <2>1 DEF Progress, Check, StoreResult, AuditTriage, Decide, AuditRisk, Enqueue,
                        MarkProcessed, At
  <2>2. ASSUME NEW v \in Workers, Turns(v) PROVE StopTimesOut(w)
      BY <1>1, <2>2 DEF Turns, Start, Commit, CallFails, PoisonFails, CommitFails, Retry, GiveUp,
                        GiveUpFails, Stop, StopTimesOut, FinishStop, StopBroken, Crash, Leave
  <2>3. ASSUME NEW v \in Workers, NEW p \in Partitions, Fetch(v, p) PROVE FALSE
      BY <1>1, <2>3 DEF Fetch
  <2>4. ASSUME NEW v \in Workers, NEW p \in Partitions, FetchAtShutdown(v, p)
        PROVE  FetchAtShutdown(w, p)
      BY <1>1, <2>4 DEF FetchAtShutdown
  <2> QED
      BY <2>1, <2>2, <2>3, <2>4, Kinds DEF Produce, Revoke, Assign, consumer, task
<1>3. Unanswered(w) \subseteq inHand[w] /\ \A m, n \in inHand[w] : m = n
    BY OneUnanswered
<1>4. CASE StopTimesOut(w)
  <2>1. Unanswered(w)' = Unanswered(w) /\ shutdown'[w]
      BY <1>4 DEF StopTimesOut, Unanswered, Messages, Accounted, store, topic, group, history
  <2> QED
      BY <1>3, <2>1
<1>5. ASSUME NEW p \in Partitions, FetchAtShutdown(w, p)
      PROVE  shutdown'[w] /\ \A m, n \in Unanswered(w)' : m = n
  <2>1. shutdown'[w] /\ inHand[w] = {} /\ Messages' = Messages /\ Accounted' = Accounted
      BY <1>5 DEF FetchAtShutdown, Fetched, Messages, Accounted, store, topic, history,
                  OffsetInv, HandsEmpty, Handling, Calls, Triaging
  <2>2. Unanswered(w)' \subseteq {Ahead(w, p)}
    <3> SUFFICES ASSUME NEW m \in Messages, owner[m[1]] = {w}, m[2] <= position'[w][m[1]],
                        m \notin Accounted
                 PROVE  m = Ahead(w, p)
        BY <1>5, <2>1 DEF Unanswered, FetchAtShutdown
    <3>1. m[1] \in Partitions /\ m = <<m[1], m[2]>>
        BY MessageParts
    <3>2. ~(m[2] <= position[w][m[1]])
        BY <1>3, <2>1 DEF Unanswered
    <3>3. m[1] = p
        BY <1>1, <1>5, <3>1, <3>2 DEF FetchAtShutdown, Fetched
    <3>4. position'[w][p] = position[w][p] + 1
        BY <1>1, <1>5 DEF FetchAtShutdown, Fetched
    <3>5. m[2] = position[w][p] + 1
        BY <3>2, <3>3, <3>4, OffsetTypes
    <3> QED
        BY <3>1, <3>3, <3>5 DEF Ahead
  <2> QED
      BY <2>1, <2>2
<1> QED
    BY <1>2, <1>4, <1>5

\* Only stop() adds to lost, and no more than the one message of the task it has ended.
LEMMA OneIsLost ==
    ASSUME TypeInv, OffsetInv, StopsInv, NEW w \in Workers, FinishStop(w)
    PROVE  \/ lost' = lost
           \/ \E m \in Messages : lost' = lost \cup {m} /\ m \notin lost
<1> DEFINE Skipped == {m \in Messages : /\ committed[m[1]] < m[2]
                                        /\ m[2] <= committed'[m[1]]
                                        /\ m \notin processed \cup dead}
<1>1. lost' = lost \cup Skipped
    BY DEF FinishStop
<1>2. Skipped \subseteq lost \cup Unanswered(w)
  <2> SUFFICES ASSUME NEW m \in Messages, committed[m[1]] < m[2], m[2] <= committed'[m[1]],
                      m \notin processed \cup dead, m \notin lost
               PROVE  m \in Unanswered(w)
      OBVIOUS
  <2>1. m[1] \in Partitions
      BY MessageParts
  <2>2. committed'[m[1]] = IF owner[m[1]] = {w} THEN position[w][m[1]] ELSE committed[m[1]]
      BY <2>1 DEF FinishStop, CommitPositions
  <2>3. owner[m[1]] = {w}
      BY <2>1, <2>2, OffsetTypes
  <2> QED
      BY <2>2, <2>3 DEF Unanswered, Accounted
<1>3. \A m, n \in Unanswered(w) : m = n
    BY DEF StopsInv, FinishStop
<1> HIDE DEF Skipped
<1>4. CASE Skipped \subseteq lost
    BY <1>1, <1>4
<1>5. CASE ~(Skipped \subseteq lost)
  <2>1. PICK m \in Skipped : m \notin lost
      BY <1>5
  <2>2. m \in Unanswered(w)
      BY <1>2, <2>1
  <2>3. lost' = lost \cup {m} /\ m \in Messages
      BY <1>1, <1>2, <1>3, <2>1, <2>2 DEF Unanswered
  <2> QED
      BY <2>1, <2>3
<1> QED
    BY <1>4, <1>5

\* Who enters or leaves Ending, and the one step that adds to lost.
LEMMA EndingMoves ==
    ASSUME TypeInv, [Next]_vars
    PROVE  \/ UNCHANGED <<stops, lost>> /\ Ending' = Ending
           \/ \E w \in Workers : /\ stops' = stops + 1 /\ UNCHANGED lost
                                 /\ w \notin Ending /\ Ending' = Ending \cup {w}
           \/ \E w \in Workers : /\ UNCHANGED <<stops, lost>>
                                 /\ Ending' = Ending \ {w}
           \/ \E w \in Workers : /\ FinishStop(w) /\ stops' = stops
                                 /\ Ending' = Ending \ {w}
<1> DEFINE Moves ==
             \/ UNCHANGED <<stops, lost>> /\ Ending' = Ending
             \/ \E w \in Workers : /\ stops' = stops + 1 /\ UNCHANGED lost
                                   /\ w \notin Ending /\ Ending' = Ending \cup {w}
             \/ \E w \in Workers : UNCHANGED <<stops, lost>> /\ Ending' = Ending \ {w}
             \/ \E w \in Workers : FinishStop(w) /\ stops' = stops /\ Ending' = Ending \ {w}
<1>1. /\ pc \in [Workers -> {"down", "idle", "stopping", "broken"} \cup Handling]
      /\ shutdown \in [Workers -> BOOLEAN]
    BY DEF TypeInv, TypeOK, ConsumerTypeOK
<1>2. ASSUME UNCHANGED <<stops, lost, shutdown>>,
             \A v \in Workers : pc'[v] = "down" <=> pc[v] = "down"
      PROVE  Moves
    BY <1>2 DEF Ending
<1>3. UNCHANGED <<stops, lost, shutdown, pc>> => Moves
    BY <1>2
<1>4. ASSUME NEW p \in Partitions, NEW w \in Workers, Fetch(w, p) \/ FetchAtShutdown(w, p)
      PROVE  Moves
    BY <1>1, <1>2, <1>4 DEF Fetch, FetchAtShutdown, Fetched, history
<1>5. ASSUME NEW w \in Workers, Progress(w) PROVE Moves
  <2>1. PICK here \in Calls, next \in Handling : At(w, here, next)
      BY <1>5 DEF Progress, Check, StoreResult, AuditTriage, Decide, AuditRisk, Enqueue,
             MarkProcessed, Handling, Calls, Triaging
  <2> QED
      BY <1>1, <1>2, <2>1 DEF At, history, Handling, Calls, Triaging
<1>6. ASSUME NEW w \in Workers, Turns(w) PROVE Moves
  <2>1. CASE Start(w)
    <3>1. UNCHANGED <<stops, lost>> /\ Ending' = Ending
        BY <1>1, <2>1 DEF Start, history, Ending
    <3> QED
        BY <3>1
  <2>2. CASE CallFails(w) \/ PoisonFails(w) \/ CommitFails(w)
      BY <1>1, <1>2, <2>2 DEF CallFails, PoisonFails, CommitFails, Retry, history, Calls, Triaging
  <2>3. CASE Commit(w) \/ GiveUp(w) \/ GiveUpFails(w) \/ StopTimesOut(w)
      BY <1>1, <1>2, <2>3 DEF Commit, GiveUp, GiveUpFails, StopTimesOut, history, Running,
                              Handling, Calls, Triaging
  <2>4. CASE Stop(w)
    <3>1. stops' = stops + 1 /\ UNCHANGED lost /\ w \notin Ending /\ Ending' = Ending \cup {w}
        BY <1>1, <2>4 DEF Stop, history, Ending
    <3> QED
        BY <3>1
  <2>5. CASE FinishStop(w) \/ StopBroken(w) \/ Crash(w)
    <3>1. Ending' = Ending \ {w} /\ stops' = stops
        BY <1>1, <2>5 DEF FinishStop, StopBroken, Crash, Leave, Ending
    <3>2. FinishStop(w) \/ lost' = lost
        BY <2>5 DEF StopBroken, Crash, history
    <3> QED
        BY <3>1, <3>2
  <2> QED
      BY <1>6, <2>1, <2>2, <2>3, <2>4, <2>5 DEF Turns
<1> QED
    BY <1>3, <1>4, <1>5, <1>6, Kinds
       DEF Produce, Revoke, Assign, consumer, task, history

LEMMA StopsStep ==
    ASSUME TypeInv, OffsetInv, StopsInv, [Next]_vars
    PROVE  StopsInv'
<1>1. ASSUME NEW w \in Workers, pc'[w] = "stopping"
      PROVE  shutdown'[w] /\ \A m, n \in Unanswered(w)' : m = n
  <2>1. CASE pc[w] # "stopping"
      BY <1>1, <2>1, OneWhenEnded
  <2>2. CASE pc[w] = "stopping"
    <3>1. Unanswered(w)' \subseteq Unanswered(w)
        BY <1>1, <2>2, UnansweredShrinks
    <3>2. shutdown'[w] = shutdown[w]
      <4>1. ASSUME NEW v \in Workers, Progress(v) PROVE shutdown' = shutdown
          BY <4>1 DEF Progress, Check, StoreResult, AuditTriage, Decide, AuditRisk, Enqueue,
                      MarkProcessed, At
      <4>2. ASSUME NEW v \in Workers, Turns(v) PROVE shutdown'[w] = shutdown[w]
          BY <2>2, <4>2 DEF Turns, Start, Commit, CallFails, PoisonFails, CommitFails, Retry,
                            GiveUp, GiveUpFails, Stop, StopTimesOut, FinishStop, StopBroken,
                            Crash, Leave, TypeInv, TypeOK, ConsumerTypeOK, StopsInv
      <4> QED
          BY <4>1, <4>2, Kinds DEF Produce, Revoke, Assign, Fetch, FetchAtShutdown, consumer, task
    <3> QED
        BY <2>2, <3>1, <3>2 DEF StopsInv
  <2> QED
      BY <2>1, <2>2
<1>2. lost \subseteq Messages /\ IsFiniteSet(lost) /\ Cardinality(lost) \in Nat
    BY MessagesFinite, FS_Subset, FS_CardinalityType DEF TypeInv, TypeOK, ConsumerTypeOK
<1>3. IsFiniteSet(Ending) /\ Cardinality(Ending) \in Nat
    BY FS_CardinalityType DEF StopsInv
<1> DEFINE Counted == /\ IsFiniteSet(Ending') /\ stops' \in Nat
                      /\ Cardinality(lost') + Cardinality(Ending') <= stops'
<1>4. ASSUME UNCHANGED <<stops, lost>>, Ending' = Ending PROVE Counted
  <2>1. stops' = stops /\ lost' = lost /\ Ending' = Ending
      BY <1>4
  <2> QED
      BY <1>3, <2>1 DEF StopsInv
<1>5. ASSUME NEW w \in Workers, stops' = stops + 1, UNCHANGED lost,
             w \notin Ending, Ending' = Ending \cup {w}
      PROVE  Counted
  <2>1. IsFiniteSet(Ending') /\ Cardinality(Ending') = Cardinality(Ending) + 1
      BY <1>3, <1>5, FS_AddElement
  <2> QED
      BY <1>2, <1>3, <1>5, <2>1 DEF StopsInv
<1>6. ASSUME NEW w \in Workers, Ending' = Ending \ {w}, stops' = stops,
             lost' = lost \/ FinishStop(w)
      PROVE  Counted
  <2>1. /\ IsFiniteSet(Ending')
        /\ Cardinality(Ending') = IF w \in Ending THEN Cardinality(Ending) - 1
                                                  ELSE Cardinality(Ending)
      BY <1>3, <1>6, FS_RemoveElement
  <2>2. CASE lost' = lost
      BY <1>2, <1>3, <1>6, <2>1, <2>2 DEF StopsInv
  <2>3. ASSUME NEW m \in Messages, lost' = lost \cup {m}, m \notin lost, FinishStop(w)
        PROVE  Counted
    <3>1. Cardinality(lost') = Cardinality(lost) + 1
        BY <1>2, <2>3, FS_AddElement
    <3>2. w \in Ending
        BY <2>3 DEF StopsInv, FinishStop, Ending
    <3> QED
        BY <1>2, <1>3, <1>6, <2>1, <3>1, <3>2 DEF StopsInv
  <2> QED
      BY <1>6, <2>2, <2>3, OneIsLost
<1> HIDE DEF Counted
<1>7. Counted
  <2>1. CASE \E w \in Workers : /\ stops' = stops + 1 /\ UNCHANGED lost
                                /\ w \notin Ending /\ Ending' = Ending \cup {w}
      BY <1>5, <2>1
  <2>2. CASE \E w \in Workers : UNCHANGED <<stops, lost>> /\ Ending' = Ending \ {w}
      BY <1>6, <2>2
  <2>3. CASE \E w \in Workers : FinishStop(w) /\ stops' = stops /\ Ending' = Ending \ {w}
      BY <1>6, <2>3
  <2>4. CASE UNCHANGED <<stops, lost>> /\ Ending' = Ending
      BY <1>4, <2>4
  <2> QED
      BY <2>1, <2>2, <2>3, <2>4, EndingMoves
<1> QED
    BY <1>1, <1>7 DEF StopsInv, Counted

LEMMA Shutdowns == Spec => [](TypeInv /\ OffsetInv /\ StopsInv)
<1>1. Init => TypeInv /\ OffsetInv /\ StopsInv
    BY InitType, InitOffsets, InitStops
<1>2. TypeInv /\ OffsetInv /\ StopsInv /\ [Next]_vars => (TypeInv /\ OffsetInv /\ StopsInv)'
    BY TypeStep, OffsetStep, StopsStep
<1> QED
    BY <1>1, <1>2, PTL DEF Spec
=============================================================================
