---------------------------- MODULE TriageStore -----------------------------
(***************************************************************************)
(* The tables the triage service writes, with one operator per repository  *)
(* statement.  Every statement is a transaction of its own (the pool runs  *)
(* in autocommit), so what looks like one operation in a service is a      *)
(* series of these, with other actors in between.                          *)
(***************************************************************************)
EXTENDS Integers, Sequences, FiniteSets

CONSTANTS
    Tickets,   \* tickets of the ingestion service
    Reviewers  \* people who decide reviews; "MODEL" writes predictions

VARIABLES
    result,    \* triage_results: per ticket {} or one [by, flagged]
    reviews,   \* human_review_queue: rows in order of review_id
    audit,     \* audit_logs: the (ticket, action) pairs it holds
    decided,   \* risk_decisions: the tickets with a row
    corrected, \* feedback_corrections: (ticket, review_id), review 0 if none
    processed  \* processed_events: the (partition, offset) keys of the group

store == <<result, reviews, audit, decided, corrected, processed>>

AuditActions ==
    {"TRIAGE_COMPLETED", "RISK_DECISION_MADE", "FEEDBACK_CAPTURED",
     "HUMAN_REVIEW_RESOLVED"}

\* by: who wrote the current category, priority, risk and team.
\* flagged: requires_human_review.
Result == [by : Reviewers \cup {"MODEL"}, flagged : BOOLEAN]

\* reviewer: "NOBODY" while the review is PENDING.
Review == [ticket : Tickets, status : {"PENDING", "RESOLVED"},
           reviewer : Reviewers \cup {"NOBODY"}]

StoreTypeOK ==
    /\ result \in [Tickets -> SUBSET Result]
    /\ \A t \in Tickets : Cardinality(result[t]) <= 1
    /\ reviews \in Seq(Review)
    /\ audit \subseteq Tickets \X AuditActions
    /\ decided \subseteq Tickets
    /\ corrected \subseteq Tickets \X (0 .. Len(reviews))
    /\ processed \subseteq Nat \X Nat

StoreInit ==
    /\ result = [t \in Tickets |-> {}]
    /\ reviews = <<>>
    /\ audit = {}
    /\ decided = {}
    /\ corrected = {}
    /\ processed = {}

-----------------------------------------------------------------------------
Triaged(t) == result[t] # {}

Flagged(t) == \E row \in result[t] : row.flagged

PendingReviews == {id \in DOMAIN reviews : reviews[id].status = "PENDING"}

PendingFor(t) == {id \in PendingReviews : reviews[id].ticket = t}

\* t was put before a reviewer, who may have decided it by now.
Queued(t) == \E id \in DOMAIN reviews : reviews[id].ticket = t

\* TriageResultRepository.create: insert, or overwrite the ticket's row.
UpsertResult(t, flagged) ==
    result' = [result EXCEPT ![t] = {[by |-> "MODEL", flagged |-> flagged]}]

\* TriageResultRepository.apply_override.
ApplyOverride(t, reviewer) ==
    result' = [result EXCEPT ![t] = {[by |-> reviewer, flagged |-> FALSE]}]

\* HumanReviewRepository.enqueue: a pending review of the ticket is refreshed,
\* otherwise a new one is queued.
EnqueueReview(t) ==
    reviews' = IF PendingFor(t) # {} THEN reviews
               ELSE Append(reviews, [ticket |-> t, status |-> "PENDING",
                                     reviewer |-> "NOBODY"])

\* Variant: resolve without "and status = 'PENDING'".
ResolveAnyReview(id, reviewer) ==
    /\ id \in DOMAIN reviews
    /\ reviews' = [reviews EXCEPT ![id].status = "RESOLVED", ![id].reviewer = reviewer]

\* HumanReviewRepository.resolve: the update is conditional on PENDING.
ResolveReview(id, reviewer) ==
    /\ id \in PendingReviews
    /\ reviews' = [reviews EXCEPT ![id].status = "RESOLVED", ![id].reviewer = reviewer]

\* AuditLogRepository.create.
WriteAudit(t, action) == audit' = audit \cup {<<t, action>>}

\* FeedbackRepository.create; review 0 stands for feedback without a review.
InsertFeedback(t, id) == corrected' = corrected \cup {<<t, id>>}

\* RiskDecisionRepository.create.
InsertDecision(t) == decided' = decided \cup {t}

\* ProcessedEventRepository.mark_processed: on conflict do nothing.
MarkEventProcessed(message) == processed' = processed \cup {message}
=============================================================================
