----------------------------- MODULE ReviewDesk -----------------------------
(***************************************************************************)
(* HumanReviewService.decide and FeedbackService, as run by the requests   *)
(* of reviewers: POST /reviews/{id}/decision and POST                      *)
(* /tickets/{id}/feedback.  A decision reads the queue, resolves the       *)
(* review with a conditional update and then makes four more writes, each  *)
(* committed on its own; a request can end after any of them.              *)
(***************************************************************************)
EXTENDS TriageStore

CONSTANT MaxAborts \* bound: requests that end early

VARIABLES
    desk,      \* per reviewer: the await its request is at
    work,      \* per reviewer: {} or the <<ticket, review_id>> of the request
    abandoned, \* the <<ticket, review_id>> whose decision was cut short
    aborts

review == <<desk, work, abandoned, aborts>>

\* The awaits behind the conditional update.
Committed == {"feedback", "feedbackAudit", "override", "reviewAudit"}

DeskTypeOK ==
    /\ desk \in [Reviewers -> {"free", "resolve", "manual"} \cup Committed]
    /\ work \in [Reviewers -> SUBSET (Tickets \X (0 .. Len(reviews)))]
    /\ \A r \in Reviewers : (desk[r] = "free" <=> work[r] = {})
    /\ abandoned \subseteq Tickets \X (0 .. Len(reviews))

DeskInit ==
    /\ desk = [r \in Reviewers |-> "free"]
    /\ work = [r \in Reviewers |-> {}]
    /\ abandoned = {}
    /\ aborts = 0

\* Reviewer r is past the conditional update for this ticket and review.
Finishing(r, item) == desk[r] \in Committed /\ item \in work[r]

\* list_pending and get_by_id: the review is PENDING when it is read.
OpenReview(r, id) ==
    /\ desk[r] = "free"
    /\ id \in PendingReviews
    /\ desk' = [desk EXCEPT ![r] = "resolve"]
    /\ work' = [work EXCEPT ![r] = {<<reviews[id].ticket, id>>}]
    /\ UNCHANGED <<store, abandoned, aborts>>

\* POST feedback on a ticket with a triage result.
OpenFeedback(r, t) ==
    /\ desk[r] = "free"
    /\ Triaged(t)
    /\ desk' = [desk EXCEPT ![r] = "manual"]
    /\ work' = [work EXCEPT ![r] = {<<t, 0>>}]
    /\ UNCHANGED <<store, abandoned, aborts>>

Turn(r, here, next) ==
    /\ desk[r] = here
    /\ desk' = [desk EXCEPT ![r] = next]
    /\ UNCHANGED <<work, abandoned, aborts>>

\* Variant: the request ends and keeps its review.
CloseKeepingWork(r) ==
    /\ desk' = [desk EXCEPT ![r] = "free"]
    /\ UNCHANGED work

\* The request is answered.
Close(r) ==
    /\ desk' = [desk EXCEPT ![r] = "free"]
    /\ work' = [work EXCEPT ![r] = {}]

Resolve(r) ==
    /\ Turn(r, "resolve", "feedback")
    /\ \E item \in work[r] : ResolveReview(item[2], r)
    /\ UNCHANGED <<result, audit, decided, corrected, processed>>

\* Somebody else resolved it first: the update returns no row, 404.
ResolveTooLate(r) ==
    /\ desk[r] = "resolve"
    /\ \A item \in work[r] : item[2] \notin PendingReviews
    /\ Close(r)
    /\ UNCHANGED <<store, abandoned, aborts>>

\* create_for_result, called by decide and by create_for_ticket.
Feedback(r) ==
    /\ Turn(r, "feedback", "feedbackAudit") \/ Turn(r, "manual", "feedbackAudit")
    /\ \E item \in work[r] : InsertFeedback(item[1], item[2])
    /\ UNCHANGED <<result, reviews, audit, decided, processed>>

\* Variant: feedback given in a review ends the request as manual feedback does.
AuditFeedbackAndClose(r) ==
    /\ desk[r] = "feedbackAudit"
    /\ \E item \in work[r] : WriteAudit(item[1], "FEEDBACK_CAPTURED")
    /\ Close(r)
    /\ UNCHANGED <<result, reviews, decided, corrected, processed, abandoned, aborts>>

AuditFeedback(r) ==
    /\ desk[r] = "feedbackAudit"
    /\ \E item \in work[r] :
         /\ WriteAudit(item[1], "FEEDBACK_CAPTURED")
         /\ IF item[2] = 0
            THEN Close(r)
            ELSE desk' = [desk EXCEPT ![r] = "override"] /\ UNCHANGED work
    /\ UNCHANGED <<result, reviews, decided, corrected, processed, abandoned, aborts>>

Override(r) ==
    /\ Turn(r, "override", "reviewAudit")
    /\ \E item \in work[r] : ApplyOverride(item[1], r)
    /\ UNCHANGED <<reviews, audit, decided, corrected, processed>>

AuditReview(r) ==
    /\ desk[r] = "reviewAudit"
    /\ \E item \in work[r] : WriteAudit(item[1], "HUMAN_REVIEW_RESOLVED")
    /\ Close(r)
    /\ UNCHANGED <<result, reviews, decided, corrected, processed, abandoned, aborts>>

\* The request fails, or the process dies, between two writes.
Abort(r) ==
    /\ desk[r] # "free"
    /\ aborts < MaxAborts
    /\ aborts' = aborts + 1
    /\ abandoned' = IF desk[r] \in Committed THEN abandoned \cup work[r] ELSE abandoned
    /\ Close(r)
    /\ UNCHANGED store

Decision(r) ==
    \/ Resolve(r) \/ ResolveTooLate(r) \/ Feedback(r) \/ AuditFeedback(r)
    \/ Override(r) \/ AuditReview(r)

DeskNext ==
    \E r \in Reviewers :
        \/ \E id \in DOMAIN reviews : OpenReview(r, id)
        \/ \E t \in Tickets : OpenFeedback(r, t)
        \/ Decision(r) \/ Abort(r)

-----------------------------------------------------------------------------
\* Properties of the desk by itself.

\* The conditional update lets one request through: two reviewers who opened
\* the same review never both write its feedback and its override.
OneDeciderPerReview ==
    \A r, s \in Reviewers : \A item \in work[r] \cap work[s] :
        r # s /\ item[2] # 0 => ~(Finishing(r, item) /\ Finishing(s, item))

\* "Human review decisions create feedback correction rows": unless the request
\* of the reviewer was cut short, a resolved review has its feedback, and the
\* audit log both its entries, once the request is done.
DecisionsLeaveTrail ==
    \A id \in DOMAIN reviews :
        LET item == <<reviews[id].ticket, id>>
        IN  reviews[id].status = "RESOLVED" =>
              \/ item \in abandoned
              \/ \E r \in Reviewers : Finishing(r, item)
              \/ /\ item \in corrected
                 /\ {"FEEDBACK_CAPTURED", "HUMAN_REVIEW_RESOLVED"}
                      \subseteq {a \in AuditActions : <<item[1], a>> \in audit}
=============================================================================
