-------------------------- MODULE TriageSystemProofs --------------------------
(***************************************************************************)
(* Review requests against the consumers: who may decide a review, what a  *)
(* decision leaves in the tables, and that no ticket falls between triage, *)
(* the audit log and the review queue.                                     *)
(***************************************************************************)
EXTENDS TriageConsumerProofs

\* The request of r, and what the tables say about the review it works on.
RequestInv(r) ==
    \A item \in work[r] :
        /\ work[r] = {item} /\ Triaged(item[1])
        /\ desk[r] = "manual" => item[2] = 0
        /\ desk[r] \in {"resolve", "override", "reviewAudit"} => item[2] # 0
        /\ item[2] # 0 =>
             /\ item[2] \in DOMAIN reviews /\ reviews[item[2]].ticket = item[1]
             /\ desk[r] \in Committed =>
                  reviews[item[2]] = [ticket |-> item[1], status |-> "RESOLVED", reviewer |-> r]
        /\ desk[r] \in Committed \ {"feedback"} => item \in corrected
        /\ desk[r] \in {"override", "reviewAudit"} =>
             <<item[1], "FEEDBACK_CAPTURED">> \in audit

ReviewedIsTriaged == \A id \in DOMAIN reviews : Triaged(reviews[id].ticket)

DeskInv ==
    /\ \A r \in Reviewers : RequestInv(r)
    /\ ReviewedIsTriaged /\ OverrideIsByReviewer /\ DecisionsLeaveTrail

AuditedInv ==
    \A t \in Tickets : Triaged(t) =>
        <<t, "TRIAGE_COMPLETED">> \in audit \/ CutOff(t) \/ Owes(t)

\* A reviewer has resolved a review of t and not yet overridden the result.
Overriding(t) ==
    \E r \in Reviewers : \E item \in work[r] :
        desk[r] \in Committed \ {"reviewAudit"} /\ item[1] = t /\ item[2] # 0

Tracked(t) ==
    PendingFor(t) # {} \/ Overriding(t) \/ CutOff(t) \/ GivenUp(t) \/ Contested(t)

\* What toReview says of the result, and what the review queue holds by the time the
\* message is recorded, while no other instance is at work on the ticket.
FlagInv ==
    \A w \in Workers : \A m \in inHand[w] :
        /\ pc[w] \in {"auditTriage", "decide", "auditRisk"} /\ ~toReview[w] =>
             ~Flagged(TicketOf(m)) \/ CutOff(TicketOf(m)) \/ Contested(TicketOf(m))
        /\ pc[w] = "mark" /\ Flagged(TicketOf(m)) => Tracked(TicketOf(m))

TrackInv ==
    /\ FlagInv
    /\ \A t \in Tickets : Flagged(t) => Tracked(t) \/ Owes(t)

\* A decision that was abandoned was the decision of a review in the queue.
AbandonedInv ==
    \A item \in abandoned : item[2] # 0 =>
        item[2] \in DOMAIN reviews /\ reviews[item[2]].ticket = item[1]

-----------------------------------------------------------------------------
LEMMA RowsAndReviewsGrow ==
    ASSUME TypeInv, [Next]_vars
    PROVE  LogGrows /\ RowsGrow /\ ReviewsGrow /\ HistoryGrows
    BY LogStep, RowsStep, ReviewsStep, HistoryStep

LEMMA InitDesk == Init => DeskInv /\ AuditedInv
    BY DEF Init, StoreInit, DeskInit, DeskInv, RequestInv, ReviewedIsTriaged,
           OverrideIsByReviewer, DecisionsLeaveTrail, AuditedInv, Triaged

\* What a request at the same await relied on, it still can.
LEMMA RequestStays ==
    ASSUME TypeInv, RowsGrow, ReviewsGrow, NEW r \in Reviewers, RequestInv(r),
           desk'[r] = desk[r], work'[r] = work[r]
    PROVE  RequestInv(r)'
<1> SUFFICES ASSUME NEW item \in work[r]
             PROVE  /\ Triaged(item[1])'
                    /\ item[2] # 0 =>
                         /\ item[2] \in DOMAIN reviews'
                         /\ reviews'[item[2]].ticket = item[1]
                         /\ desk[r] \in Committed =>
                              reviews'[item[2]] = [ticket |-> item[1], status |-> "RESOLVED",
                                                   reviewer |-> r]
                    /\ desk[r] \in Committed \ {"feedback"} => item \in corrected'
                    /\ desk[r] \in {"override", "reviewAudit"} =>
                         <<item[1], "FEEDBACK_CAPTURED">> \in audit'
    BY DEF RequestInv, Triaged
<1>1. Triaged(item[1])'
    BY ItemType DEF RequestInv, RowsGrow, TypeInv, TypeOK
<1>2. ASSUME item[2] # 0
      PROVE  /\ item[2] \in DOMAIN reviews' /\ reviews'[item[2]].ticket = item[1]
             /\ desk[r] \in Committed =>
                  reviews'[item[2]] = [ticket |-> item[1], status |-> "RESOLVED", reviewer |-> r]
  <2>1. /\ item[2] \in DOMAIN reviews /\ reviews[item[2]].ticket = item[1]
        /\ desk[r] \in Committed =>
             reviews[item[2]] = [ticket |-> item[1], status |-> "RESOLVED", reviewer |-> r]
      BY <1>2 DEF RequestInv
  <2>2. desk[r] \in Committed => reviews[item[2]].status = "RESOLVED"
      BY <2>1
  <2> QED
      BY <2>1, <2>2 DEF ReviewsGrow
<1> QED
    BY <1>1, <1>2 DEF RequestInv, RowsGrow

\* The request of r takes a step, or ends.
LEMMA RequestMoves ==
    ASSUME TypeInv, RowsGrow, ReviewsGrow, NEW r \in Reviewers, RequestInv(r),
           \/ \E id \in DOMAIN reviews : OpenReview(r, id)
           \/ \E t \in Tickets : OpenFeedback(r, t)
           \/ Decision(r) \/ Abort(r),
           ReviewedIsTriaged
    PROVE  RequestInv(r)'
<1> USE DEF TypeInv, TypeOK
<1>1. /\ desk \in [Reviewers -> {"free", "resolve", "manual"} \cup Committed]
      /\ work \in [Reviewers -> SUBSET (Tickets \X (0 .. Len(reviews)))]
      /\ DOMAIN reviews = 1 .. Len(reviews) /\ Len(reviews) \in Nat
    BY DEF DeskTypeOK, StoreTypeOK
<1>2. ASSUME Close(r) PROVE RequestInv(r)'
    BY <1>1, <1>2 DEF Close, RequestInv
<1>3. ASSUME NEW id \in DOMAIN reviews, OpenReview(r, id) PROVE RequestInv(r)'
  <2>1. /\ work'[r] = {<<reviews[id].ticket, id>>} /\ desk'[r] = "resolve"
        /\ reviews' = reviews /\ result' = result
      BY <1>1, <1>3 DEF OpenReview, store
  <2>2. id # 0 /\ Triaged(reviews[id].ticket)
      BY <1>1 DEF ReviewedIsTriaged
  <2> QED
      BY <2>1, <2>2 DEF RequestInv, Triaged, Committed
<1>4. ASSUME NEW t \in Tickets, OpenFeedback(r, t) PROVE RequestInv(r)'
  <2>1. work'[r] = {<<t, 0>>} /\ desk'[r] = "manual" /\ result' = result /\ Triaged(t)
      BY <1>1, <1>4 DEF OpenFeedback, store
  <2> QED
      BY <2>1 DEF RequestInv, Triaged, Committed
<1>5. ASSUME Resolve(r) \/ Feedback(r) \/ (AuditFeedback(r) /\ ~Close(r)) \/ Override(r)
      PROVE  RequestInv(r)'
  <2>1. PICK item \in work[r] :
             /\ Resolve(r) => ResolveReview(item[2], r)
             /\ Feedback(r) => InsertFeedback(item[1], item[2])
             /\ AuditFeedback(r) /\ ~Close(r) =>
                  /\ WriteAudit(item[1], "FEEDBACK_CAPTURED") /\ item[2] # 0
                  /\ desk' = [desk EXCEPT ![r] = "override"] /\ work' = work
      BY <1>5 DEF Resolve, Feedback, AuditFeedback, Override, Turn
  <2>2. work'[r] = {item}
      BY <1>5, <2>1 DEF Resolve, Feedback, Override, Turn, RequestInv
  <2>3. item = <<item[1], item[2]>> /\ item[1] \in Tickets
      BY <1>1
  <2>4. Triaged(item[1])'
      BY <2>3 DEF RequestInv, RowsGrow
  <2>5. /\ desk[r] = "manual" => item[2] = 0
        /\ desk[r] \in {"resolve", "override"} => item[2] # 0
        /\ item[2] # 0 =>
             /\ item[2] \in DOMAIN reviews /\ reviews[item[2]].ticket = item[1]
             /\ desk[r] \in Committed =>
                  reviews[item[2]] = [ticket |-> item[1], status |-> "RESOLVED", reviewer |-> r]
        /\ desk[r] \in Committed \ {"feedback"} => item \in corrected
        /\ desk[r] = "override" => <<item[1], "FEEDBACK_CAPTURED">> \in audit
      BY DEF RequestInv
  <2>6. SUFFICES /\ desk'[r] # "manual" /\ desk'[r] # "resolve"
                 /\ desk'[r] \in {"override", "reviewAudit"} => item[2] # 0
                 /\ item[2] # 0 =>
                      /\ item[2] \in DOMAIN reviews' /\ reviews'[item[2]].ticket = item[1]
                      /\ desk'[r] \in Committed =>
                           reviews'[item[2]] = [ticket |-> item[1], status |-> "RESOLVED",
                                                reviewer |-> r]
                 /\ desk'[r] \in Committed \ {"feedback"} => item \in corrected'
                 /\ desk'[r] \in {"override", "reviewAudit"} =>
                      <<item[1], "FEEDBACK_CAPTURED">> \in audit'
      BY <2>2, <2>4 DEF RequestInv, Triaged
  <2>7. CASE Resolve(r)
    <3>1. desk[r] = "resolve" /\ desk'[r] = "feedback" /\ item[2] \in PendingReviews
        BY <1>1, <2>1, <2>7 DEF Resolve, Turn, ResolveReview
    <3>2. item[2] \in DOMAIN reviews /\ reviews[item[2]].ticket = item[1]
        BY <2>5, <3>1
    <3>3. reviews[item[2]] \in Review
        BY <3>2 DEF StoreTypeOK
    <3>4. reviews'[item[2]] = [reviews[item[2]] EXCEPT !.status = "RESOLVED", !.reviewer = r]
        BY <2>1, <2>7, <3>2 DEF ResolveReview, StoreTypeOK
    <3>5. reviews'[item[2]] = [ticket |-> item[1], status |-> "RESOLVED", reviewer |-> r]
        BY <3>2, <3>3, <3>4 DEF Review
    <3> QED
        BY <3>1, <3>2, <3>5 DEF ReviewsGrow, Committed
  <2>8. CASE Feedback(r)
    <3>1. /\ desk[r] \in {"feedback", "manual"} /\ desk'[r] = "feedbackAudit"
          /\ reviews' = reviews /\ item \in corrected'
        BY <1>1, <2>1, <2>3, <2>8 DEF Feedback, Turn, InsertFeedback
    <3> QED
        BY <2>5, <3>1 DEF Committed
  <2>9. CASE AuditFeedback(r) /\ ~Close(r)
    <3>1. /\ desk[r] = "feedbackAudit" /\ desk'[r] = "override" /\ item[2] # 0
          /\ reviews' = reviews /\ corrected' = corrected
          /\ <<item[1], "FEEDBACK_CAPTURED">> \in audit'
        BY <1>1, <2>1, <2>9 DEF AuditFeedback, WriteAudit
    <3> QED
        BY <2>5, <3>1 DEF Committed
  <2>10. CASE Override(r)
    <3>1. /\ desk[r] = "override" /\ desk'[r] = "reviewAudit"
          /\ UNCHANGED <<reviews, corrected, audit>>
        BY <1>1, <2>10 DEF Override, Turn
    <3> QED
        BY <2>5, <3>1 DEF Committed
  <2> QED
      BY <1>5, <2>7, <2>8, <2>9, <2>10
<1> QED
    BY <1>2, <1>3, <1>4, <1>5 DEF Decision, ResolveTooLate, AuditReview, Abort

\* One request moves at a time.
LEMMA OneRequestMoves ==
    ASSUME TypeInv, DeskNext
    PROVE  \E r \in Reviewers :
             /\ \/ \E id \in DOMAIN reviews : OpenReview(r, id)
                \/ \E t \in Tickets : OpenFeedback(r, t)
                \/ Decision(r) \/ Abort(r)
             /\ \A s \in Reviewers \ {r} : desk'[s] = desk[s] /\ work'[s] = work[s]
<1>1. PICK r \in Reviewers : \/ \E id \in DOMAIN reviews : OpenReview(r, id)
                             \/ \E t \in Tickets : OpenFeedback(r, t)
                             \/ Decision(r) \/ Abort(r)
    BY DEF DeskNext
<1>2. \A s \in Reviewers \ {r} : desk'[s] = desk[s] /\ work'[s] = work[s]
    BY <1>1 DEF OpenReview, OpenFeedback, Decision, Resolve, ResolveTooLate, Feedback,
                AuditFeedback, Override, AuditReview, Abort, Turn, Close, TypeInv, TypeOK,
                DeskTypeOK
<1> QED
    BY <1>1, <1>2

LEMMA RequestsStep ==
    ASSUME TypeInv, DeskInv, [Next]_vars
    PROVE  \A r \in Reviewers : RequestInv(r)'
<1>1. RowsGrow /\ ReviewsGrow
    BY RowsAndReviewsGrow
<1>2. CASE UNCHANGED review
    BY <1>1, <1>2, RequestStays DEF DeskInv, review
<1>3. CASE DeskNext
    BY <1>1, <1>3, OneRequestMoves, RequestStays, RequestMoves DEF DeskInv
<1> QED
    BY <1>2, <1>3 DEF Next, vars

\* The rows of the queue: a new one comes from Enqueue, a change from Resolve.
LEMMA QueueKinds ==
    ASSUME TypeInv, [Next]_vars
    PROVE  /\ \A id \in DOMAIN reviews' \ DOMAIN reviews :
                \E w \in Workers : \E m \in inHand[w] :
                    /\ Enqueue(w)
                    /\ reviews'[id] = [ticket |-> TicketOf(m), status |-> "PENDING",
                                       reviewer |-> "NOBODY"]
           /\ \A id \in DOMAIN reviews :
                \/ reviews'[id] = reviews[id]
                \/ \E r \in Reviewers : Resolve(r) /\ \E item \in work[r] : item[2] = id
<1> USE DEF TypeInv, TypeOK
<1>1. reviews \in Seq(Review) /\ DOMAIN reviews = 1 .. Len(reviews) /\ Len(reviews) \in Nat
    BY DEF StoreTypeOK
<1>2. \/ reviews' = reviews
      \/ \E w \in Workers : Enqueue(w)
      \/ \E r \in Reviewers : Resolve(r)
    BY StoreKinds
       DEF Progress, Check, StoreResult, AuditTriage, Decide, AuditRisk, MarkProcessed,
           Feedback, AuditFeedback, Override, AuditReview, store
<1>3. ASSUME NEW w \in Workers, Enqueue(w)
      PROVE  /\ \A id \in DOMAIN reviews' \ DOMAIN reviews :
                  \E m \in inHand[w] :
                      reviews'[id] = [ticket |-> TicketOf(m), status |-> "PENDING",
                                      reviewer |-> "NOBODY"]
             /\ \A id \in DOMAIN reviews : reviews'[id] = reviews[id]
  <2>1. PICK m \in inHand[w] : EnqueueReview(TicketOf(m))
      BY <1>3 DEF Enqueue
  <2> DEFINE new == [ticket |-> TicketOf(m), status |-> "PENDING", reviewer |-> "NOBODY"]
  <2>2. TicketOf(m) \in Tickets
      BY TicketType DEF ConsumerTypeOK
  <2>3. new \in Review
      BY <2>2 DEF Review
  <2>4. reviews' = reviews \/ reviews' = Append(reviews, new)
      BY <2>1 DEF EnqueueReview
  <2> HIDE DEF new
  <2>5. /\ \A id \in DOMAIN reviews' \ DOMAIN reviews : reviews'[id] = new
        /\ \A id \in DOMAIN reviews : reviews'[id] = reviews[id]
      BY <1>1, <2>3, <2>4
  <2> QED
      BY <2>5 DEF new
<1>4. ASSUME NEW r \in Reviewers, Resolve(r)
      PROVE  /\ DOMAIN reviews' = DOMAIN reviews
             /\ \E item \in work[r] : \A id \in DOMAIN reviews \ {item[2]} :
                    reviews'[id] = reviews[id]
    BY <1>1, <1>4 DEF Resolve, ResolveReview
<1> QED
    BY <1>2, <1>3, <1>4

LEMMA ReviewedStep ==
    ASSUME TypeInv, PhaseInv, DeskInv, [Next]_vars
    PROVE  ReviewedIsTriaged'
<1> SUFFICES ASSUME NEW id \in DOMAIN reviews' PROVE result'[reviews'[id].ticket] # {}
    BY DEF ReviewedIsTriaged, Triaged
<1>1. RowsGrow /\ ReviewsGrow
    BY RowsAndReviewsGrow
<1>2. CASE id \in DOMAIN reviews
  <2>1. Triaged(reviews[id].ticket) /\ reviews'[id].ticket = reviews[id].ticket
      BY <1>1, <1>2 DEF DeskInv, ReviewedIsTriaged, ReviewsGrow
  <2>2. reviews[id].ticket \in Tickets
    <3>1. reviews[id] \in Review
        BY <1>2 DEF TypeInv, TypeOK, StoreTypeOK
    <3> QED
        BY <3>1 DEF Review
  <2> QED
      BY <1>1, <2>1, <2>2 DEF RowsGrow, Triaged
<1>3. CASE id \notin DOMAIN reviews
  <2>1. PICK w \in Workers : \E m \in inHand[w] :
             /\ Enqueue(w)
             /\ reviews'[id] = [ticket |-> TicketOf(m), status |-> "PENDING",
                                reviewer |-> "NOBODY"]
      BY <1>3, QueueKinds
  <2>0. PICK m \in inHand[w] : Enqueue(w) /\ reviews'[id].ticket = TicketOf(m)
      BY <2>1
  <2>2. Triaged(TicketOf(m))
      BY <2>0 DEF PhaseInv, WritesInOrder, Enqueue, At, AfterResult
  <2>3. TicketOf(m) \in Tickets
      BY TicketType DEF TypeInv, TypeOK, ConsumerTypeOK
  <2> QED
      BY <1>1, <2>0, <2>2, <2>3 DEF RowsGrow, Triaged
<1> QED
    BY <1>2, <1>3

\* A result is the old one, a prediction, or the override of a request.
LEMMA ResultKinds ==
    ASSUME TypeInv, [Next]_vars, NEW t \in Tickets, NEW row \in result'[t]
    PROVE  \/ row \in result[t]
           \/ \E w \in Workers : \E m \in inHand[w] :
                StoreResult(w) /\ t = TicketOf(m) /\ row.by = "MODEL" /\ row.flagged = toReview'[w]
           \/ \E r \in Reviewers : \E item \in work[r] :
                Override(r) /\ t = item[1] /\ row = [by |-> r, flagged |-> FALSE]
<1> USE DEF TypeInv, TypeOK
<1>1. \/ result' = result
      \/ \E w \in Workers : StoreResult(w)
      \/ \E r \in Reviewers : Override(r)
    BY StoreKinds
       DEF Progress, Check, AuditTriage, Decide, AuditRisk, Enqueue, MarkProcessed, Resolve,
           Feedback, AuditFeedback, AuditReview, store
<1>2. ASSUME NEW w \in Workers, StoreResult(w), row \notin result[t]
      PROVE  \E m \in inHand[w] : /\ t = TicketOf(m) /\ row.by = "MODEL"
                                  /\ row.flagged = toReview'[w]
  <2>1. PICK m \in inHand[w], flagged \in BOOLEAN :
             UpsertResult(TicketOf(m), flagged) /\ toReview' = [toReview EXCEPT ![w] = flagged]
      BY <1>2 DEF StoreResult
  <2>2. t = TicketOf(m) /\ row = [by |-> "MODEL", flagged |-> flagged]
      BY <1>2, <2>1 DEF UpsertResult, StoreTypeOK
  <2>3. toReview'[w] = flagged
      BY <2>1 DEF ConsumerTypeOK
  <2> QED
      BY <2>2, <2>3
<1>3. ASSUME NEW r \in Reviewers, Override(r), row \notin result[t]
      PROVE  \E item \in work[r] : t = item[1] /\ row = [by |-> r, flagged |-> FALSE]
    BY <1>3 DEF Override, ApplyOverride, StoreTypeOK
<1> QED
    BY <1>1, <1>2, <1>3

LEMMA OverrideStep ==
    ASSUME TypeInv, DeskInv, [Next]_vars
    PROVE  OverrideIsByReviewer'
<1> SUFFICES ASSUME NEW t \in Tickets, NEW row \in result'[t], row.by # "MODEL"
             PROVE  \E id \in DOMAIN reviews' :
                      reviews'[id] = [ticket |-> t, status |-> "RESOLVED", reviewer |-> row.by]
    BY DEF OverrideIsByReviewer
<1>1. ReviewsGrow
    BY RowsAndReviewsGrow
<1>2. PICK id \in DOMAIN reviews :
           reviews[id] = [ticket |-> t, status |-> "RESOLVED", reviewer |-> row.by]
  <2>1. CASE row \in result[t]
      BY <2>1 DEF DeskInv, OverrideIsByReviewer
  <2>2. ASSUME NEW r \in Reviewers, NEW item \in work[r], Override(r), t = item[1],
               row = [by |-> r, flagged |-> FALSE]
        PROVE  /\ item[2] \in DOMAIN reviews
               /\ reviews[item[2]] = [ticket |-> t, status |-> "RESOLVED", reviewer |-> row.by]
    <3>1. desk[r] = "override" /\ RequestInv(r)
        BY <2>2 DEF Override, Turn, DeskInv
    <3> QED
        BY <2>2, <3>1 DEF RequestInv, Committed
  <2> QED
      BY <2>1, <2>2, ResultKinds
<1>3. reviews[id].status = "RESOLVED"
    BY <1>2
<1> QED
    BY <1>1, <1>2, <1>3 DEF ReviewsGrow

\* A request past the conditional update goes on, or is done, or is cut short.
LEMMA FinishingStep ==
    ASSUME TypeInv, DeskInv, [Next]_vars, NEW r \in Reviewers, NEW item \in work[r],
           Finishing(r, item), item[2] # 0
    PROVE  \/ Finishing(r, item)'
           \/ item \in abandoned'
           \/ /\ desk[r] = "reviewAudit" /\ item \in corrected
              /\ <<item[1], "FEEDBACK_CAPTURED">> \in audit
              /\ <<item[1], "HUMAN_REVIEW_RESOLVED">> \in audit'
<1> USE DEF TypeInv, TypeOK, Finishing
<1>1. RequestInv(r) /\ desk[r] \in Committed
    BY DEF DeskInv
<1>2. work[r] = {item} /\ desk \in [Reviewers -> {"free", "resolve", "manual"} \cup Committed]
    BY <1>1 DEF RequestInv, DeskTypeOK
<1>3. CASE desk'[r] = desk[r] /\ work'[r] = work[r]
    BY <1>1, <1>3
<1>4. CASE \/ \E id \in DOMAIN reviews : OpenReview(r, id)
           \/ \E t \in Tickets : OpenFeedback(r, t)
           \/ ResolveTooLate(r) \/ Resolve(r)
    BY <1>1, <1>4 DEF OpenReview, OpenFeedback, ResolveTooLate, Resolve, Turn, Committed
<1>5. CASE Feedback(r) \/ AuditFeedback(r) \/ Override(r)
    BY <1>2, <1>5 DEF Feedback, AuditFeedback, Override, Turn, Committed
<1>6. CASE AuditReview(r)
    BY <1>1, <1>2, <1>6 DEF AuditReview, WriteAudit, RequestInv, Committed
<1>7. CASE Abort(r)
    BY <1>1, <1>7 DEF Abort
<1>8. UNCHANGED review => desk'[r] = desk[r] /\ work'[r] = work[r]
    BY DEF review
<1> QED
    BY <1>3, <1>4, <1>5, <1>6, <1>7, <1>8, OneRequestMoves DEF Next, vars, Decision

LEMMA TrailStep ==
    ASSUME TypeInv, DeskInv, [Next]_vars
    PROVE  DecisionsLeaveTrail'
<1> SUFFICES ASSUME NEW id \in DOMAIN reviews', reviews'[id].status = "RESOLVED",
                    NEW item, item = <<reviews'[id].ticket, id>>
             PROVE  \/ item \in abandoned'
                    \/ \E r \in Reviewers : Finishing(r, item)'
                    \/ /\ item \in corrected'
                       /\ <<item[1], "FEEDBACK_CAPTURED">> \in audit'
                       /\ <<item[1], "HUMAN_REVIEW_RESOLVED">> \in audit'
    BY DEF DecisionsLeaveTrail, Finishing, AuditActions
<1>1. RowsGrow /\ ReviewsGrow /\ HistoryGrows
    BY RowsAndReviewsGrow
<1>2. id \in DOMAIN reviews
    BY QueueKinds
<1>3. item = <<reviews[id].ticket, id>>
    BY <1>1, <1>2 DEF ReviewsGrow
<1>4. id # 0 /\ item[2] = id /\ item[1] = reviews[id].ticket
    BY <1>2, <1>3 DEF TypeInv, TypeOK, StoreTypeOK
<1>5. CASE reviews[id].status = "RESOLVED"
  <2>1. \/ item \in abandoned
        \/ \E r \in Reviewers : Finishing(r, item)
        \/ /\ item \in corrected
           /\ {"FEEDBACK_CAPTURED", "HUMAN_REVIEW_RESOLVED"}
                \subseteq {a \in AuditActions : <<item[1], a>> \in audit}
      BY <1>2, <1>3, <1>5 DEF DeskInv, DecisionsLeaveTrail
  <2>2. CASE item \in abandoned
      BY <1>1, <2>2 DEF HistoryGrows
  <2>3. ASSUME NEW r \in Reviewers, Finishing(r, item)
        PROVE  \/ item \in abandoned'
               \/ Finishing(r, item)'
               \/ /\ item \in corrected'
                  /\ <<item[1], "FEEDBACK_CAPTURED">> \in audit'
                  /\ <<item[1], "HUMAN_REVIEW_RESOLVED">> \in audit'
    <3>1. item \in work[r]
        BY <2>3 DEF Finishing
    <3> QED
        BY <1>1, <1>4, <2>3, <3>1, FinishingStep DEF RowsGrow
  <2>4. CASE /\ item \in corrected
             /\ {"FEEDBACK_CAPTURED", "HUMAN_REVIEW_RESOLVED"}
                  \subseteq {a \in AuditActions : <<item[1], a>> \in audit}
      BY <1>1, <2>4 DEF RowsGrow
  <2> QED
      BY <2>1, <2>2, <2>3, <2>4
<1>6. CASE reviews[id].status # "RESOLVED"
  <2>1. PICK r \in Reviewers : Resolve(r) /\ \E it \in work[r] : it[2] = id
      BY <1>2, <1>6, QueueKinds
  <2>2. PICK it \in work[r] : it[2] = id
      BY <2>1
  <2>3. it[1] = reviews[id].ticket
      BY <1>4, <2>2 DEF DeskInv, RequestInv
  <2>4. it = item
      BY <1>3, <2>2, <2>3 DEF TypeInv, TypeOK, DeskTypeOK
  <2>5. desk'[r] = "feedback" /\ work'[r] = work[r]
      BY <2>1 DEF Resolve, Turn, TypeInv, TypeOK, DeskTypeOK
  <2> QED
      BY <2>2, <2>4, <2>5 DEF Finishing, Committed
<1> QED
    BY <1>5, <1>6

LEMMA DeskStep == TypeInv /\ PhaseInv /\ DeskInv /\ [Next]_vars => DeskInv'
    BY RequestsStep, ReviewedStep, OverrideStep, TrailStep DEF DeskInv

LEMMA Desks == Spec => [](TypeInv /\ PhaseInv /\ DeskInv)
<1>1. TypeInv /\ PhaseInv /\ DeskInv /\ [Next]_vars => TypeInv' /\ PhaseInv' /\ DeskInv'
    BY TypeStep, PhaseStep, DeskStep
<1> QED
    BY InitType, InitPhases, InitDesk, <1>1, PTL DEF Spec

\* The conditional update lets one request through: of the requests that opened a
\* review, one at most writes its feedback and its override.
THEOREM OneDecider == Spec => []OneDeciderPerReview
<1>1. DeskInv => OneDeciderPerReview
  <2> SUFFICES ASSUME DeskInv, NEW r \in Reviewers, NEW s \in Reviewers,
                      NEW item \in work[r] \cap work[s], item[2] # 0,
                      Finishing(r, item), Finishing(s, item)
               PROVE  r = s
      BY DEF OneDeciderPerReview
  <2>1. \A q \in {r, s} :
          reviews[item[2]] = [ticket |-> item[1], status |-> "RESOLVED", reviewer |-> q]
    <3> SUFFICES ASSUME NEW q \in {r, s}
                 PROVE  reviews[item[2]] =
                          [ticket |-> item[1], status |-> "RESOLVED", reviewer |-> q]
        OBVIOUS
    <3>1. RequestInv(q) /\ item \in work[q] /\ desk[q] \in Committed
        BY DEF DeskInv, Finishing
    <3> QED
        BY <3>1 DEF RequestInv
  <2>2. reviews[item[2]].reviewer = r /\ reviews[item[2]].reviewer = s
      BY <2>1
  <2> QED
      BY <2>2
<1> QED
    BY <1>1, Desks, PTL

\* A result written by a person is the decision of the reviewer the queue names for
\* one of the ticket's reviews, however many requests and consumers raced for it.
THEOREM OverridesAreDecisions == Spec => []OverrideIsByReviewer
<1>1. DeskInv => OverrideIsByReviewer
    BY DEF DeskInv
<1> QED
    BY <1>1, Desks, PTL

\* A resolved review has its feedback and both audit entries once its request is
\* done, unless that was cut short.
THEOREM DecisionsAreRecorded == Spec => []DecisionsLeaveTrail
<1>1. DeskInv => DecisionsLeaveTrail
    BY DEF DeskInv
<1> QED
    BY <1>1, Desks, PTL

-----------------------------------------------------------------------------
\* What becomes of the messages of a ticket.

LEMMA MessageSettles ==
    ASSUME TypeInv, [Next]_vars, NEW m \in Messages, NEW t, t = TicketOf(m)
    PROVE  m \in processed' \/ CutOff(t)' \/ Owes(t)'
<1>1. m \in Messages' /\ TicketOf(m)' = TicketOf(m)
    BY RowsAndReviewsGrow DEF LogGrows
<1> QED
    BY <1>1 DEF CutOff, Owes, Accounted

LEMMA CutOffStays ==
    ASSUME TypeInv, [Next]_vars, NEW t, CutOff(t)
    PROVE  CutOff(t)'
<1>1. PICK m \in dead \cup lost : TicketOf(m) = t
    BY DEF CutOff
<1>2. m \in Messages
    BY DEF TypeInv, TypeOK, ConsumerTypeOK
<1>3. TicketOf(m)' = TicketOf(m) /\ m \in dead' \cup lost'
    BY <1>2, RowsAndReviewsGrow DEF LogGrows, HistoryGrows
<1> QED
    BY <1>1, <1>3 DEF CutOff

LEMMA ContestedStays ==
    ASSUME TypeInv, [Next]_vars, NEW t, Contested(t)
    PROVE  Contested(t)'
<1>1. PICK m \in contested : TicketOf(m) = t
    BY DEF Contested
<1>2. m \in Messages
    BY DEF TypeInv, TypeOK, ConsumerTypeOK
<1>3. TicketOf(m)' = TicketOf(m) /\ m \in contested'
    BY <1>2, RowsAndReviewsGrow DEF LogGrows, HistoryGrows
<1> QED
    BY <1>1, <1>3 DEF Contested

\* A ticket that gets its first result gets it from the consumer.
LEMMA FirstResult ==
    ASSUME TypeInv, DeskInv, [Next]_vars, NEW t \in Tickets, ~Triaged(t), Triaged(t)'
    PROVE  \E w \in Workers : \E m \in inHand[w] : StoreResult(w) /\ t = TicketOf(m)
<1>1. PICK row \in result'[t] : TRUE
    BY DEF Triaged
<1>2. row \notin result[t]
    BY DEF Triaged
<1>3. \A r \in Reviewers : \A item \in work[r] : t # item[1]
    BY DEF DeskInv, RequestInv
<1> QED
    BY <1>1, <1>2, <1>3, ResultKinds

LEMMA AuditedStep ==
    ASSUME TypeInv, PhaseInv, DeskInv, AuditedInv, [Next]_vars
    PROVE  AuditedInv'
<1> SUFFICES ASSUME NEW t \in Tickets, Triaged(t)'
             PROVE  <<t, "TRIAGE_COMPLETED">> \in audit' \/ CutOff(t)' \/ Owes(t)'
    BY DEF AuditedInv
<1>1. ASSUME NEW m \in Messages, TicketOf(m) = t
      PROVE  <<t, "TRIAGE_COMPLETED">> \in audit' \/ CutOff(t)' \/ Owes(t)'
  <2>1. CASE m \in processed'
    <3>1. TicketOf(m)' = t
        BY <1>1, RowsAndReviewsGrow DEF LogGrows
    <3>2. Complete(TicketOf(m))'
        BY <2>1, PhaseStep DEF PhaseInv
    <3> QED
        BY <3>1, <3>2 DEF Complete
  <2> QED
      BY <1>1, <2>1, MessageSettles
<1>2. CASE Triaged(t)
  <2>1. CASE <<t, "TRIAGE_COMPLETED">> \in audit
      BY <2>1, RowsAndReviewsGrow DEF RowsGrow
  <2>2. CASE CutOff(t)
      BY <2>2, CutOffStays
  <2>3. CASE Owes(t)
      BY <1>1, <2>3 DEF Owes
  <2> QED
      BY <1>2, <2>1, <2>2, <2>3 DEF AuditedInv
<1>3. CASE ~Triaged(t)
  <2>0. PICK w \in Workers : \E m \in inHand[w] : StoreResult(w) /\ t = TicketOf(m)
      BY <1>3, FirstResult
  <2>1. PICK m \in inHand[w] : t = TicketOf(m)
      BY <2>0
  <2>2. m \in Messages
      BY DEF TypeInv, TypeOK, ConsumerTypeOK
  <2> QED
      BY <1>1, <2>1, <2>2
<1> QED
    BY <1>2, <1>3

\* What is not accounted for is still to come.
LEMMA OwedIsOpen ==
    ASSUME TypeInv, OffsetInv, NEW t, Owes(t)
    PROVE  Open(t)
<1>1. PICK m \in Messages : TicketOf(m) = t /\ m \notin Accounted
    BY DEF Owes
<1>2. ~(m[2] <= committed[m[1]])
    BY <1>1 DEF OffsetInv, CommittedIsAccounted, Accounted
<1>3. m[1] \in Partitions
    BY <1>1 DEF Messages
<1>4. m[2] > committed[m[1]]
    BY <1>2, <1>3, OffsetTypes
<1> QED
    BY <1>1, <1>4 DEF Open

\* A stored result is in the audit log once the ticket's messages are done with,
\* unless one of them was given up, or cut off by stop(); with any number of
\* instances, faults and shutdowns.
THEOREM TriageAudited == Spec => []TriageIsAudited
<1> DEFINE I == TypeInv /\ PhaseInv /\ DeskInv /\ OffsetInv /\ AuditedInv
<1>1. Init => I
    BY InitType, InitPhases, InitDesk, InitOffsets
<1>2. I /\ [Next]_vars => I'
    BY TypeStep, PhaseStep, DeskStep, OffsetStep, AuditedStep
<1>3. I => TriageIsAudited
    BY OwedIsOpen DEF AuditedInv, TriageIsAudited
<1> HIDE DEF I
<1> QED
    BY <1>1, <1>2, <1>3, PTL DEF Spec

-----------------------------------------------------------------------------
\* No flagged ticket is forgotten.

\* Two instances are at work on messages of one ticket only if they have had one in
\* hand at once, or the earlier one was given up or cut off: the messages of a ticket
\* come in order, and the later one is fetched when the earlier one is accounted for.
LEMMA TwoAtWork ==
    ASSUME TypeInv, HandInv, NEW v \in Workers, NEW w \in Workers, v # w,
           pc[v] \in Triaging \cup {"mark"}, pc[w] \in Triaging \cup {"mark"},
           NEW m \in inHand[v], NEW n \in inHand[w], NEW t,
           TicketOf(m) = t, TicketOf(n) = t
    PROVE  CutOff(t) \/ Contested(t)
<1>1. m \in Messages /\ n \in Messages
    BY DEF TypeInv, TypeOK, ConsumerTypeOK
<1>2. m[1] = n[1] /\ m = <<m[1], m[2]>> /\ n = <<n[1], n[2]>>
    BY <1>1 DEF HandInv, KeyInv, Messages
<1>3. m[2] \in Nat /\ n[2] \in Nat /\ m[2] >= 1 /\ n[2] >= 1
    BY <1>1, ConsumerConstants DEF ConsumerConstants, Messages
<1>4. CASE m = n
    BY <1>4 DEF HandInv, SharedIsContested, Contested
<1>5. CASE m[2] < n[2]
  <2>1. m[2] \in 1 .. n[2] - 1
      BY <1>3, <1>5
  <2>2. m \in Accounted
      BY <1>2, <2>1 DEF HandInv, InOrder
  <2>3. m \in processed => m \in contested
      BY DEF HandInv, Unprocessed
  <2> QED
      BY <2>2, <2>3 DEF Accounted, CutOff, Contested
<1>6. CASE n[2] < m[2]
  <2>1. n[2] \in 1 .. m[2] - 1
      BY <1>3, <1>6
  <2>2. n \in Accounted
      BY <1>2, <2>1 DEF HandInv, InOrder
  <2>3. n \in processed => n \in contested
      BY DEF HandInv, Unprocessed
  <2> QED
      BY <2>2, <2>3 DEF Accounted, CutOff, Contested
<1>7. m = n \/ m[2] < n[2] \/ n[2] < m[2]
  <2>1. m[2] = n[2] => m = n
      BY <1>2
  <2> QED
      BY <1>3, <2>1
<1> QED
    BY <1>4, <1>5, <1>6, <1>7

LEMMA FlagKinds ==
    ASSUME TypeInv, [Next]_vars, NEW t \in Tickets, Flagged(t)'
    PROVE  \/ Flagged(t)
           \/ \E w \in Workers : \E m \in inHand[w] :
                StoreResult(w) /\ t = TicketOf(m) /\ toReview'[w]
<1>1. PICK row \in result'[t] : row.flagged
    BY DEF Flagged
<1>2. row \in result[t] => Flagged(t)
    BY <1>1 DEF Flagged
<1> QED
    BY <1>1, <1>2, ResultKinds

\* A ticket loses its review only to a reviewer who overrides the result, or whose
\* request is cut short.
LEMMA TrackedStays ==
    ASSUME TypeInv, DeskInv, [Next]_vars, NEW t \in Tickets, Tracked(t)
    PROVE  Tracked(t)' \/ ~Flagged(t)'
<1> USE DEF TypeInv, TypeOK
<1>0. desk \in [Reviewers -> {"free", "resolve", "manual"} \cup Committed]
    BY DEF DeskTypeOK
<1>1. ASSUME NEW id \in PendingFor(t) PROVE Tracked(t)'
  <2>1. /\ id \in DOMAIN reviews /\ reviews[id].status = "PENDING" /\ reviews[id].ticket = t
        /\ id # 0 /\ id \in DOMAIN reviews'
      BY <1>1, RowsAndReviewsGrow DEF PendingFor, PendingReviews, ReviewsGrow, StoreTypeOK
  <2>2. CASE reviews'[id] = reviews[id]
      BY <2>1, <2>2 DEF Tracked, PendingFor, PendingReviews
  <2>3. ASSUME NEW r \in Reviewers, Resolve(r), NEW item \in work[r], item[2] = id
        PROVE  Tracked(t)'
    <3>1. item[1] = t
        BY <2>1, <2>3 DEF DeskInv, RequestInv
    <3>2. desk'[r] = "feedback" /\ work'[r] = work[r]
        BY <1>0, <2>3 DEF Resolve, Turn
    <3> QED
        BY <2>1, <2>3, <3>1, <3>2 DEF Tracked, Overriding, Committed
  <2> QED
      BY <2>1, <2>2, <2>3, QueueKinds
<1>2. ASSUME NEW r \in Reviewers, NEW item \in work[r],
             desk[r] \in Committed \ {"reviewAudit"}, item[1] = t, item[2] # 0
      PROVE  Tracked(t)' \/ ~Flagged(t)'
  <2>1. work[r] = {item}
      BY DEF DeskInv, RequestInv
  <2>2. CASE desk'[r] = desk[r] /\ work'[r] = work[r]
      BY <1>2, <2>2 DEF Tracked, Overriding
  <2>3. CASE Feedback(r) \/ AuditFeedback(r)
      BY <1>0, <1>2, <2>1, <2>3
         DEF Feedback, AuditFeedback, Turn, Tracked, Overriding, Committed
  <2>4. CASE Override(r)
    <3>1. result' = [result EXCEPT ![t] = {[by |-> r, flagged |-> FALSE]}]
        BY <1>2, <2>1, <2>4 DEF Override, ApplyOverride
    <3> QED
        BY <3>1 DEF Flagged, StoreTypeOK
  <2>5. CASE Abort(r)
      BY <1>2, <2>5 DEF Abort, Tracked, GivenUp
  <2>6. CASE \/ \E id \in DOMAIN reviews : OpenReview(r, id)
             \/ \E u \in Tickets : OpenFeedback(r, u)
             \/ Resolve(r) \/ ResolveTooLate(r) \/ AuditReview(r)
      BY <1>2, <2>6 DEF OpenReview, OpenFeedback, Resolve, ResolveTooLate, AuditReview, Turn,
                        Committed
  <2>7. UNCHANGED review => desk'[r] = desk[r] /\ work'[r] = work[r]
      BY DEF review
  <2> QED
      BY <2>2, <2>3, <2>4, <2>5, <2>6, <2>7, OneRequestMoves DEF Next, vars, Decision
<1>3. CutOff(t) => Tracked(t)'
    BY CutOffStays DEF Tracked
<1>4. GivenUp(t) => Tracked(t)'
    BY RowsAndReviewsGrow DEF HistoryGrows, GivenUp, Tracked
<1>5. Contested(t) => Tracked(t)'
    BY ContestedStays DEF Tracked
<1> QED
    BY <1>1, <1>2, <1>3, <1>4, <1>5 DEF Tracked, Overriding

LEMMA FlagStep ==
    ASSUME TypeInv, HandInv, DeskInv, FlagInv, [Next]_vars
    PROVE  FlagInv'
<1> USE DEF TypeInv, TypeOK
<1> SUFFICES ASSUME NEW w \in Workers, NEW m \in inHand'[w],
                    NEW t, t = TicketOf(m)'
             PROVE  /\ pc'[w] \in {"auditTriage", "decide", "auditRisk"} /\ ~toReview'[w] =>
                         ~Flagged(t)' \/ CutOff(t)' \/ Contested(t)'
                    /\ pc'[w] = "mark" /\ Flagged(t)' => Tracked(t)'
    BY DEF FlagInv, Flagged, Tracked, PendingFor, Overriding, CutOff, GivenUp, Contested
<1>1. CASE Progress(w)
  <2>1. PICK here \in Calls, next \in Handling : At(w, here, next)
      BY <1>1 DEF Progress, Check, StoreResult, AuditTriage, Decide, AuditRisk, Enqueue,
             MarkProcessed, Handling, Calls, Triaging
  <2>2. inHand[w] = {m} /\ m \in Messages
      BY <2>1, OneInHand DEF At, Handling
  <2>3. TicketOf(m) = t /\ t \in Tickets
      BY <2>2, TicketType, RowsAndReviewsGrow DEF LogGrows
  <2>4. pc[w] = here /\ pc'[w] = next
      BY <2>1 DEF At, ConsumerTypeOK
  <2>5. CASE StoreResult(w)
    <3>1. PICK flagged \in BOOLEAN : /\ UpsertResult(t, flagged)
                                     /\ toReview' = [toReview EXCEPT ![w] = flagged]
        BY <2>2, <2>3, <2>5 DEF StoreResult
    <3>2. result'[t] = {[by |-> "MODEL", flagged |-> flagged]} /\ toReview'[w] = flagged
        BY <2>3, <3>1 DEF UpsertResult, StoreTypeOK, ConsumerTypeOK
    <3>3. pc'[w] = "auditTriage"
        BY <2>5 DEF StoreResult, At, ConsumerTypeOK
    <3> QED
        BY <3>2, <3>3 DEF Flagged
  <2>6. CASE AuditTriage(w) \/ Decide(w) \/ AuditRisk(w)
    <3>1. /\ UNCHANGED <<result, toReview>> /\ here \in {"auditTriage", "decide", "auditRisk"}
          /\ next = "mark" => ~toReview[w]
        BY <2>4, <2>6 DEF AuditTriage, Decide, AuditRisk, At, ConsumerTypeOK
    <3>2. ~toReview[w] => ~Flagged(t) \/ CutOff(t) \/ Contested(t)
        BY <2>2, <2>3, <2>4, <3>1 DEF FlagInv
    <3>3. ~Flagged(t) => ~Flagged(t)'
        BY <3>1 DEF Flagged
    <3> QED
        BY <2>4, <3>1, <3>2, <3>3, CutOffStays, ContestedStays DEF Tracked
  <2>7. CASE Enqueue(w)
    <3>1. EnqueueReview(t) /\ next = "mark"
        BY <2>2, <2>3, <2>4, <2>7 DEF Enqueue, At, ConsumerTypeOK
    <3> DEFINE new == [ticket |-> t, status |-> "PENDING", reviewer |-> "NOBODY"]
    <3>2. new \in Review /\ new.ticket = t /\ new.status = "PENDING"
        BY <2>3 DEF Review
    <3>3. \/ reviews' = reviews /\ PendingFor(t) # {}
          \/ reviews' = Append(reviews, new)
        BY <3>1 DEF EnqueueReview
    <3> HIDE DEF new
    <3>4. ASSUME reviews' = Append(reviews, new)
          PROVE  Len(reviews) + 1 \in DOMAIN reviews' /\ reviews'[Len(reviews) + 1] = new
        BY <3>2, <3>4 DEF StoreTypeOK
    <3>5. PendingFor(t)' # {}
        BY <3>2, <3>3, <3>4 DEF PendingFor, PendingReviews
    <3> QED
        BY <2>4, <3>1, <3>5 DEF Tracked
  <2>8. CASE Check(w) \/ MarkProcessed(w)
      BY <2>8 DEF Check, MarkProcessed, At, ConsumerTypeOK
  <2> QED
      BY <1>1, <2>5, <2>6, <2>7, <2>8 DEF Progress
<1>2. CASE ~Progress(w) /\ pc'[w] = pc[w] /\ inHand'[w] = inHand[w] /\ toReview'[w] = toReview[w]
  <2>1. m \in Messages
      BY <1>2 DEF ConsumerTypeOK
  <2>2. TicketOf(m) = t /\ t \in Tickets
      BY <2>1, TicketType, RowsAndReviewsGrow DEF LogGrows
  <2>3. CASE ~(Flagged(t)' => Flagged(t))
    <3>1. PICK v \in Workers : \E n \in inHand[v] : StoreResult(v) /\ t = TicketOf(n)
        BY <2>2, <2>3, FlagKinds
    <3>2. PICK n \in inHand[v] : t = TicketOf(n)
        BY <3>1
    <3>3. v # w /\ pc[v] = "triage"
        BY <1>2, <3>1 DEF Progress, StoreResult, At
    <3>4. pc[w] \in Triaging \cup {"mark"} => CutOff(t) \/ Contested(t)
        BY <1>2, <2>2, <3>2, <3>3, TwoAtWork DEF Triaging
    <3> QED
        BY <1>2, <3>4, CutOffStays, ContestedStays DEF Tracked, Triaging
  <2>4. /\ pc[w] \in {"auditTriage", "decide", "auditRisk"} /\ ~toReview[w] =>
             ~Flagged(t) \/ CutOff(t) \/ Contested(t)
        /\ pc[w] = "mark" /\ Flagged(t) => Tracked(t)
      BY <1>2, <2>2 DEF FlagInv
  <2> QED
      BY <1>2, <2>2, <2>3, <2>4, TrackedStays, CutOffStays, ContestedStays
<1>3. CASE pc'[w] \notin AfterResult
    BY <1>3 DEF AfterResult
<1> QED
    BY <1>1, <1>2, <1>3, TaskMoves

LEMMA TrackStep ==
    ASSUME TypeInv, HandInv, DeskInv, TrackInv, [Next]_vars
    PROVE  TrackInv'
<1> USE DEF TypeInv, TypeOK
<1>1. FlagInv'
    BY FlagStep DEF TrackInv
<1>2. ASSUME NEW t \in Tickets, Flagged(t)', Flagged(t) PROVE Tracked(t)' \/ Owes(t)'
  <2>1. CASE Tracked(t)
      BY <1>2, <2>1, TrackedStays
  <2>2. ASSUME NEW m \in Messages, TicketOf(m) = t, m \notin Accounted
        PROVE  Tracked(t)' \/ Owes(t)'
    <3>1. CASE m \in processed'
      <4>1. PICK w \in Workers : MarkProcessed(w) /\ inHand[w] = {m}
          BY <2>2, <3>1, RecordedInHand DEF Accounted
      <4>2. m \in inHand[w] /\ pc[w] = "mark"
          BY <4>1 DEF MarkProcessed, At
      <4>3. Tracked(t)
          BY <1>2, <2>2, <4>2 DEF TrackInv, FlagInv
      <4> QED
          BY <1>2, <4>3, TrackedStays
    <3> QED
        BY <2>2, <3>1, MessageSettles DEF Tracked
  <2> QED
      BY <1>2, <2>1, <2>2 DEF TrackInv, Owes
<1>3. ASSUME NEW t \in Tickets, NEW w \in Workers, NEW m \in inHand[w], StoreResult(w),
             t = TicketOf(m)
      PROVE  Tracked(t)' \/ Owes(t)'
  <2>1. m \in Messages /\ processed' = processed /\ pc[w] = "triage"
      BY <1>3 DEF ConsumerTypeOK, StoreResult, At
  <2>2. CASE m \in processed
    <3>1. Contested(t)
        BY <1>3, <2>1, <2>2 DEF HandInv, Unprocessed, Triaging, Contested
    <3> QED
        BY <3>1, ContestedStays DEF Tracked
  <2> QED
      BY <1>3, <2>1, <2>2, MessageSettles DEF Tracked
<1> QED
    BY <1>1, <1>2, <1>3, FlagKinds DEF TrackInv

LEMMA AbandonedStep ==
    ASSUME TypeInv, DeskInv, AbandonedInv, [Next]_vars
    PROVE  AbandonedInv'
<1> SUFFICES ASSUME NEW item \in abandoned', item[2] # 0
             PROVE  item[2] \in DOMAIN reviews' /\ reviews'[item[2]].ticket = item[1]
    BY DEF AbandonedInv
<1>1. CASE item \in abandoned
    BY <1>1, RowsAndReviewsGrow DEF AbandonedInv, ReviewsGrow
<1>2. CASE item \notin abandoned
  <2>1. PICK r \in Reviewers : Abort(r) /\ item \in work[r]
      BY <1>2, OneRequestMoves
         DEF Next, vars, review, Decision, OpenReview, OpenFeedback, Resolve, ResolveTooLate,
             Feedback, AuditFeedback, Override, AuditReview, Abort, Turn
  <2>2. item[2] \in DOMAIN reviews /\ reviews[item[2]].ticket = item[1]
      BY <2>1 DEF DeskInv, RequestInv
  <2> QED
      BY <2>2, RowsAndReviewsGrow DEF ReviewsGrow
<1> QED
    BY <1>1, <1>2

SystemInv == GroupInv /\ PhaseInv /\ DeskInv /\ TrackInv /\ AbandonedInv

LEMMA Systems == Spec => []SystemInv
<1>1. Init => TrackInv /\ AbandonedInv
    BY DEF Init, StoreInit, ConsumerInit, DeskInit, TrackInv, FlagInv, Flagged, AbandonedInv
<1>2. Init => SystemInv
    BY <1>1, InitType, InitOffsets, InitHands, InitPhases, InitDesk DEF SystemInv, GroupInv
<1>3. SystemInv /\ [Next]_vars => SystemInv'
    BY TypeStep, OffsetStep, HandStep, PhaseStep, DeskStep, TrackStep, AbandonedStep
       DEF SystemInv, GroupInv
<1> QED
    BY <1>2, <1>3, PTL DEF Spec

\* A flagged ticket never falls between triage and the review queue: it has a pending
\* review, a message that will still lead to one, or a decision under way, unless its
\* message was given up or cut off, its decision abandoned, or two instances had one of
\* its messages in hand at once; with any number of instances, reviewers and faults.
THEOREM FlaggedTracked == Spec => []FlaggedIsTracked
<1>1. SystemInv => FlaggedIsTracked
  <2> SUFFICES ASSUME SystemInv, NEW t \in Tickets, Flagged(t)
               PROVE  \/ PendingFor(t) # {} \/ Open(t) \/ Deciding(t)
                      \/ CutOff(t) \/ GivenUp(t) \/ Contested(t)
      BY DEF FlaggedIsTracked
  <2>1. Overriding(t) => Deciding(t)
      BY DEF Overriding, Deciding, Finishing
  <2>2. Tracked(t) \/ Owes(t)
      BY DEF SystemInv, TrackInv
  <2> QED
      BY <2>1, <2>2, OwedIsOpen DEF Tracked, SystemInv, GroupInv
<1> QED
    BY <1>1, Systems, PTL

\* The processed_events row comes last: with it, the result, the risk decision and both
\* audit entries are in the tables, and the review if the result asks for one, but for
\* a ticket of which a message is still to be handled, was given up or cut off, or was
\* in the hands of two instances at once.
THEOREM ProcessedComplete == Spec => []ProcessedIsComplete
<1>1. SystemInv => ProcessedIsComplete
  <2> SUFFICES ASSUME SystemInv, NEW m \in processed, NEW t, t = TicketOf(m)
               PROVE  /\ Triaged(t) /\ t \in decided
                      /\ {"TRIAGE_COMPLETED", "RISK_DECISION_MADE"}
                           \subseteq {a \in AuditActions : <<t, a>> \in audit}
                      /\ Flagged(t) => Queued(t) \/ Owes(t) \/ CutOff(t) \/ Contested(t)
      BY DEF ProcessedIsComplete
  <2>1. Complete(t) /\ m \in Messages
      BY DEF SystemInv, PhaseInv
  <2>2. t \in Tickets
      BY <2>1, TicketType DEF SystemInv, GroupInv, TypeInv
  <2>3. PendingFor(t) # {} => Queued(t)
      BY DEF PendingFor, PendingReviews, Queued
  <2>4. Overriding(t) => Queued(t)
    <3> SUFFICES ASSUME NEW r \in Reviewers, NEW item \in work[r], item[1] = t, item[2] # 0
                 PROVE  Queued(t)
        BY DEF Overriding
    <3>1. RequestInv(r)
        BY DEF SystemInv, DeskInv
    <3>2. item[2] \in DOMAIN reviews /\ reviews[item[2]].ticket = t
        BY <3>1 DEF RequestInv
    <3> QED
        BY <3>2 DEF Queued
  <2>5. GivenUp(t) => Queued(t)
      BY DEF GivenUp, Queued, SystemInv, AbandonedInv
  <2> QED
      BY <2>1, <2>2, <2>3, <2>4, <2>5
         DEF Complete, AuditActions, SystemInv, TrackInv, Tracked
<1> QED
    BY <1>1, Systems, PTL
=============================================================================
