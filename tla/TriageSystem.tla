---------------------------- MODULE TriageSystem ----------------------------
(***************************************************************************)
(* The triage service: consumer instances and review requests over one     *)
(* database.  The outbox relay of the ingestion service appears as the     *)
(* Produce action: any number of copies of a ticket's event, in any order. *)
(* Platform puts TicketOutbox in its place.                                *)
(***************************************************************************)
EXTENDS TriageConsumer, ReviewDesk

vars == <<store, consumer, review>>

TypeOK == StoreTypeOK /\ ConsumerTypeOK /\ DeskTypeOK

Init == StoreInit /\ ConsumerInit /\ DeskInit

Next ==
    \/ ConsumerNext /\ UNCHANGED review
    \/ DeskNext /\ UNCHANGED consumer

Spec == Init /\ [][Next]_vars

FairSpec == Spec /\ ConsumerFairness

-----------------------------------------------------------------------------
\* Properties of the composition.

\* Some message of t is still to be handled, or to be handled again.
Open(t) ==
    \E m \in Messages :
        /\ TicketOf(m) = t
        /\ m[2] > committed[m[1]] \/ \E w \in Workers : m \in inHand[w]

\* The decision of a review of t is under way, or was abandoned; feedback on t that
\* belongs to no review counts for neither.
Deciding(t) == \E r \in Reviewers : \E item \in work[r] :
                  Finishing(r, item) /\ item[1] = t /\ item[2] # 0

GivenUp(t) == \E item \in abandoned : item[1] = t /\ item[2] # 0

\* A flagged ticket never falls between triage and the review queue: it has a
\* pending review, a message that will still lead to one, or a decision under
\* way, unless its message was given up or cut off, its decision abandoned, or two
\* instances had one of its messages in hand at once.
FlaggedIsTracked ==
    \A t \in Tickets : Flagged(t) =>
        \/ PendingFor(t) # {} \/ Open(t) \/ Deciding(t)
        \/ CutOff(t) \/ GivenUp(t) \/ Contested(t)

\* A result written by a person is the decision of the reviewer the queue names
\* for one of the ticket's reviews, however many requests raced for it.
OverrideIsByReviewer ==
    \A t \in Tickets : \A row \in result[t] : row.by # "MODEL" =>
        \E id \in DOMAIN reviews :
            reviews[id] = [ticket |-> t, status |-> "RESOLVED", reviewer |-> row.by]

\* "Triage completion writes an audit log" (README): a stored result is in the
\* audit log once the ticket's message is done with, unless it was given up, or
\* cut off by stop(), between the result and its entry.
TriageIsAudited ==
    \A t \in Tickets : Triaged(t) /\ ~Open(t) =>
        <<t, "TRIAGE_COMPLETED">> \in audit \/ CutOff(t)

\* "Allows review decisions and applies override to triage_results" (README): the
\* override a person has applied is not undone by the model.
OverrideStands ==
    [][\A t \in Tickets :
         (\E row \in result[t] : row.by # "MODEL") =>
           \A row \in result'[t] : row.by # "MODEL"]_result
=============================================================================
