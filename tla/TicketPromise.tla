---------------------------- MODULE TicketPromise ----------------------------
(***************************************************************************)
(* What the two services together promise the client whose ticket they     *)
(* have accepted: the ticket is triaged in the end, or it is written off   *)
(* where somebody can see it, in the dead-letter topic or in the log of    *)
(* the consumer.  A consumer task that has died holds the promise up until *)
(* its instance is restarted.                                              *)
(*                                                                         *)
(* An orderly shutdown breaks it: it skips the ticket it finds under way,  *)
(* silently.  What is promised of such tickets is that there is one at the *)
(* most for each shutdown.                                                 *)
(*                                                                         *)
(* Platform implements this promise (Platform!Promise).                    *)
(***************************************************************************)
EXTENDS Integers, FiniteSets

CONSTANTS
    Tickets,
    Unsendable \* tickets the promise does not cover: Kafka refuses their event

VARIABLES
    accepted,   \* tickets whose creation has been committed
    triaged,    \* tickets one of whose events has been recorded as processed
    writtenOff, \* tickets one of whose events was given up, visibly
    skipped,    \* tickets one of whose events a shutdown skipped, silently
    shutdowns,  \* orderly shutdowns so far
    stalled     \* a consumer task has died

vars == <<accepted, triaged, writtenOff, skipped, shutdowns, stalled>>

Init ==
    /\ accepted = {} /\ triaged = {} /\ writtenOff = {} /\ skipped = {}
    /\ shutdowns = 0
    /\ stalled = FALSE

Accept(t) ==
    /\ t \notin accepted
    /\ accepted' = accepted \cup {t}
    /\ UNCHANGED <<triaged, writtenOff, skipped, shutdowns, stalled>>

Triage(t) ==
    /\ t \in accepted
    /\ triaged' = triaged \cup {t}
    /\ UNCHANGED <<accepted, writtenOff, skipped, shutdowns, stalled>>

\* A consumer task may die over the event it gives up.
WriteOff(t) ==
    /\ t \in accepted
    /\ writtenOff' = writtenOff \cup {t}
    /\ stalled' \in {stalled, TRUE}
    /\ UNCHANGED <<accepted, triaged, skipped, shutdowns>>

Shutdown ==
    /\ shutdowns' = shutdowns + 1
    /\ UNCHANGED <<accepted, triaged, writtenOff, skipped, stalled>>

Skip(t) ==
    /\ t \in accepted
    /\ Cardinality(skipped) < shutdowns
    /\ skipped' = skipped \cup {t}
    /\ UNCHANGED <<accepted, triaged, writtenOff, shutdowns, stalled>>

\* The instance whose task has died goes down.
Recover ==
    /\ stalled' = FALSE
    /\ UNCHANGED <<accepted, triaged, writtenOff, skipped, shutdowns>>

Next ==
    \/ \E t \in Tickets : Accept(t) \/ Triage(t) \/ WriteOff(t) \/ Skip(t)
    \/ Shutdown \/ Recover

Kept ==
    \A t \in Tickets \ Unsendable :
        t \in accepted ~> t \in triaged \cup writtenOff \cup skipped \/ stalled

\* What is never done: a ticket taken back, triaged before it is accepted, or skipped
\* without a shutdown of its own.
Safety == Init /\ [][Next]_vars

Spec == Safety /\ Kept
=============================================================================
