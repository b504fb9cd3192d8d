--------------------------- MODULE OutboxContract ---------------------------
(***************************************************************************)
(* What the ingestion service promises about a ticket it has accepted:     *)
(* its event is written to the created topic or to the dead-letter topic   *)
(* before the outbox forgets it, and never for a ticket that was not       *)
(* accepted.  The event may be written any number of times, even after     *)
(* settlement (at-least-once).                                             *)
(*                                                                         *)
(* TicketOutbox implements this contract (TicketOutbox!Contract).          *)
(***************************************************************************)
CONSTANT Tickets

VARIABLES
    accepted,    \* tickets whose creation has been committed
    delivered,   \* tickets with an event in the created topic
    deadLettered,\* tickets with an event in the dead-letter topic
    settled      \* tickets whose outbox row the relay will never read again

vars == <<accepted, delivered, deadLettered, settled>>

TypeOK ==
    /\ accepted \subseteq Tickets
    /\ delivered \subseteq accepted
    /\ deadLettered \subseteq accepted
    /\ settled \subseteq delivered \cup deadLettered

Init ==
    /\ accepted = {}
    /\ delivered = {}
    /\ deadLettered = {}
    /\ settled = {}

Accept(t) ==
    /\ accepted' = accepted \cup {t}
    /\ UNCHANGED <<delivered, deadLettered, settled>>

Deliver(t) ==
    /\ t \in accepted
    /\ delivered' = delivered \cup {t}
    /\ UNCHANGED <<accepted, deadLettered, settled>>

DeadLetter(t) ==
    /\ t \in accepted
    /\ deadLettered' = deadLettered \cup {t}
    /\ UNCHANGED <<accepted, delivered, settled>>

Settle(batch) ==
    /\ batch \subseteq delivered \cup deadLettered
    /\ settled' = settled \cup batch
    /\ UNCHANGED <<accepted, delivered, deadLettered>>

Next ==
    \/ \E t \in Tickets : Accept(t) \/ Deliver(t) \/ DeadLetter(t)
    \/ \E batch \in SUBSET Tickets : Settle(batch)

Spec == Init /\ [][Next]_vars
=============================================================================
