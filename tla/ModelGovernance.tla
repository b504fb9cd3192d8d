-------------------------- MODULE ModelGovernance ---------------------------
(***************************************************************************)
(* ModelGovernanceService: registration, promotion and retirement of the   *)
(* models in model_registry.  promote() reads the model, checks the        *)
(* transition, looks for the current primary, retires it, and writes the   *)
(* new stage with an unconditional update: five to seven statements, each  *)
(* committed by itself, run by as many requests at a time as there are     *)
(* operators.                                                              *)
(***************************************************************************)
EXTENDS Integers

CONSTANTS
    Models,
    Operators,  \* people, or scripts, calling the governance endpoints
    MaxClock,   \* bound: promotions to PRIMARY
    MaxAborts   \* bound: requests that fail or die between two statements

ASSUME GovernanceConstants == MaxClock \in Nat /\ MaxAborts \in Nat

Stages == {"CANDIDATE", "SHADOW", "CANARY", "PRIMARY", "RETIRED"}

\* _VALID_PROMOTIONS, as pairs.
ValidPromotions ==
    {<<"CANDIDATE", "SHADOW">>, <<"SHADOW", "CANARY">>,
     <<"CANARY", "PRIMARY">>, <<"PRIMARY", "RETIRED">>}

VARIABLES
    stage,      \* model_registry.stage, "ABSENT" before registration
    promotedAt, \* model_registry.promoted_at, 0 for null
    clock,      \* now() at the last promotion to PRIMARY
    reached,    \* per model: the stages it has ever been in
    audit,      \* audit_logs: the (model, new stage) pairs it records
    pc,         \* per operator: the statement its request is at
    model,      \* per operator: {} or the model of the request
    target,     \* per operator: the stage asked for
    victim,     \* per operator: {} or the primary to be superseded
    unlogged,   \* (model, new stage) pairs whose audit entry was cut off
    overlapped, \* a request has begun while another was under way
    vacated,    \* primaries retired without a successor since the last promotion
                \* to PRIMARY: on request, or by a promotion that was cut off
    aborts

request == <<pc, model, target, victim>>
registry == <<stage, promotedAt, clock, reached>>
vars == <<stage, promotedAt, clock, reached, audit, pc, model, target, victim,
          unlogged, overlapped, vacated, aborts>>

Steps == {"getPrimary", "retireVictim", "auditVictim", "promote",
          "auditPromoted", "auditRetired"}

TypeOK ==
    /\ stage \in [Models -> Stages \cup {"ABSENT"}]
    /\ promotedAt \in [Models -> 0 .. MaxClock]
    /\ clock \in 0 .. MaxClock
    /\ reached \in [Models -> SUBSET Stages]
    /\ audit \in SUBSET (Models \X Stages)
    /\ pc \in [Operators -> Steps \cup {"idle"}]
    /\ model \in [Operators -> SUBSET Models]
    /\ target \in [Operators -> Stages]
    /\ victim \in [Operators -> SUBSET Models]
    /\ unlogged \in SUBSET (Models \X Stages)
    /\ overlapped \in BOOLEAN
    /\ vacated \in SUBSET Models
    /\ aborts \in 0 .. MaxAborts

Init ==
    /\ stage = [m \in Models |-> "ABSENT"]
    /\ promotedAt = [m \in Models |-> 0]
    /\ clock = 0
    /\ reached = [m \in Models |-> {}]
    /\ audit = {}
    /\ pc = [o \in Operators |-> "idle"]
    /\ model = [o \in Operators |-> {}]
    /\ target = [o \in Operators |-> "CANDIDATE"]
    /\ victim = [o \in Operators |-> {}]
    /\ unlogged = {}
    /\ overlapped = FALSE
    /\ vacated = {}
    /\ aborts = 0

-----------------------------------------------------------------------------
\* The update statements of ModelRegistryRepository: by id, on no condition.
SetStage(m, s) ==
    /\ stage' = [stage EXCEPT ![m] = s]
    /\ reached' = [reached EXCEPT ![m] = @ \cup {s}]

\* select ... where stage = 'PRIMARY' order by promoted_at desc limit 1
GetPrimary ==
    {m \in Models :
        /\ stage[m] = "PRIMARY"
        /\ \A n \in Models : stage[n] = "PRIMARY" => promotedAt[n] <= promotedAt[m]}

\* A request begins, beside the requests that are under way.
Begins == overlapped' = (overlapped \/ \E p \in Operators : pc[p] # "idle")

\* The request of o is answered.
Done(o) ==
    /\ pc' = [pc EXCEPT ![o] = "idle"]
    /\ model' = [model EXCEPT ![o] = {}]
    /\ victim' = [victim EXCEPT ![o] = {}]
    /\ UNCHANGED target

\* POST /models
Register(m) ==
    /\ stage[m] = "ABSENT"
    /\ SetStage(m, "CANDIDATE")
    /\ UNCHANGED <<promotedAt, clock, audit, request, unlogged, overlapped, vacated, aborts>>

\* Variant: the transition table is not consulted.
BeginPromoteAnywhere(o, m, s) ==
    /\ pc[o] = "idle"
    /\ stage[m] # "ABSENT"
    /\ model' = [model EXCEPT ![o] = {m}]
    /\ target' = [target EXCEPT ![o] = s]
    /\ pc' = [pc EXCEPT ![o] = IF s = "PRIMARY" THEN "getPrimary" ELSE "promote"]
    /\ Begins
    /\ UNCHANGED <<registry, audit, victim, unlogged, vacated, aborts>>

\* promote(): get_by_id and the check of the transition, which raises otherwise.
BeginPromote(o, m, s) ==
    /\ pc[o] = "idle"
    /\ <<stage[m], s>> \in ValidPromotions
    /\ model' = [model EXCEPT ![o] = {m}]
    /\ target' = [target EXCEPT ![o] = s]
    /\ pc' = [pc EXCEPT ![o] = IF s = "PRIMARY" THEN "getPrimary" ELSE "promote"]
    /\ Begins
    /\ UNCHANGED <<registry, audit, victim, unlogged, vacated, aborts>>

\* current_primary, unless it is the model itself.
FindVictim(o) ==
    /\ pc[o] = "getPrimary"
    /\ \/ /\ GetPrimary \ model[o] = {}
          /\ pc' = [pc EXCEPT ![o] = "promote"]
          /\ UNCHANGED victim
       \/ \E m \in GetPrimary \ model[o] :
            /\ pc' = [pc EXCEPT ![o] = "retireVictim"]
            /\ victim' = [victim EXCEPT ![o] = {m}]
    /\ UNCHANGED <<registry, audit, model, target, unlogged, overlapped, vacated, aborts>>

\* Variant: the old primary is only recorded as retired.
RetireVictimInLogOnly(o) ==
    /\ pc[o] = "retireVictim"
    /\ pc' = [pc EXCEPT ![o] = "auditVictim"]
    /\ UNCHANGED <<registry, audit, model, target, victim, unlogged, overlapped, vacated, aborts>>

RetireVictim(o) ==
    /\ pc[o] = "retireVictim"
    /\ \E m \in victim[o] : SetStage(m, "RETIRED")
    /\ pc' = [pc EXCEPT ![o] = "auditVictim"]
    /\ UNCHANGED <<promotedAt, clock, audit, model, target, victim, unlogged, overlapped, vacated, aborts>>

\* Variant: superseding the old primary ends the request.
AuditVictimAndReturn(o) ==
    /\ pc[o] = "auditVictim"
    /\ audit' = audit \cup {<<m, "RETIRED">> : m \in victim[o]}
    /\ Done(o)
    /\ UNCHANGED <<registry, unlogged, overlapped, vacated, aborts>>

AuditVictim(o) ==
    /\ pc[o] = "auditVictim"
    /\ audit' = audit \cup {<<m, "RETIRED">> : m \in victim[o]}
    /\ pc' = [pc EXCEPT ![o] = "promote"]
    /\ UNCHANGED <<registry, model, target, victim, unlogged, overlapped, vacated, aborts>>

\* registry_repo.promote
Promote(o) ==
    /\ pc[o] = "promote"
    /\ \E m \in model[o] :
         /\ SetStage(m, target[o])
         /\ IF target[o] = "PRIMARY"
            THEN /\ clock < MaxClock
                 /\ clock' = clock + 1
                 /\ promotedAt' = [promotedAt EXCEPT ![m] = clock + 1]
            ELSE UNCHANGED <<clock, promotedAt>>
    /\ vacated' = IF target[o] = "PRIMARY" THEN {}
                  ELSE IF target[o] = "RETIRED" THEN vacated \cup model[o]
                  ELSE vacated
    /\ pc' = [pc EXCEPT ![o] = "auditPromoted"]
    /\ UNCHANGED <<audit, model, target, victim, unlogged, overlapped, aborts>>

\* Variant: a withdrawn model gets a stage of its own, outside
\* model_registry_stage_check.
RetireAsWithdrawn(o, m) ==
    /\ pc[o] = "idle"
    /\ stage[m] # "ABSENT"
    /\ SetStage(m, "WITHDRAWN")
    /\ UNCHANGED vacated
    /\ pc' = [pc EXCEPT ![o] = "auditRetired"]
    /\ model' = [model EXCEPT ![o] = {m}]
    /\ target' = [target EXCEPT ![o] = "RETIRED"]
    /\ Begins
    /\ UNCHANGED <<promotedAt, clock, audit, victim, unlogged, aborts>>

\* POST /models/{id}/retire: any registered model, whatever its stage.
Retire(o, m) ==
    /\ pc[o] = "idle"
    /\ stage[m] # "ABSENT"
    /\ SetStage(m, "RETIRED")
    /\ vacated' = IF stage[m] = "PRIMARY" THEN vacated \cup {m} ELSE vacated
    /\ pc' = [pc EXCEPT ![o] = "auditRetired"]
    /\ model' = [model EXCEPT ![o] = {m}]
    /\ target' = [target EXCEPT ![o] = "RETIRED"]
    /\ Begins
    /\ UNCHANGED <<promotedAt, clock, audit, victim, unlogged, aborts>>

\* Variant: the last audit entry is written for supersession only.
AuditNothing(o) ==
    /\ pc[o] \in {"auditPromoted", "auditRetired"}
    /\ Done(o)
    /\ UNCHANGED <<registry, audit, unlogged, overlapped, vacated, aborts>>

\* The audit entry that ends promote() and retire().
AuditDone(o) ==
    /\ pc[o] \in {"auditPromoted", "auditRetired"}
    /\ audit' = audit \cup {<<m, target[o]>> : m \in model[o]}
    /\ Done(o)
    /\ UNCHANGED <<registry, unlogged, overlapped, vacated, aborts>>

\* What the request of o has written to the registry and not yet to the log.
Unwritten(o) ==
    CASE pc[o] = "auditVictim" -> {<<m, "RETIRED">> : m \in victim[o]}
      [] pc[o] \in {"auditPromoted", "auditRetired"} ->
           {<<m, target[o]>> : m \in model[o]}
      [] OTHER -> {}

\* o has retired the old primary and not yet promoted the new one.
Superseding(o) == pc[o] \in {"auditVictim", "promote"} /\ victim[o] # {}

\* The request fails, or the process dies, between two statements.
Abort(o) ==
    /\ pc[o] # "idle"
    /\ aborts < MaxAborts
    /\ aborts' = aborts + 1
    /\ unlogged' = unlogged \cup Unwritten(o)
    /\ vacated' = IF Superseding(o) THEN vacated \cup victim[o] ELSE vacated
    /\ Done(o)
    /\ UNCHANGED <<registry, audit, overlapped>>

RequestStep(o) ==
    \/ FindVictim(o) \/ RetireVictim(o) \/ AuditVictim(o) \/ Promote(o)
    \/ AuditDone(o) \/ Abort(o)

Next ==
    \/ \E m \in Models : Register(m)
    \/ \E o \in Operators, m \in Models :
         Retire(o, m) \/ \E s \in Stages : BeginPromote(o, m, s)
    \/ \E o \in Operators : RequestStep(o)

Spec == Init /\ [][Next]_vars

-----------------------------------------------------------------------------
\* Properties.

\* "When promoting to PRIMARY, retire any existing primary" (promote): the
\* registry never has two primaries.
AtMostOnePrimary ==
    \A m, n \in Models : stage[m] = "PRIMARY" /\ stage[n] = "PRIMARY" => m = n

\* As long as no two requests overlap the sentence is true, also when a request
\* fails between the retirement of the old primary and the promotion.
OnePrimaryUnlessOverlapped == ~overlapped => AtMostOnePrimary

\* "Enforces the candidate -> shadow -> canary -> primary progression" (module
\* docstring): apart from retirement, a model only moves along that chain.  When
\* requests overlap it may come back from RETIRED.
LegalUnlessOverlapped ==
    [][\A m \in Models :
         /\ stage'[m] # stage[m]
         /\ stage[m] # "ABSENT"
         /\ stage'[m] # "RETIRED"
         /\ ~overlapped
         => <<stage[m], stage'[m]>> \in ValidPromotions]_stage

\* However requests overlap or fail half-way, a model is put in a stage only
\* after it has been in every stage before it: nothing unshadowed gets traffic.
NoStageSkipped ==
    \A m \in Models :
        /\ "SHADOW" \in reached[m] => "CANDIDATE" \in reached[m]
        /\ "CANARY" \in reached[m] => "SHADOW" \in reached[m]
        /\ "PRIMARY" \in reached[m] => "CANARY" \in reached[m]

\* The log explains the registry: every stage a model has been put in after its
\* registration is in the audit log, or about to be, or its request was cut off.
StagesAreAudited ==
    \A m \in Models, s \in Stages \ {"CANDIDATE"} :
        s \in reached[m] =>
            \/ <<m, s>> \in audit \cup unlogged
            \/ \E o \in Operators : <<m, s>> \in Unwritten(o)

\* Requests that do not overlap leave the registry without a primary, once it
\* has had one, only between the two updates of a promotion, and for good only
\* when one of them was cut off there or an operator retired the primary.
PrimaryIsNotLost ==
    ~overlapped /\ vacated = {} /\ (\E m \in Models : "PRIMARY" \in reached[m]) =>
        \/ \E m \in Models : stage[m] = "PRIMARY"
        \/ \E o \in Operators : Superseding(o)
=============================================================================
