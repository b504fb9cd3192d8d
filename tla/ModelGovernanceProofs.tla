----------------------- MODULE ModelGovernanceProofs ------------------------
(***************************************************************************)
(* Type correctness of the model registry, the progression every model      *)
(* goes through, and the completeness of its audit log: for any number of   *)
(* models, of operators and of requests that overlap or fail half-way.      *)
(***************************************************************************)
EXTENDS ModelGovernance, TLAPS

\* The actions of the specification write the registry through these: all of
\* one model's stage and its history change together.
LEMMA SetStageType ==
    ASSUME TypeOK, NEW m \in Models, NEW s \in Stages, SetStage(m, s)
    PROVE  /\ stage' \in [Models -> Stages \cup {"ABSENT"}]
           /\ reached' \in [Models -> SUBSET Stages]
    BY DEF TypeOK, SetStage

LEMMA DoneType ==
    ASSUME TypeOK, NEW o \in Operators, Done(o)
    PROVE  /\ pc' \in [Operators -> Steps \cup {"idle"}]
           /\ model' \in [Operators -> SUBSET Models]
           /\ target' \in [Operators -> Stages]
           /\ victim' \in [Operators -> SUBSET Models]
    BY DEF TypeOK, Done, Steps

\* What a request still owes the log is a set of (model, stage) pairs.
LEMMA UnwrittenType ==
    ASSUME TypeOK, NEW o \in Operators
    PROVE  Unwritten(o) \in SUBSET (Models \X Stages)
    BY DEF TypeOK, Unwritten, Stages

LEMMA TypeStep == TypeOK /\ [Next]_vars => TypeOK'
<1> SUFFICES ASSUME TypeOK, [Next]_vars PROVE TypeOK'
    OBVIOUS
<1> USE GovernanceConstants DEF registry, request, Begins
<1>1. ASSUME NEW m \in Models, Register(m) PROVE TypeOK'
    BY <1>1, SetStageType DEF Register, TypeOK, Stages
<1>2. ASSUME NEW o \in Operators, NEW m \in Models, Retire(o, m) PROVE TypeOK'
    BY <1>2, SetStageType DEF Retire, TypeOK, Stages, Steps
<1>3. ASSUME NEW o \in Operators, NEW m \in Models, NEW s \in Stages,
             BeginPromote(o, m, s)
      PROVE  TypeOK'
    BY <1>3 DEF BeginPromote, TypeOK, Steps
<1>4. ASSUME NEW o \in Operators, FindVictim(o) PROVE TypeOK'
    BY <1>4 DEF FindVictim, GetPrimary, TypeOK, Steps
<1>5. ASSUME NEW o \in Operators, RetireVictim(o) PROVE TypeOK'
  <2>1. PICK m \in victim[o] : SetStage(m, "RETIRED")
      BY <1>5 DEF RetireVictim
  <2>2. m \in Models /\ "RETIRED" \in Stages
      BY DEF TypeOK, Stages
  <2> QED
      BY <1>5, <2>1, <2>2, SetStageType DEF RetireVictim, TypeOK, Steps
<1>6. ASSUME NEW o \in Operators, AuditVictim(o) PROVE TypeOK'
  <2>1. {<<m, "RETIRED">> : m \in victim[o]} \in SUBSET (Models \X Stages)
      BY DEF TypeOK, Stages
  <2> QED
      BY <1>6, <2>1 DEF AuditVictim, TypeOK, Steps
<1>7. ASSUME NEW o \in Operators, Promote(o) PROVE TypeOK'
  <2>1. PICK m \in model[o] :
          /\ SetStage(m, target[o])
          /\ IF target[o] = "PRIMARY"
             THEN /\ clock < MaxClock
                  /\ clock' = clock + 1
                  /\ promotedAt' = [promotedAt EXCEPT ![m] = clock + 1]
             ELSE UNCHANGED <<clock, promotedAt>>
      BY <1>7 DEF Promote
  <2>2. m \in Models /\ target[o] \in Stages
      BY DEF TypeOK
  <2>3. clock' \in 0 .. MaxClock /\ promotedAt' \in [Models -> 0 .. MaxClock]
      BY <2>1, <2>2 DEF TypeOK
  <2>4. pc' \in [Operators -> Steps \cup {"idle"}]
      BY <1>7 DEF Promote, TypeOK, Steps
  <2> QED
      BY <1>7, <2>1, <2>2, <2>3, <2>4, SetStageType DEF Promote, TypeOK
<1>8. ASSUME NEW o \in Operators, AuditDone(o) PROVE TypeOK'
  <2>1. {<<m, target[o]>> : m \in model[o]} \in SUBSET (Models \X Stages)
      BY DEF TypeOK
  <2> QED
      BY <1>8, <2>1, DoneType DEF AuditDone, TypeOK
<1>9. ASSUME NEW o \in Operators, Abort(o) PROVE TypeOK'
    BY <1>9, DoneType, UnwrittenType DEF Abort, TypeOK
<1>10. CASE UNCHANGED vars
    BY <1>10 DEF vars, TypeOK
<1> QED
    BY <1>1, <1>2, <1>3, <1>4, <1>5, <1>6, <1>7, <1>8, <1>9, <1>10
       DEF Next, RequestStep

\* The registry, the log and the requests in progress keep their types.
THEOREM TypeCorrect == Spec => []TypeOK
<1>1. Init => TypeOK
  <2>1. Init => overlapped \in BOOLEAN
      BY Zenon DEF Init
  <2>2. Init => clock \in 0 .. MaxClock /\ aborts \in 0 .. MaxAborts
                /\ promotedAt \in [Models -> 0 .. MaxClock]
      BY GovernanceConstants DEF Init
  <2> QED
      BY <2>1, <2>2 DEF Init, TypeOK, Stages, Steps
<1> QED
    BY <1>1, TypeStep, PTL DEF Spec

-----------------------------------------------------------------------------
(***************************************************************************)
(* NoStageSkipped is not inductive: a request checks the transition long    *)
(* before it writes the new stage, and by then another request may have     *)
(* moved the model.  What stays true is about the history: the stage that   *)
(* the check saw has been reached, and a stage once reached stays reached.  *)
(***************************************************************************)

\* The stages from which s may be entered.
Predecessors(s) == {p \in Stages : <<p, s>> \in ValidPromotions}

PathInv ==
    /\ NoStageSkipped
    /\ \A m \in Models : stage[m] # "ABSENT" => stage[m] \in reached[m]
    /\ \A o \in Operators :
         pc[o] \in {"getPrimary", "retireVictim", "auditVictim", "promote"} =>
             \A m \in model[o] :
                 Predecessors(target[o]) \cap reached[m] # {}

\* A step that adds s to the history of m keeps the history a path, when one of
\* the stages before s is in it already.
LEMMA PathGrows ==
    ASSUME TypeOK, PathInv, NEW m \in Models, NEW s \in Stages, SetStage(m, s),
           s \in {"CANDIDATE", "RETIRED"} \/ Predecessors(s) \cap reached[m] # {}
    PROVE  /\ NoStageSkipped'
           /\ \A n \in Models : stage'[n] # "ABSENT" => stage'[n] \in reached'[n]
           /\ \A n \in Models : reached[n] \subseteq reached'[n]
<1> DEFINE Path(r) == /\ "SHADOW" \in r => "CANDIDATE" \in r
                      /\ "CANARY" \in r => "SHADOW" \in r
                      /\ "PRIMARY" \in r => "CANARY" \in r
<1>1. /\ stage' = [stage EXCEPT ![m] = s]
      /\ reached' = [reached EXCEPT ![m] = @ \cup {s}]
      /\ stage \in [Models -> Stages \cup {"ABSENT"}]
      /\ reached \in [Models -> SUBSET Stages]
    BY DEF SetStage, TypeOK
<1>2. \A n \in Models : reached'[n] = IF n = m THEN reached[m] \cup {s} ELSE reached[n]
    BY <1>1
<1>3. Path(reached[m] \cup {s})
    BY DEF PathInv, NoStageSkipped, Predecessors, ValidPromotions, Stages
<1>4. \A n \in Models : Path(reached[n])
    BY DEF PathInv, NoStageSkipped
<1>5. \A n \in Models : Path(reached'[n])
    BY <1>2, <1>3, <1>4
<1>6. NoStageSkipped'
    BY <1>5 DEF NoStageSkipped
<1>7. \A n \in Models : stage'[n] # "ABSENT" => stage'[n] \in reached'[n]
    BY <1>1, <1>2 DEF PathInv
<1> QED
    BY <1>2, <1>6, <1>7

LEMMA PathStep == TypeOK /\ PathInv /\ [Next]_vars => PathInv'
<1> SUFFICES ASSUME TypeOK, PathInv, [Next]_vars PROVE PathInv'
    OBVIOUS
<1> USE DEF registry, request
<1> DEFINE Checked == {"getPrimary", "retireVictim", "auditVictim", "promote"}
<1>1. ASSUME NEW m \in Models, Register(m) PROVE PathInv'
  <2>1. /\ NoStageSkipped'
        /\ \A n \in Models : stage'[n] # "ABSENT" => stage'[n] \in reached'[n]
        /\ \A n \in Models : reached[n] \subseteq reached'[n]
      BY <1>1, PathGrows DEF Register, Stages
  <2>2. UNCHANGED <<pc, model, target>>
      BY <1>1 DEF Register
  <2> QED
      BY <2>1, <2>2 DEF PathInv, TypeOK
<1>2. ASSUME NEW o \in Operators, NEW m \in Models, Retire(o, m) PROVE PathInv'
  <2>1. /\ NoStageSkipped'
        /\ \A n \in Models : stage'[n] # "ABSENT" => stage'[n] \in reached'[n]
        /\ \A n \in Models : reached[n] \subseteq reached'[n]
      BY <1>2, PathGrows DEF Retire, Stages
  <2>2. pc'[o] = "auditRetired"
      BY <1>2 DEF Retire, TypeOK
  <2>3. \A p \in Operators \ {o} :
            pc'[p] = pc[p] /\ model'[p] = model[p] /\ target'[p] = target[p]
      BY <1>2 DEF Retire, TypeOK
  <2> QED
      BY <2>1, <2>2, <2>3 DEF PathInv, TypeOK
<1>3. ASSUME NEW o \in Operators, NEW m \in Models, NEW s \in Stages,
             BeginPromote(o, m, s)
      PROVE  PathInv'
  <2>1. stage[m] \in Predecessors(s) \cap reached[m]
      BY <1>3 DEF BeginPromote, Predecessors, PathInv, TypeOK, ValidPromotions
  <2>2. model'[o] = {m} /\ target'[o] = s
      BY <1>3 DEF BeginPromote, TypeOK
  <2>3. \A p \in Operators \ {o} :
            pc'[p] = pc[p] /\ model'[p] = model[p] /\ target'[p] = target[p]
      BY <1>3 DEF BeginPromote, TypeOK
  <2>4. reached' = reached /\ stage' = stage
      BY <1>3 DEF BeginPromote
  <2> QED
      BY <2>1, <2>2, <2>3, <2>4 DEF PathInv, NoStageSkipped
<1>4. ASSUME NEW o \in Operators, FindVictim(o) PROVE PathInv'
  <2>1. /\ UNCHANGED <<registry, model, target>>
        /\ pc[o] \in Checked
        /\ \A p \in Operators \ {o} : pc'[p] = pc[p]
      BY <1>4 DEF FindVictim, TypeOK
  <2> QED
      BY <2>1 DEF PathInv, NoStageSkipped
<1>5. ASSUME NEW o \in Operators, RetireVictim(o) PROVE PathInv'
  <2>1. PICK m \in victim[o] : SetStage(m, "RETIRED")
      BY <1>5 DEF RetireVictim
  <2>2. m \in Models /\ "RETIRED" \in Stages
      BY DEF TypeOK, Stages
  <2>3. /\ NoStageSkipped'
        /\ \A n \in Models : stage'[n] # "ABSENT" => stage'[n] \in reached'[n]
        /\ \A n \in Models : reached[n] \subseteq reached'[n]
      BY <2>1, <2>2, PathGrows
  <2>4. /\ UNCHANGED <<model, target>>
        /\ pc[o] \in Checked
        /\ \A p \in Operators \ {o} : pc'[p] = pc[p]
      BY <1>5 DEF RetireVictim, TypeOK
  <2> QED
      BY <2>3, <2>4 DEF PathInv, TypeOK
<1>6. ASSUME NEW o \in Operators, AuditVictim(o) PROVE PathInv'
  <2>1. /\ UNCHANGED <<registry, model, target>>
        /\ pc[o] \in Checked
        /\ \A p \in Operators \ {o} : pc'[p] = pc[p]
      BY <1>6 DEF AuditVictim, TypeOK
  <2> QED
      BY <2>1 DEF PathInv, NoStageSkipped
<1>7. ASSUME NEW o \in Operators, Promote(o) PROVE PathInv'
  <2>1. PICK m \in model[o] : SetStage(m, target[o])
      BY <1>7 DEF Promote
  <2>2. /\ m \in Models
        /\ target[o] \in Stages
        /\ Predecessors(target[o]) \cap reached[m] # {}
      BY <1>7, <2>1 DEF TypeOK, Promote, PathInv
  <2>3. /\ NoStageSkipped'
        /\ \A n \in Models : stage'[n] # "ABSENT" => stage'[n] \in reached'[n]
        /\ \A n \in Models : reached[n] \subseteq reached'[n]
      BY <2>1, <2>2, PathGrows
  <2>4. /\ UNCHANGED <<model, target>>
        /\ pc'[o] \notin Checked
        /\ \A p \in Operators \ {o} : pc'[p] = pc[p]
      BY <1>7 DEF Promote, TypeOK
  <2> QED
      BY <2>3, <2>4 DEF PathInv, TypeOK
<1>8. ASSUME NEW o \in Operators, Done(o), UNCHANGED registry PROVE PathInv'
  <2>1. /\ pc'[o] = "idle"
        /\ \A p \in Operators \ {o} :
             pc'[p] = pc[p] /\ model'[p] = model[p] /\ target'[p] = target[p]
      BY <1>8 DEF Done, TypeOK
  <2> QED
      BY <1>8, <2>1 DEF PathInv, NoStageSkipped
<1>9. CASE UNCHANGED vars
    BY <1>9 DEF vars, PathInv, NoStageSkipped
<1> QED
    BY <1>1, <1>2, <1>3, <1>4, <1>5, <1>6, <1>7, <1>8, <1>9
       DEF Next, RequestStep, AuditDone, Abort

\* No model is ever put in a stage of the progression without having been in
\* the one before it, whatever requests promote() and retire() interleave.
THEOREM ProgressionIsComplete == Spec => []NoStageSkipped
<1>1. Init => PathInv
    BY DEF Init, PathInv, NoStageSkipped
<1>2. PathInv => NoStageSkipped
    BY DEF PathInv
<1> QED
    BY <1>1, <1>2, PathStep, TypeCorrect, PTL DEF Spec

-----------------------------------------------------------------------------
(***************************************************************************)
(* StagesAreAudited is inductive as it stands: every write to the registry  *)
(* opens a debt in Unwritten, and a debt is only closed by an entry in the  *)
(* log or, when the request is cut off, in the record of lost entries.      *)
(***************************************************************************)

\* The pairs that have an explanation.
Explained == audit \cup unlogged \cup UNION {Unwritten(o) : o \in Operators}

\* A step that adds only explained pairs and withdraws no explanation.
LEMMA ExplainedKept ==
    ASSUME StagesAreAudited,
           Explained \subseteq Explained',
           \A m \in Models, s \in Stages \ {"CANDIDATE"} :
               s \in reached'[m] /\ s \notin reached[m] => <<m, s>> \in Explained'
    PROVE  StagesAreAudited'
<1>1. \A m \in Models, s \in Stages \ {"CANDIDATE"} :
          s \in reached[m] => <<m, s>> \in Explained
    BY DEF StagesAreAudited, Explained
<1>2. \A m \in Models, s \in Stages \ {"CANDIDATE"} :
          s \in reached'[m] => <<m, s>> \in Explained'
    BY <1>1
<1>3. \A m \in Models, s \in Stages \ {"CANDIDATE"} :
          <<m, s>> \in Explained' =>
            \/ <<m, s>> \in audit' \cup unlogged'
            \/ \E o \in Operators : <<m, s>> \in Unwritten(o)'
    BY Zenon DEF Explained
<1> QED
    BY ONLY <1>2, <1>3 DEF StagesAreAudited

\* One request takes a step: the debts of the others stay as they were.
LEMMA OneRequestMoves ==
    ASSUME NEW o \in Operators,
           \A p \in Operators \ {o} : Unwritten(p)' = Unwritten(p),
           audit \subseteq audit', unlogged \subseteq unlogged',
           Unwritten(o) \subseteq (audit \cup unlogged)' \cup Unwritten(o)'
    PROVE  Explained \subseteq Explained'
    BY DEF Explained

LEMMA AuditStep == TypeOK /\ StagesAreAudited /\ [Next]_vars => StagesAreAudited'
<1> SUFFICES ASSUME TypeOK, StagesAreAudited, [Next]_vars
             PROVE  StagesAreAudited'
    OBVIOUS
<1> USE DEF registry, request
<1>1. ASSUME NEW m \in Models, Register(m) PROVE StagesAreAudited'
  <2>1. Explained' = Explained
      BY <1>1 DEF Register, Explained, Unwritten
  <2>2. \A n \in Models, s \in Stages \ {"CANDIDATE"} :
            s \in reached'[n] => s \in reached[n]
      BY <1>1 DEF Register, SetStage, TypeOK
  <2> QED
      BY <2>1, <2>2, ExplainedKept
<1>2. ASSUME NEW o \in Operators, NEW m \in Models, Retire(o, m)
      PROVE  StagesAreAudited'
  <2>1. \A p \in Operators \ {o} : Unwritten(p)' = Unwritten(p)
      BY <1>2 DEF Retire, Unwritten, TypeOK
  <2>2. Unwritten(o) = {} /\ Unwritten(o)' = {<<m, "RETIRED">>}
      BY <1>2 DEF Retire, Unwritten, TypeOK
  <2>3. Explained \subseteq Explained'
      BY <1>2, <2>1, <2>2, OneRequestMoves DEF Retire
  <2>4. \A n \in Models, s \in Stages \ {"CANDIDATE"} :
            s \in reached'[n] /\ s \notin reached[n] => n = m /\ s = "RETIRED"
      BY <1>2 DEF Retire, SetStage, TypeOK
  <2>5. <<m, "RETIRED">> \in Explained'
      BY <2>2 DEF Explained
  <2> QED
      BY <2>3, <2>4, <2>5, ExplainedKept
<1>3. ASSUME NEW o \in Operators, UNCHANGED <<reached, audit, unlogged>>,
             pc[o] \in {"idle", "getPrimary"},
             \A p \in Operators \ {o} :
                 /\ pc'[p] = pc[p] /\ model'[p] = model[p]
                 /\ target'[p] = target[p] /\ victim'[p] = victim[p]
      PROVE  StagesAreAudited'
  <2>1. ASSUME NEW p \in Operators \ {o} PROVE Unwritten(p)' = Unwritten(p)
    <3>1. pc'[p] = pc[p] /\ model'[p] = model[p]
          /\ target'[p] = target[p] /\ victim'[p] = victim[p]
      BY ONLY <1>3, p \in Operators \ {o}
    <3> QED
      BY ONLY <3>1 DEF Unwritten
  <2>2. Unwritten(o) = {}
      BY <1>3 DEF Unwritten
  <2>3. Explained \subseteq Explained'
      BY <1>3, <2>1, <2>2, OneRequestMoves
  <2> QED
      BY <1>3, <2>3, ExplainedKept
<1>4. ASSUME NEW o \in Operators, RetireVictim(o) PROVE StagesAreAudited'
  <2>1. PICK m \in victim[o] : SetStage(m, "RETIRED")
      BY <1>4 DEF RetireVictim
  <2>2. \A p \in Operators \ {o} : Unwritten(p)' = Unwritten(p)
      BY <1>4 DEF RetireVictim, Unwritten, TypeOK
  <2>3. Unwritten(o) = {} /\ Unwritten(o)' = {<<n, "RETIRED">> : n \in victim[o]}
      BY <1>4 DEF RetireVictim, Unwritten, TypeOK
  <2>4. Explained \subseteq Explained'
      BY <1>4, <2>2, <2>3, OneRequestMoves DEF RetireVictim
  <2>5. \A n \in Models, s \in Stages \ {"CANDIDATE"} :
            s \in reached'[n] /\ s \notin reached[n] => n = m /\ s = "RETIRED"
      BY <2>1 DEF SetStage, TypeOK
  <2>6. <<m, "RETIRED">> \in Explained'
      BY <2>1, <2>3 DEF Explained
  <2> QED
      BY <2>4, <2>5, <2>6, ExplainedKept
<1>5. ASSUME NEW o \in Operators, AuditVictim(o) PROVE StagesAreAudited'
  <2>1. \A p \in Operators \ {o} : Unwritten(p)' = Unwritten(p)
      BY <1>5 DEF AuditVictim, Unwritten, TypeOK
  <2>2. Unwritten(o) \subseteq audit'
      BY <1>5 DEF AuditVictim, Unwritten
  <2>3. Explained \subseteq Explained'
      BY <1>5, <2>1, <2>2, OneRequestMoves DEF AuditVictim
  <2> QED
      BY <1>5, <2>3, ExplainedKept DEF AuditVictim
<1>6. ASSUME NEW o \in Operators, Promote(o) PROVE StagesAreAudited'
  <2>1. PICK m \in model[o] : SetStage(m, target[o])
      BY <1>6 DEF Promote
  <2>2. \A p \in Operators \ {o} : Unwritten(p)' = Unwritten(p)
      BY <1>6 DEF Promote, Unwritten, TypeOK
  <2>3. Unwritten(o) = {} /\ Unwritten(o)' = {<<n, target[o]>> : n \in model[o]}
      BY <1>6 DEF Promote, Unwritten, TypeOK
  <2>4. Explained \subseteq Explained'
      BY <1>6, <2>2, <2>3, OneRequestMoves DEF Promote
  <2>5. \A n \in Models, s \in Stages \ {"CANDIDATE"} :
            s \in reached'[n] /\ s \notin reached[n] => n = m /\ s = target[o]
      BY <2>1 DEF SetStage, TypeOK
  <2>6. <<m, target[o]>> \in Explained'
      BY <2>1, <2>3 DEF Explained
  <2> QED
      BY <2>4, <2>5, <2>6, ExplainedKept
<1>7. ASSUME NEW o \in Operators, Done(o), UNCHANGED registry,
             audit \subseteq audit', unlogged \subseteq unlogged',
             Unwritten(o) \subseteq (audit \cup unlogged)'
      PROVE  StagesAreAudited'
  <2>1. \A p \in Operators \ {o} : Unwritten(p)' = Unwritten(p)
      BY <1>7 DEF Done, Unwritten, TypeOK
  <2>2. Explained \subseteq Explained'
      BY <1>7, <2>1, OneRequestMoves
  <2> QED
      BY <1>7, <2>2, ExplainedKept
<1>8. ASSUME NEW o \in Operators, AuditDone(o) PROVE StagesAreAudited'
  <2>1. Unwritten(o) \subseteq audit'
      BY <1>8 DEF AuditDone, Unwritten
  <2> QED
      BY <1>7, <1>8, <2>1 DEF AuditDone
<1>9. ASSUME NEW o \in Operators, Abort(o) PROVE StagesAreAudited'
    BY <1>7, <1>9 DEF Abort
<1>10. ASSUME NEW o \in Operators, NEW m \in Models, NEW s \in Stages,
              BeginPromote(o, m, s)
       PROVE  StagesAreAudited'
    BY <1>3, <1>10 DEF BeginPromote, TypeOK
<1>11. ASSUME NEW o \in Operators, FindVictim(o) PROVE StagesAreAudited'
    BY <1>3, <1>11 DEF FindVictim, TypeOK
<1>12. CASE UNCHANGED vars
  <2>1. Explained' = Explained
      BY <1>12 DEF vars, Explained, Unwritten
  <2> QED
      BY <1>12, <2>1, ExplainedKept DEF vars
<1> QED
    BY <1>1, <1>2, <1>4, <1>5, <1>6, <1>8, <1>9, <1>10, <1>11, <1>12
       DEF Next, RequestStep

\* Every stage a model has been put in is in the audit log, about to be, or
\* belongs to a request known to have been cut off.
THEOREM RegistryIsAudited == Spec => []StagesAreAudited
<1>1. Init => StagesAreAudited
    BY DEF Init, StagesAreAudited
<1> QED
    BY <1>1, AuditStep, TypeCorrect, PTL DEF Spec

-----------------------------------------------------------------------------
(***************************************************************************)
(* One request at a time.  Until two requests overlap, what a request has   *)
(* read is still true when it writes: the stage it checked, and the primary *)
(* it found or did not find.                                                *)
(***************************************************************************)

NoPrimary == \A n \in Models : stage[n] # "PRIMARY"

\* What the request of o may rely on, at each of its statements.
Relies(o) ==
    /\ pc[o] \in {"getPrimary", "retireVictim", "auditVictim"} =>
         target[o] = "PRIMARY" /\ \A m \in model[o] : stage[m] = "CANARY"
    /\ pc[o] = "retireVictim" =>
         \A n \in victim[o] :
            /\ stage[n] = "PRIMARY"
            /\ \A k \in Models : stage[k] = "PRIMARY" => k = n
    /\ pc[o] = "auditVictim" => NoPrimary
    /\ pc[o] = "promote" =>
         /\ \A m \in model[o] : <<stage[m], target[o]>> \in ValidPromotions
         /\ target[o] = "PRIMARY" => NoPrimary

Alone(o) == \A p \in Operators \ {o} : pc[p] = "idle"

SerialInv ==
    ~overlapped =>
        /\ AtMostOnePrimary
        /\ \A o \in Operators : pc[o] # "idle" => Alone(o) /\ Relies(o)

LEMMA SerialStep == TypeOK /\ SerialInv /\ [Next]_vars => SerialInv'
<1> SUFFICES ASSUME TypeOK, SerialInv, [Next]_vars, ~overlapped'
             PROVE  /\ AtMostOnePrimary'
                    /\ \A o \in Operators :
                         pc'[o] # "idle" => Alone(o)' /\ Relies(o)'
    BY DEF SerialInv
<1> USE DEF registry, request, Begins
<1>1. ASSUME NEW m \in Models, Register(m)
      PROVE  /\ AtMostOnePrimary'
             /\ \A o \in Operators : pc'[o] # "idle" => Alone(o)' /\ Relies(o)'
  <2>1. /\ UNCHANGED <<pc, model, target, victim, overlapped>>
        /\ stage[m] = "ABSENT"
        /\ stage' = [stage EXCEPT ![m] = "CANDIDATE"]
      BY <1>1 DEF Register, SetStage
  <2>2. AtMostOnePrimary'
      BY <2>1 DEF SerialInv, AtMostOnePrimary, TypeOK
  <2>3. \A o \in Operators : pc'[o] # "idle" => Alone(o)' /\ Relies(o)'
      BY <2>1 DEF SerialInv, Alone, Relies, NoPrimary, TypeOK, ValidPromotions
  <2> QED
      BY <2>2, <2>3
<1>2. ASSUME NEW o \in Operators, NEW m \in Models, Retire(o, m)
      PROVE  /\ AtMostOnePrimary'
             /\ \A p \in Operators : pc'[p] # "idle" => Alone(p)' /\ Relies(p)'
  <2>1. /\ ~overlapped
        /\ \A p \in Operators : pc[p] = "idle"
        /\ stage' = [stage EXCEPT ![m] = "RETIRED"]
        /\ pc' = [pc EXCEPT ![o] = "auditRetired"]
      BY <1>2 DEF Retire, SetStage
  <2>2. AtMostOnePrimary'
      BY <2>1 DEF SerialInv, AtMostOnePrimary, TypeOK
  <2>3. \A p \in Operators : pc'[p] # "idle" => Alone(p)' /\ Relies(p)'
      BY <2>1 DEF Alone, Relies, TypeOK
  <2> QED
      BY <2>2, <2>3
<1>3. ASSUME NEW o \in Operators, NEW m \in Models, NEW s \in Stages,
             BeginPromote(o, m, s)
      PROVE  /\ AtMostOnePrimary'
             /\ \A p \in Operators : pc'[p] # "idle" => Alone(p)' /\ Relies(p)'
  <2>1. /\ ~overlapped
        /\ \A p \in Operators : pc[p] = "idle"
        /\ <<stage[m], s>> \in ValidPromotions
        /\ stage' = stage
        /\ pc' = [pc EXCEPT ![o] = IF s = "PRIMARY" THEN "getPrimary" ELSE "promote"]
        /\ model'[o] = {m} /\ target'[o] = s
      BY <1>3 DEF BeginPromote, TypeOK
  <2>2. AtMostOnePrimary'
      BY <2>1 DEF SerialInv, AtMostOnePrimary
  <2>3. \A p \in Operators : pc'[p] # "idle" => p = o /\ Alone(p)'
      BY <2>1 DEF Alone, TypeOK
  <2>4. Relies(o)'
      BY <2>1 DEF Relies, TypeOK, ValidPromotions
  <2> QED
      BY <2>2, <2>3, <2>4
<1>4. ASSUME NEW o \in Operators, RequestStep(o)
      PROVE  /\ AtMostOnePrimary'
             /\ \A p \in Operators : pc'[p] # "idle" => Alone(p)' /\ Relies(p)'
  <2>1. /\ ~overlapped
        /\ pc[o] # "idle"
        /\ pc' \in [Operators -> Steps \cup {"idle"}]
        /\ \A p \in Operators \ {o} : pc'[p] = pc[p]
      BY <1>4, TypeStep DEF RequestStep, FindVictim, RetireVictim, AuditVictim,
         Promote, AuditDone, Abort, Done, TypeOK
  <2>2. AtMostOnePrimary /\ Alone(o) /\ Relies(o)
      BY <2>1 DEF SerialInv
  <2>3. \A p \in Operators : pc'[p] # "idle" => p = o /\ Alone(p)'
      BY <2>1, <2>2 DEF Alone
  <2>4. SUFFICES AtMostOnePrimary' /\ (pc'[o] # "idle" => Relies(o)')
      BY <2>3
  <2>5. CASE FindVictim(o)
    <3>1. /\ UNCHANGED <<stage, promotedAt, model, target>>
          /\ pc[o] = "getPrimary"
          /\ \/ pc'[o] = "promote" /\ GetPrimary \ model[o] = {}
             \/ pc'[o] = "retireVictim"
                /\ \E n \in GetPrimary \ model[o] : victim'[o] = {n}
        BY <2>5 DEF FindVictim, TypeOK
    <3>2. \A n \in Models : stage[n] = "PRIMARY" => n \in GetPrimary \ model[o]
      <4>1. \A n \in Models : stage[n] = "PRIMARY" => n \notin model[o]
          BY <2>2, <3>1 DEF Relies
      <4>2. \A n \in Models : promotedAt[n] <= promotedAt[n]
          BY GovernanceConstants DEF TypeOK
      <4>3. \A n, k \in Models : stage[n] = "PRIMARY" /\ stage[k] = "PRIMARY"
                                 => promotedAt[k] <= promotedAt[n]
          BY <2>2, <4>2 DEF AtMostOnePrimary
      <4> QED
          BY <4>1, <4>3 DEF GetPrimary
    <3>3. \A n \in GetPrimary : n \in Models /\ stage[n] = "PRIMARY"
        BY DEF GetPrimary
    <3>4. AtMostOnePrimary'
        BY <2>2, <3>1 DEF AtMostOnePrimary
    <3>5. CASE pc'[o] = "promote" /\ GetPrimary \ model[o] = {}
        BY <2>2, <3>1, <3>2, <3>4, <3>5 DEF Relies, NoPrimary, ValidPromotions, TypeOK
    <3>6. CASE pc'[o] = "retireVictim"
               /\ \E n \in GetPrimary \ model[o] : victim'[o] = {n}
        BY <2>2, <3>1, <3>3, <3>4, <3>6 DEF Relies, AtMostOnePrimary
    <3> QED
        BY <3>1, <3>5, <3>6
  <2>6. CASE RetireVictim(o)
    <3>1. PICK n \in victim[o] : stage' = [stage EXCEPT ![n] = "RETIRED"]
        BY <2>6 DEF RetireVictim, SetStage
    <3>2. /\ UNCHANGED <<model, target>>
          /\ pc[o] = "retireVictim" /\ pc'[o] = "auditVictim"
          /\ model[o] \subseteq Models /\ n \in Models
        BY <2>6, <3>1 DEF RetireVictim, TypeOK
    <3>3. /\ target[o] = "PRIMARY"
          /\ \A m \in model[o] : stage[m] = "CANARY"
          /\ stage[n] = "PRIMARY"
          /\ \A k \in Models : stage[k] = "PRIMARY" => k = n
        BY <2>2, <3>1, <3>2 DEF Relies
    <3>4. \A k \in Models : stage'[k] = IF k = n THEN "RETIRED" ELSE stage[k]
        BY <3>1 DEF TypeOK
    <3>5. NoPrimary'
        BY <3>3, <3>4 DEF NoPrimary
    <3>6. \A m \in model'[o] : stage'[m] = "CANARY"
        BY <3>2, <3>3, <3>4
    <3> QED
        BY <3>2, <3>3, <3>5, <3>6 DEF Relies, AtMostOnePrimary, NoPrimary
  <2>7. CASE AuditVictim(o)
    <3>1. /\ UNCHANGED <<stage, model, target>>
          /\ pc[o] = "auditVictim" /\ pc'[o] = "promote"
        BY <2>7 DEF AuditVictim, TypeOK
    <3> QED
        BY <2>2, <3>1 DEF Relies, NoPrimary, AtMostOnePrimary, ValidPromotions
  <2>8. CASE Promote(o)
    <3>1. PICK m \in model[o] : stage' = [stage EXCEPT ![m] = target[o]]
        BY <2>8 DEF Promote, SetStage
    <3>2. pc[o] = "promote" /\ pc'[o] = "auditPromoted"
        BY <2>8 DEF Promote, TypeOK
    <3>3. AtMostOnePrimary'
        BY <2>2, <3>1, <3>2 DEF Relies, NoPrimary, AtMostOnePrimary, TypeOK
    <3> QED
        BY <3>2, <3>3 DEF Relies
  <2>9. CASE AuditDone(o) \/ Abort(o)
    <3>1. pc'[o] = "idle" /\ stage' = stage
        BY <2>9 DEF AuditDone, Abort, Done, TypeOK
    <3> QED
        BY <2>2, <3>1 DEF AtMostOnePrimary
  <2> QED
      BY <1>4, <2>5, <2>6, <2>7, <2>8, <2>9 DEF RequestStep
<1>5. CASE UNCHANGED vars
    BY <1>5 DEF vars, SerialInv, AtMostOnePrimary, Alone, Relies, NoPrimary
<1> QED
    BY <1>1, <1>2, <1>3, <1>4, <1>5 DEF Next

LEMMA SerialInvariant == Spec => []SerialInv
<1>1. Init => SerialInv
    BY DEF Init, SerialInv, AtMostOnePrimary
<1> QED
    BY <1>1, SerialStep, TypeCorrect, PTL DEF Spec

\* As long as no two requests overlap there is one primary at most, whichever of
\* the requests fail half-way.
THEOREM SerialKeepsOnePrimary == Spec => []OnePrimaryUnlessOverlapped
<1>1. SerialInv => OnePrimaryUnlessOverlapped
    BY DEF SerialInv, OnePrimaryUnlessOverlapped
<1> QED
    BY <1>1, SerialInvariant, PTL

\* As long as no two requests overlap, only the moves of the transition table,
\* and retirements, change the stage of a registered model.
THEOREM SerialMovesAreLegal == Spec => LegalUnlessOverlapped
<1> DEFINE Legal(m) ==
        /\ stage'[m] # stage[m]
        /\ stage[m] # "ABSENT"
        /\ stage'[m] # "RETIRED"
        /\ ~overlapped
        => <<stage[m], stage'[m]>> \in ValidPromotions
<1>1. TypeOK /\ SerialInv /\ [Next]_vars => [\A m \in Models : Legal(m)]_stage
  <2> SUFFICES ASSUME TypeOK, SerialInv, Next, NEW m \in Models,
                      stage'[m] # stage[m], stage[m] # "ABSENT",
                      stage'[m] # "RETIRED", ~overlapped
               PROVE  <<stage[m], stage'[m]>> \in ValidPromotions
      BY DEF vars
  <2>1. ASSUME NEW n \in Models, Register(n) PROVE FALSE
      BY <2>1 DEF Register, SetStage, TypeOK
  <2>2. ASSUME NEW o \in Operators, NEW n \in Models, Retire(o, n) PROVE FALSE
      BY <2>2 DEF Retire, SetStage, TypeOK
  <2>3. ASSUME NEW o \in Operators, RetireVictim(o) PROVE FALSE
      BY <2>3 DEF RetireVictim, SetStage, TypeOK
  <2>4. PICK o \in Operators : Promote(o)
      BY <2>1, <2>2, <2>3 DEF Next, RequestStep, BeginPromote, FindVictim,
         AuditVictim, AuditDone, Abort, registry
  <2>5. PICK n \in model[o] : stage' = [stage EXCEPT ![n] = target[o]]
      BY <2>4 DEF Promote, SetStage
  <2>6. n = m /\ stage'[m] = target[o]
      BY <2>5 DEF TypeOK
  <2>7. Relies(o) /\ pc[o] = "promote"
      BY <2>4 DEF Promote, SerialInv
  <2> QED
      BY <2>5, <2>6, <2>7 DEF Relies
<1> QED
    BY <1>1, TypeCorrect, SerialInvariant, PTL DEF Spec, LegalUnlessOverlapped

-----------------------------------------------------------------------------
(***************************************************************************)
(* PrimaryIsNotLost rests on two facts about a request that holds a victim: *)
(* it asks for PRIMARY, and it holds none before it has looked for one.     *)
(***************************************************************************)

VictimInv ==
    \A o \in Operators :
        /\ pc[o] \in {"idle", "getPrimary"} => victim[o] = {}
        /\ pc[o] \in {"getPrimary", "retireVictim", "auditVictim"} => target[o] = "PRIMARY"
        /\ pc[o] = "promote" /\ victim[o] # {} => target[o] = "PRIMARY"

LEMMA VictimStep == TypeOK /\ VictimInv /\ [Next]_vars => VictimInv'
<1> SUFFICES ASSUME TypeOK, VictimInv, [Next]_vars PROVE VictimInv'
    OBVIOUS
<1> USE DEF registry, request, VictimInv
<1>1. ASSUME NEW m \in Models, Register(m) PROVE VictimInv'
    BY <1>1 DEF Register
<1>2. ASSUME NEW o \in Operators, NEW m \in Models, Retire(o, m) PROVE VictimInv'
    BY <1>2 DEF Retire, TypeOK
<1>3. ASSUME NEW o \in Operators, NEW m \in Models, NEW s \in Stages,
             BeginPromote(o, m, s)
      PROVE  VictimInv'
    BY <1>3 DEF BeginPromote, TypeOK
<1>4. ASSUME NEW o \in Operators, FindVictim(o) PROVE VictimInv'
    BY <1>4 DEF FindVictim, TypeOK
<1>5. ASSUME NEW o \in Operators, RetireVictim(o) \/ AuditVictim(o) \/ Promote(o)
      PROVE  VictimInv'
    BY <1>5 DEF RetireVictim, AuditVictim, Promote, TypeOK
<1>6. ASSUME NEW o \in Operators, AuditDone(o) \/ Abort(o) PROVE VictimInv'
    BY <1>6 DEF AuditDone, Abort, Done, TypeOK
<1>7. CASE UNCHANGED vars
    BY <1>7 DEF vars
<1> QED
    BY <1>1, <1>2, <1>3, <1>4, <1>5, <1>6, <1>7 DEF Next, RequestStep

LEMMA PrimaryStep ==
    TypeOK /\ VictimInv /\ SerialInv /\ PrimaryIsNotLost /\ [Next]_vars
        => PrimaryIsNotLost'
<1> DEFINE Ever == \E m \in Models : "PRIMARY" \in reached[m]
           Kept == \/ \E m \in Models : stage[m] = "PRIMARY"
                   \/ \E o \in Operators : Superseding(o)
<1> SUFFICES ASSUME TypeOK, VictimInv, SerialInv, PrimaryIsNotLost, [Next]_vars,
                    ~overlapped', vacated' = {}, Ever'
             PROVE  Kept'
    BY DEF PrimaryIsNotLost
<1> USE DEF registry, request, Begins
\* What all steps but the promotion to PRIMARY have in common.
<1>1. ASSUME vacated = {}, ~overlapped, Ever PROVE Kept
    BY <1>1 DEF PrimaryIsNotLost
<1>2. ASSUME vacated = {}, ~overlapped, UNCHANGED <<stage, reached>>,
             \A o \in Operators : Superseding(o) => Superseding(o)'
      PROVE  Kept'
    BY <1>1, <1>2
<1>3. ASSUME NEW m \in Models, Register(m) PROVE Kept'
  <2>1. /\ vacated = {} /\ ~overlapped /\ UNCHANGED <<pc, victim>>
        /\ stage[m] = "ABSENT"
        /\ stage' = [stage EXCEPT ![m] = "CANDIDATE"]
        /\ reached' = [reached EXCEPT ![m] = @ \cup {"CANDIDATE"}]
      BY <1>3 DEF Register, SetStage
  <2>2. Ever
      BY <2>1 DEF TypeOK
  <2>3. \A n \in Models : stage[n] = "PRIMARY" => stage'[n] = "PRIMARY"
      BY <2>1 DEF TypeOK
  <2> QED
      BY <1>1, <2>1, <2>2, <2>3 DEF Superseding
<1>4. ASSUME NEW o \in Operators, NEW m \in Models, Retire(o, m) PROVE Kept'
  <2>1. /\ vacated = {} /\ ~overlapped /\ stage[m] # "PRIMARY"
        /\ \A p \in Operators : pc[p] = "idle"
        /\ stage' = [stage EXCEPT ![m] = "RETIRED"]
        /\ reached' = [reached EXCEPT ![m] = @ \cup {"RETIRED"}]
      BY <1>4 DEF Retire, SetStage
  <2>2. Ever
      BY <2>1 DEF TypeOK
  <2>3. \A n \in Models : stage[n] = "PRIMARY" => stage'[n] = "PRIMARY"
      BY <2>1 DEF TypeOK
  <2> QED
      BY <1>1, <2>1, <2>2, <2>3 DEF Superseding
<1>5. ASSUME NEW o \in Operators, NEW m \in Models, NEW s \in Stages,
             BeginPromote(o, m, s)
      PROVE  Kept'
  <2>1. \A p \in Operators : pc[p] = "idle"
      BY <1>5 DEF BeginPromote
  <2> QED
      BY <1>2, <1>5, <2>1 DEF BeginPromote, Superseding
<1>6. ASSUME NEW o \in Operators, FindVictim(o) PROVE Kept'
    BY <1>2, <1>6 DEF FindVictim, Superseding, TypeOK
<1>7. ASSUME NEW o \in Operators, RetireVictim(o) PROVE Kept'
    BY <1>7 DEF RetireVictim, Superseding, TypeOK
<1>8. ASSUME NEW o \in Operators, AuditVictim(o) PROVE Kept'
    BY <1>2, <1>8 DEF AuditVictim, Superseding, TypeOK
<1>9. ASSUME NEW o \in Operators, Promote(o) PROVE Kept'
  <2>1. PICK m \in model[o] :
          /\ stage' = [stage EXCEPT ![m] = target[o]]
          /\ reached' = [reached EXCEPT ![m] = @ \cup {target[o]}]
      BY <1>9 DEF Promote, SetStage
  <2>2. m \in Models
      BY <2>1 DEF TypeOK
  <2>3. CASE target[o] = "PRIMARY"
      BY <2>1, <2>2, <2>3 DEF TypeOK
  <2>4. CASE target[o] = "RETIRED"
      BY <1>9, <2>1, <2>4 DEF Promote
  <2>5. CASE target[o] \notin {"PRIMARY", "RETIRED"}
    <3>1. vacated = {} /\ ~overlapped /\ pc[o] = "promote" /\ victim' = victim
        BY <1>9, <2>5 DEF Promote
    <3>2. <<stage[m], target[o]>> \in ValidPromotions
        BY <2>1, <3>1 DEF SerialInv, Relies
    <3>3. stage[m] # "PRIMARY"
        BY <2>5, <3>2 DEF ValidPromotions
    <3>4. Ever
        BY <2>1, <2>2, <2>5 DEF TypeOK
    <3>5. \A n \in Models : stage[n] = "PRIMARY" => stage'[n] = "PRIMARY"
        BY <2>1, <2>2, <3>3 DEF TypeOK
    <3>6. \A p \in Operators : Superseding(p) => Superseding(p)'
      <4>1. victim[o] = {}
          BY <2>5, <3>1 DEF VictimInv
      <4>2. \A p \in Operators \ {o} : pc'[p] = pc[p]
          BY <1>9 DEF Promote, TypeOK
      <4> QED
          BY <3>1, <4>1, <4>2 DEF Superseding
    <3> QED
        BY <1>1, <3>1, <3>4, <3>5, <3>6
  <2> QED
      BY <2>3, <2>4, <2>5
<1>10. ASSUME NEW o \in Operators, AuditDone(o) PROVE Kept'
    BY <1>2, <1>10 DEF AuditDone, Done, Superseding, TypeOK
<1>11. ASSUME NEW o \in Operators, Abort(o) PROVE Kept'
  <2>1. ~Superseding(o) /\ vacated = {}
      BY <1>11 DEF Abort, Superseding
  <2>2. \A p \in Operators : Superseding(p) => Superseding(p)'
      BY <1>11, <2>1 DEF Abort, Done, Superseding, TypeOK
  <2> QED
      BY <1>2, <1>11, <2>1, <2>2 DEF Abort
<1>12. CASE UNCHANGED vars
    BY <1>2, <1>12 DEF vars, Superseding
<1> QED
    BY <1>3, <1>4, <1>5, <1>6, <1>7, <1>8, <1>9, <1>10, <1>11, <1>12
       DEF Next, RequestStep

\* Requests that do not overlap lose the primary only where they are cut off, or
\* asked to.
THEOREM PrimaryIsKept == Spec => []PrimaryIsNotLost
<1>1. Init => VictimInv /\ PrimaryIsNotLost
    BY DEF Init, VictimInv, PrimaryIsNotLost
<1> QED
    BY <1>1, VictimStep, PrimaryStep, TypeCorrect, SerialInvariant, PTL DEF Spec
=============================================================================
