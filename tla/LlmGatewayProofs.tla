-------------------------- MODULE LlmGatewayProofs --------------------------
(***************************************************************************)
(* The circuit breaker for every threshold and every recovery period: its   *)
(* state and its counter never disagree, and a failing provider is sent one *)
(* probe per period while no exception escapes.                             *)
(***************************************************************************)
EXTENDS LlmGateway, TLAPS

\* The inductive invariant.  A probe is out exactly in HALF_OPEN: what leaves
\* HALF_OPEN without a verdict on the provider is an escaped exception.
ProbeInv ==
    /\ BreakerAgrees
    /\ ~escaped => /\ cb = "OPEN" => tries = 0
                   /\ cb = "HALF_OPEN" => tries = 1 /\ call = "waiting"

\* A verdict on the provider, good or bad, leaves the invariant true.
LEMMA VerdictType ==
    ASSUME TypeOK, RecordSuccess \/ RecordFailure
    PROVE  /\ cb' \in {"CLOSED", "OPEN", "HALF_OPEN"}
           /\ failures' \in 0 .. FailureThreshold
           /\ age' \in 0 .. RecoveryTicks
           /\ tries' \in 0 .. 2
           /\ escaped' \in BOOLEAN
<1> USE GatewayConstants DEF TypeOK
<1>1. CASE RecordSuccess
  <2>1. escaped' = FALSE /\ tries' = 0 /\ cb' = "CLOSED" /\ failures' = 0 /\ age' = age
      BY <1>1 DEF RecordSuccess
  <2>2. escaped' \in BOOLEAN
      BY <2>1, Zenon
  <2> QED
      BY <2>1, <2>2
<1>2. CASE RecordFailure /\ failures + 1 >= FailureThreshold
  <2>1. /\ escaped' = FALSE /\ tries' = 0 /\ cb' = "OPEN" /\ age' = 0
        /\ failures' = FailureThreshold
      BY <1>2 DEF RecordFailure
  <2>2. escaped' \in BOOLEAN
      BY <2>1, Zenon
  <2> QED
      BY <2>1, <2>2
<1>3. CASE RecordFailure /\ ~(failures + 1 >= FailureThreshold)
  <2>1. UNCHANGED <<cb, age, tries, escaped>> /\ failures' = failures + 1
      BY <1>3 DEF RecordFailure, history
  <2> QED
      BY <1>3, <2>1
<1> QED
    BY <1>1, <1>2, <1>3

LEMMA VerdictKeepsProbe ==
    ASSUME TypeOK, ProbeInv, RecordSuccess \/ RecordFailure
    PROVE  ProbeInv'
<1> USE GatewayConstants
<1>1. CASE RecordSuccess
    BY <1>1 DEF TypeOK, ProbeInv, BreakerAgrees, RecordSuccess
<1>2. CASE RecordFailure /\ failures + 1 >= FailureThreshold
    BY <1>2 DEF TypeOK, ProbeInv, BreakerAgrees, RecordFailure
<1>3. CASE RecordFailure /\ failures + 1 < FailureThreshold
  <2>1. cb = "CLOSED" /\ cb' = "CLOSED" /\ failures' = failures + 1
      BY <1>3 DEF TypeOK, ProbeInv, BreakerAgrees, RecordFailure
  <2> QED
      BY <1>3, <2>1 DEF TypeOK, ProbeInv, BreakerAgrees
<1> QED
    BY <1>1, <1>2, <1>3 DEF TypeOK

LEMMA TypeStep == TypeOK /\ [Next]_vars => TypeOK'
<1> SUFFICES ASSUME TypeOK, [Next]_vars PROVE TypeOK'
    OBVIOUS
<1> USE GatewayConstants DEF breaker, history, control, bounds
<1>1. CASE Send
    BY <1>1 DEF Send, TypeOK
<1>2. CASE Refuse
    BY <1>2 DEF Refuse, TypeOK
<1>3. CASE Understood
    BY <1>3, VerdictType DEF Understood, TypeOK
<1>4. CASE Failed
    BY <1>4, VerdictType DEF Failed, TypeOK
<1>5. CASE Garbled
    BY <1>5 DEF Garbled, TypeOK
<1>6. CASE Restart
  <2>1. escaped' \in BOOLEAN
      BY <1>6, Zenon DEF Restart
  <2>2. /\ restarts' \in 0 .. MaxRestarts
        /\ tries' \in 0 .. 2
        /\ age' \in 0 .. RecoveryTicks
        /\ failures' \in 0 .. FailureThreshold
      BY <1>6 DEF Restart, TypeOK
  <2>3. crossed' \in SUBSET Operators
      BY <1>6 DEF Restart, SwitchUsers, TypeOK
  <2> QED
      BY <1>6, <2>1, <2>2, <2>3 DEF Restart, TypeOK
<1>7. CASE Tick
  <2>1. age' \in 0 .. RecoveryTicks
      BY <1>7 DEF Tick, TypeOK
  <2> QED
      BY <1>7, <2>1 DEF Tick, TypeOK
<1>8. CASE Outage \/ Recover
    BY <1>8 DEF Outage, Recover, TypeOK
<1>9. ASSUME NEW o \in Operators, Desk(o) PROVE TypeOK'
    BY <1>9 DEF Desk, Activate, Deactivate, AuditSwitch, AuditSwitchFails, SwitchUsers, TypeOK
<1>10. CASE UNCHANGED vars
    BY <1>10 DEF vars, TypeOK
<1> QED
    BY <1>1, <1>2, <1>3, <1>4, <1>5, <1>6, <1>7, <1>8, <1>9, <1>10
       DEF Next, Answer

LEMMA ProbeStep == TypeOK /\ ProbeInv /\ [Next]_vars => ProbeInv'
<1> SUFFICES ASSUME TypeOK, ProbeInv, [Next]_vars PROVE ProbeInv'
    OBVIOUS
<1> USE GatewayConstants DEF breaker, history, control, bounds
<1>1. CASE Send
  <2>1. CASE cb = "CLOSED"
      BY <1>1, <2>1 DEF Send, TypeOK, ProbeInv, BreakerAgrees
  <2>2. CASE cb = "OPEN"
      BY <1>1, <2>2 DEF Send, TypeOK, ProbeInv, BreakerAgrees
  <2>3. CASE cb = "HALF_OPEN"
    <3>1. escaped
        BY <1>1, <2>3 DEF Send, ProbeInv, TypeOK
    <3> QED
        BY <1>1, <2>3, <3>1 DEF Send, ProbeInv, BreakerAgrees
  <2> QED
      BY <2>1, <2>2, <2>3 DEF TypeOK
<1>2. CASE Refuse
    BY <1>2 DEF Refuse, ProbeInv, BreakerAgrees
<1>3. CASE Understood \/ Failed
    BY <1>3, VerdictKeepsProbe DEF Understood, Failed
<1>4. CASE Garbled
    BY <1>4 DEF Garbled, ProbeInv, BreakerAgrees
<1>5. CASE Restart
    BY <1>5 DEF Restart, ProbeInv, BreakerAgrees
<1>6. CASE Tick \/ Outage \/ Recover
    BY <1>6 DEF Tick, Outage, Recover, ProbeInv, BreakerAgrees
<1>7. ASSUME NEW o \in Operators, Desk(o) PROVE ProbeInv'
    BY <1>7 DEF Desk, Activate, Deactivate, AuditSwitch, AuditSwitchFails, ProbeInv, BreakerAgrees
<1>8. CASE UNCHANGED vars
    BY <1>8 DEF vars, ProbeInv, BreakerAgrees
<1> QED
    BY <1>1, <1>2, <1>3, <1>4, <1>5, <1>6, <1>7, <1>8 DEF Next, Answer

-----------------------------------------------------------------------------
LEMMA InitType == Init => TypeOK
<1>1. Init => escaped \in BOOLEAN
    BY Zenon DEF Init
<1>2. Init => /\ failures \in 0 .. FailureThreshold
              /\ age \in 0 .. RecoveryTicks
              /\ tries \in 0 .. 2
              /\ outages \in 0 .. MaxOutages
              /\ restarts \in 0 .. MaxRestarts
              /\ toggles \in 0 .. MaxToggles
    BY GatewayConstants DEF Init
<1> QED
    BY <1>1, <1>2 DEF Init, TypeOK

\* The client, its breaker and the switch keep their types.
THEOREM GatewayTypeCorrect == Spec => []TypeOK
    BY InitType, TypeStep, PTL DEF Spec

LEMMA ProbeInvariant == Spec => []ProbeInv
<1>1. Init => ProbeInv
    BY GatewayConstants DEF Init, ProbeInv, BreakerAgrees
<1> QED
    BY <1>1, ProbeStep, GatewayTypeCorrect, PTL DEF Spec

\* The breaker is closed exactly when fewer failures than the threshold came in
\* a row.
THEOREM BreakerIsConsistent == Spec => []BreakerAgrees
<1>1. ProbeInv => BreakerAgrees
    BY DEF ProbeInv
<1> QED
    BY <1>1, ProbeInvariant, PTL

\* One probe per recovery period, unless an exception escapes the client.
THEOREM ProbesAreSingle == Spec => []OneProbeUnlessEscaped
<1>1. TypeOK /\ ProbeInv => OneProbeUnlessEscaped
    BY DEF TypeOK, ProbeInv, OneProbeUnlessEscaped
<1> QED
    BY <1>1, ProbeInvariant, GatewayTypeCorrect, PTL

-----------------------------------------------------------------------------
(***************************************************************************)
(* SwitchIsLogged speaks of the moments without a request.  In between, a  *)
(* request that has the switch to itself holds the entry that will agree   *)
(* with the switch.                                                        *)
(***************************************************************************)

\* The entry agrees with the switch.
Agrees(entry, row) == entry = row \/ (row = "absent" /\ entry = "off")

SwitchInv ==
    crossed = {} =>
        /\ \A o, p \in SwitchUsers : o = p
        /\ \A o \in SwitchUsers : Agrees(desk[o], switch)
        /\ SwitchUsers = {} => Agrees(logged, switch)

\* A request that begins alone owes the log what it has just written.
LEMMA ToggleKeepsSwitch ==
    ASSUME TypeOK, NEW o \in Operators, Activate(o) \/ Deactivate(o)
    PROVE  SwitchInv'
<1> SUFFICES ASSUME crossed' = {}
             PROVE  /\ \A p, q \in SwitchUsers' : p = q
                    /\ \A p \in SwitchUsers' : Agrees(desk[p], switch)'
                    /\ SwitchUsers' # {}
    BY DEF SwitchInv
<1>1. SwitchUsers = {}
    BY DEF Activate, Deactivate
<1>2. /\ desk' \in [Operators -> {"idle", "on", "off"}]
      /\ desk'[o] \in {"on", "off"}
      /\ \A p \in Operators \ {o} : desk'[p] = desk[p]
    BY DEF TypeOK, Activate, Deactivate
<1>3. SwitchUsers' = {o}
    BY <1>1, <1>2 DEF SwitchUsers
<1>4. Agrees(desk[o], switch)'
    BY DEF TypeOK, Activate, Deactivate, Agrees
<1> QED
    BY <1>3, <1>4

LEMMA AuditKeepsSwitch ==
    ASSUME TypeOK, SwitchInv, NEW o \in Operators, AuditSwitch(o)
    PROVE  SwitchInv'
<1> SUFFICES ASSUME crossed' = {}
             PROVE  SwitchUsers' = {} /\ Agrees(logged, switch)'
    BY DEF SwitchInv
<1>1. crossed = {} /\ o \in SwitchUsers
    BY DEF AuditSwitch, SwitchUsers
<1>2. SwitchUsers = {o} /\ Agrees(desk[o], switch)
    BY <1>1 DEF SwitchInv
<1>3. SwitchUsers' = {}
    BY <1>2 DEF AuditSwitch, SwitchUsers, TypeOK
<1> QED
    BY <1>2, <1>3 DEF AuditSwitch, Agrees

\* A request that fails counts as crossed from then on.
LEMMA FailureCrosses ==
    ASSUME NEW o \in Operators, AuditSwitchFails(o)
    PROVE  SwitchInv'
BY DEF AuditSwitchFails, SwitchInv

LEMMA SwitchStep == TypeOK /\ SwitchInv /\ [Next]_vars => SwitchInv'
<1> SUFFICES ASSUME TypeOK, SwitchInv, [Next]_vars PROVE SwitchInv'
    OBVIOUS
<1>1. ASSUME UNCHANGED <<switch, logged, desk, crossed>> PROVE SwitchInv'
    BY <1>1 DEF SwitchInv, SwitchUsers, Agrees
<1>2. CASE Restart
  <2> SUFFICES ASSUME crossed' = {}
               PROVE  SwitchUsers' = {} /\ Agrees(logged, switch)'
      BY DEF SwitchInv
  <2>1. crossed = {} /\ SwitchUsers = {} /\ UNCHANGED <<switch, logged>>
      BY <1>2 DEF Restart
  <2>2. SwitchUsers' = {}
      BY <1>2 DEF Restart, SwitchUsers
  <2> QED
      BY <2>1, <2>2 DEF SwitchInv, Agrees
<1>3. ASSUME NEW o \in Operators, Desk(o) PROVE SwitchInv'
    BY <1>3, ToggleKeepsSwitch, AuditKeepsSwitch, FailureCrosses DEF Desk
<1>4. CASE Send \/ Refuse \/ Garbled \/ Tick \/ Outage \/ Recover
    BY <1>1, <1>4 DEF Send, Refuse, Garbled, Tick, Outage, Recover, control
<1>5. CASE Understood \/ Failed
    BY <1>1, <1>5 DEF Understood, Failed, control
<1>6. CASE UNCHANGED vars
    BY <1>1, <1>6 DEF vars
<1> QED
    BY <1>2, <1>3, <1>4, <1>5, <1>6 DEF Next, Answer

\* After a request that had the switch to itself, the log tells its state.
THEOREM LogTellsSwitch == Spec => []SwitchIsLogged
<1>1. Init => SwitchInv
    BY DEF Init, SwitchInv, SwitchUsers, Agrees
<1>2. SwitchInv => SwitchIsLogged
    BY DEF SwitchInv, SwitchIsLogged, Agrees
<1> QED
    BY <1>1, <1>2, SwitchStep, GatewayTypeCorrect, PTL DEF Spec
=============================================================================
