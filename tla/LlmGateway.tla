----------------------------- MODULE LlmGateway -----------------------------
(***************************************************************************)
(* OpenRouterTriageClient, the way of the triage service to the language   *)
(* model, with its circuit breaker and the kill switch of its provider.    *)
(*                                                                         *)
(* One consumer task calls extract_features, a call at a time; while it    *)
(* waits for the answer, time passes and the governance endpoints run.     *)
(* The breaker lives in memory and dies with the process; the switch is a  *)
(* row of model_kill_switch.                                               *)
(***************************************************************************)
EXTENDS Integers

CONSTANTS
    Operators,        \* callers of the kill switch endpoints
    FailureThreshold, \* _CB_FAILURE_THRESHOLD
    RecoveryTicks,    \* _CB_RECOVERY_SECONDS, in ticks of the model's time
    MaxOutages,       \* bound: times the provider turns faulty
    MaxRestarts,      \* bound: times the process starts anew
    MaxToggles        \* bound: requests to the kill switch

ASSUME GatewayConstants ==
    /\ FailureThreshold \in Nat \ {0}
    /\ RecoveryTicks \in Nat \ {0}
    /\ MaxOutages \in Nat /\ MaxRestarts \in Nat /\ MaxToggles \in Nat

VARIABLES
    cb,       \* _cb_state
    failures, \* _cb_failures, up to the threshold it is compared with
    age,      \* now - _cb_opened_at, up to RecoveryTicks
    call,     \* "idle", or "waiting" for the answer to a request
    outcome,  \* what the last call of extract_features gave its caller
    provider, \* "healthy", or "faulty": answers anything, or nothing
    switch,   \* model_kill_switch.active, "absent" without a row
    logged,   \* the last kill switch entry of audit_logs
    desk,     \* per operator: the entry its request is about to write
    crossed,  \* the requests that were under way when the last one began, or that
              \* were cut off or failed since
    outages, restarts, toggles,
    \* History of the breaker:
    tries,    \* requests sent since the circuit opened, up to 2
    escaped   \* an exception has escaped extract_features since then

breaker == <<cb, failures, age>>
history == <<tries, escaped>>
control == <<switch, logged, desk, crossed, toggles>>
bounds == <<outages, restarts>>
vars == <<cb, failures, age, call, outcome, provider, switch, logged, desk, crossed,
          outages, restarts, toggles, tries, escaped>>

TypeOK ==
    /\ cb \in {"CLOSED", "OPEN", "HALF_OPEN"}
    /\ failures \in 0 .. FailureThreshold
    /\ age \in 0 .. RecoveryTicks
    /\ call \in {"idle", "waiting"}
    /\ outcome \in {"none", "features", "rules", "raised"}
    /\ provider \in {"healthy", "faulty"}
    /\ switch \in {"absent", "on", "off"}
    /\ logged \in {"absent", "on", "off"}
    /\ desk \in [Operators -> {"idle", "on", "off"}]
    /\ crossed \in SUBSET Operators
    /\ outages \in 0 .. MaxOutages
    /\ restarts \in 0 .. MaxRestarts
    /\ toggles \in 0 .. MaxToggles
    /\ tries \in 0 .. 2
    /\ escaped \in BOOLEAN

Init ==
    /\ cb = "CLOSED" /\ failures = 0 /\ age = RecoveryTicks
    /\ call = "idle" /\ outcome = "none"
    /\ provider = "healthy"
    /\ switch = "absent" /\ logged = "absent"
    /\ desk = [o \in Operators |-> "idle"] /\ crossed = {}
    /\ outages = 0 /\ restarts = 0 /\ toggles = 0
    /\ tries = 0 /\ escaped = FALSE

-----------------------------------------------------------------------------
\* The circuit breaker.

\* Variant: one success forgives one failure.
RecordSuccessByDecay ==
    /\ cb' = "CLOSED"
    /\ failures' = failures - 1
    /\ tries' = 0 /\ escaped' = FALSE
    /\ UNCHANGED age

\* Variant: the count survives a success.
RecordSuccessKeepingCount ==
    /\ cb' = "CLOSED"
    /\ tries' = 0 /\ escaped' = FALSE
    /\ UNCHANGED <<failures, age>>

\* _record_success
RecordSuccess ==
    /\ cb' = "CLOSED"
    /\ failures' = 0
    /\ tries' = 0 /\ escaped' = FALSE
    /\ UNCHANGED age

\* Variant: a failed probe is not a failure.
RecordFailureWhenClosed ==
    IF cb = "CLOSED" /\ failures + 1 >= FailureThreshold
    THEN /\ cb' = "OPEN" /\ age' = 0
         /\ failures' = FailureThreshold
         /\ tries' = 0 /\ escaped' = FALSE
    ELSE /\ failures' = IF cb = "CLOSED" THEN failures + 1 ELSE failures
         /\ UNCHANGED <<cb, age, history>>

\* _record_failure
RecordFailure ==
    IF failures + 1 >= FailureThreshold
    THEN /\ cb' = "OPEN" /\ age' = 0
         /\ failures' = FailureThreshold
         /\ tries' = 0 /\ escaped' = FALSE
    ELSE /\ failures' = failures + 1
         /\ UNCHANGED <<cb, age, history>>

-----------------------------------------------------------------------------
\* extract_features.

\* _check_circuit lets the call through, and the request goes out.
Send ==
    /\ call = "idle"
    /\ cb = "OPEN" => age = RecoveryTicks
    /\ call' = "waiting"
    /\ cb' = IF cb = "OPEN" THEN "HALF_OPEN" ELSE cb
    /\ tries' = IF tries < 2 THEN tries + 1 ELSE tries
    /\ UNCHANGED <<failures, age, outcome, provider, control, bounds, escaped>>

\* Variant: a refused call counts as a failure of the provider.
RefuseAndRecord ==
    /\ call = "idle"
    /\ cb = "OPEN" /\ age < RecoveryTicks
    /\ outcome' = "rules"
    /\ RecordFailure
    /\ UNCHANGED <<call, provider, control, bounds>>

\* _check_circuit holds the call back: rules-only fallback.
Refuse ==
    /\ call = "idle"
    /\ cb = "OPEN" /\ age < RecoveryTicks
    /\ outcome' = "rules"
    /\ UNCHANGED <<breaker, call, provider, control, bounds, history>>

\* The answer passes _parse_and_validate.
Understood ==
    /\ call = "waiting"
    /\ call' = "idle"
    /\ outcome' = "features"
    /\ RecordSuccess
    /\ UNCHANGED <<provider, control, bounds>>

\* Timeout, HTTP error, null content, missing keys, schema violation.
Failed ==
    /\ call = "waiting"
    /\ provider = "faulty"
    /\ call' = "idle"
    /\ outcome' = "rules"
    /\ RecordFailure
    /\ UNCHANGED <<provider, control, bounds>>

\* A body that is not JSON (ValueError) or an empty list of choices
\* (IndexError): the except clause lists neither, and records nothing.
Garbled ==
    /\ call = "waiting"
    /\ provider = "faulty"
    /\ call' = "idle"
    /\ outcome' = "raised"
    /\ escaped' = TRUE
    /\ UNCHANGED <<breaker, provider, control, bounds, tries>>

Answer == Understood \/ Failed \/ Garbled

\* Whose request has written the switch and not yet the log.
SwitchUsers == {o \in Operators : desk[o] # "idle"}

\* The process ends, and starts with the breaker of __init__.
Restart ==
    /\ restarts < MaxRestarts
    /\ restarts' = restarts + 1
    /\ cb' = "CLOSED" /\ failures' = 0 /\ age' = RecoveryTicks
    /\ call' = "idle" /\ outcome' = "none"
    /\ desk' = [o \in Operators |-> "idle"]
    /\ crossed' = crossed \cup SwitchUsers
    /\ tries' = 0 /\ escaped' = FALSE
    /\ UNCHANGED <<provider, switch, logged, outages, toggles>>

-----------------------------------------------------------------------------
\* The kill switch: a write to its row, then an entry in the log.
Activate(o) ==
    /\ desk[o] = "idle" /\ toggles < MaxToggles
    /\ toggles' = toggles + 1
    /\ switch' = "on"
    /\ desk' = [desk EXCEPT ![o] = "on"]
    /\ crossed' = SwitchUsers
    /\ UNCHANGED <<breaker, call, outcome, provider, logged, bounds, history>>

\* Variant: switching off leaves no entry in the log.
DeactivateUnlogged(o) ==
    /\ desk[o] = "idle" /\ toggles < MaxToggles
    /\ toggles' = toggles + 1
    /\ switch' = IF switch = "absent" THEN "absent" ELSE "off"
    /\ crossed' = SwitchUsers
    /\ UNCHANGED <<breaker, call, outcome, provider, logged, desk, bounds, history>>

\* An update: a provider without a row stays without one.
Deactivate(o) ==
    /\ desk[o] = "idle" /\ toggles < MaxToggles
    /\ toggles' = toggles + 1
    /\ switch' = IF switch = "absent" THEN "absent" ELSE "off"
    /\ desk' = [desk EXCEPT ![o] = "off"]
    /\ crossed' = SwitchUsers
    /\ UNCHANGED <<breaker, call, outcome, provider, logged, bounds, history>>

AuditSwitch(o) ==
    /\ desk[o] # "idle"
    /\ logged' = desk[o]
    /\ desk' = [desk EXCEPT ![o] = "idle"]
    /\ UNCHANGED <<breaker, call, outcome, provider, switch, crossed, toggles,
                   bounds, history>>

\* The insert of the entry raises: the request fails with its switch written.
AuditSwitchFails(o) ==
    /\ desk[o] # "idle"
    /\ desk' = [desk EXCEPT ![o] = "idle"]
    /\ crossed' = crossed \cup {o}
    /\ UNCHANGED <<breaker, call, outcome, provider, switch, logged, toggles, bounds,
                   history>>

-----------------------------------------------------------------------------
\* The environment.
Tick ==
    /\ age < RecoveryTicks
    /\ age' = age + 1
    /\ UNCHANGED <<cb, failures, call, outcome, provider, control, bounds, history>>

Outage ==
    /\ provider = "healthy" /\ outages < MaxOutages
    /\ provider' = "faulty" /\ outages' = outages + 1
    /\ UNCHANGED <<breaker, call, outcome, control, restarts, history>>

Recover ==
    /\ provider = "faulty"
    /\ provider' = "healthy"
    /\ UNCHANGED <<breaker, call, outcome, control, bounds, history>>

Desk(o) == Activate(o) \/ Deactivate(o) \/ AuditSwitch(o) \/ AuditSwitchFails(o)

Next ==
    \/ Send \/ Refuse \/ Answer \/ Restart
    \/ Tick \/ Outage \/ Recover
    \/ \E o \in Operators : Desk(o)

Spec == Init /\ [][Next]_vars

\* Tickets keep arriving, time passes, and a call ends: with an answer, or when
\* httpx gives up.
FairSpec ==
    Spec /\ WF_vars(Send) /\ WF_vars(Refuse) /\ WF_vars(Answer) /\ WF_vars(Tick)

-----------------------------------------------------------------------------
\* Properties.

\* The two halves of the breaker agree at every moment: it is closed exactly
\* when fewer failures than the threshold came in a row.  Nothing in the code
\* keeps them together but the order of the assignments on each path.
BreakerAgrees == cb = "CLOSED" <=> failures < FailureThreshold

\* "HALF_OPEN: allow one probe" (_check_circuit), as far as the code goes: a
\* provider that fails gets one request per recovery period, until an exception
\* that extract_features does not catch leaves the circuit half-open.
OneProbeUnlessEscaped == cb # "CLOSED" /\ ~escaped => tries <= 1

\* A provider that is healthy for good is used again, and for good: the circuit
\* does not stay open, and does not open once more.
RecoveredIsUsed == <>[](provider = "healthy") => <>[](cb = "CLOSED")

\* The last kill switch entry of the log tells the state of the switch, unless
\* the requests behind it overlapped, failed or were cut off: whatever confusion
\* there was, the next request that runs by itself ends it.
SwitchIsLogged ==
    crossed = {} /\ SwitchUsers = {} =>
        logged = switch \/ (switch = "absent" /\ logged = "off")
=============================================================================
