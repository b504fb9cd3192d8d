----------------------------- MODULE ReplayRuns ------------------------------
(***************************************************************************)
(* ReplayService: runs that score the risk decisions of a time window      *)
(* again.  POST /replay-runs stores a run and logs it; POST                *)
(* /replay-runs/{id}/execute reads the run whatever its status is, sets it *)
(* RUNNING, reads the window, and sets it COMPLETED.  Every statement is   *)
(* committed by itself, any number of requests may execute the same run,   *)
(* and the triage service goes on to add decisions meanwhile.              *)
(*                                                                         *)
(* _fetch_decisions_in_window builds each RiskDecision without the fields  *)
(* rule_version and prompt_version, which have no default: a window with a *)
(* decision in it raises TypeError, which nothing catches.  What comes     *)
(* after it in execute_run is therefore only reached with an empty window, *)
(* and no replay_decisions row is ever written.                            *)
(***************************************************************************)
EXTENDS Integers

CONSTANTS
    Runs,     \* replay_runs.id
    Callers,  \* clients of the replay endpoints
    MaxTime,  \* bound: time runs from 0 to MaxTime
    MaxAborts \* bound: requests that fail or die between two statements

ASSUME ReplayConstants == MaxTime \in Nat /\ MaxAborts \in Nat

Times == 0 .. MaxTime

VARIABLES
    now,       \* the time
    decisions, \* risk_decisions.created_at of the decisions one can see
    status,    \* replay_runs.status, "ABSENT" before the run exists
    window,    \* replay_runs.event_window_start and _end
    started,   \* the runs with started_at
    finished,  \* the runs with completed_at, and the summary of 0 decisions
    audit,     \* audit_logs: (run, action) pairs
    pc,        \* per caller: the statement its request is at
    run,       \* per caller: {} or the run of the request
    aborts,
    \* History:
    before,    \* per run: the decisions in its window when started_at was set
    hung       \* runs an execution left RUNNING, by raising or by being cut off

table   == <<status, window, started, finished>>
request == <<pc, run>>
history == <<before, hung>>
vars == <<now, decisions, status, window, started, finished, audit, pc, run,
          aborts, before, hung>>

Actions == {"REPLAY_STARTED", "REPLAY_COMPLETED"}

\* The statements of execute_run before which the run is RUNNING by this request.
Executing == {"fetch", "complete"}

TypeOK ==
    /\ now \in Times
    /\ decisions \in SUBSET Times
    /\ status \in [Runs -> {"ABSENT", "PENDING", "RUNNING", "COMPLETED"}]
    /\ window \in [Runs -> Times \X Times]
    /\ started \in SUBSET Runs
    /\ finished \in SUBSET Runs
    /\ audit \in SUBSET (Runs \X Actions)
    /\ pc \in [Callers -> {"idle", "auditStarted", "start", "auditCompleted"} \cup Executing]
    /\ run \in [Callers -> SUBSET Runs]
    /\ aborts \in 0 .. MaxAborts
    /\ before \in [Runs -> SUBSET Times]
    /\ hung \in SUBSET Runs

Init ==
    /\ now = 0
    /\ decisions = {}
    /\ status = [r \in Runs |-> "ABSENT"]
    /\ window = [r \in Runs |-> <<0, 0>>]
    /\ started = {} /\ finished = {}
    /\ audit = {}
    /\ pc = [c \in Callers |-> "idle"]
    /\ run = [c \in Callers |-> {}]
    /\ aborts = 0
    /\ before = [r \in Runs |-> {}]
    /\ hung = {}

-----------------------------------------------------------------------------
\* The triage service stores a decision; created_at is the time its statement
\* began, which may be long before the row can be seen.
Decide(time) ==
    /\ time <= now
    /\ decisions' = decisions \cup {time}
    /\ UNCHANGED <<now, table, audit, request, aborts, history>>

Tick ==
    /\ now < MaxTime
    /\ now' = now + 1
    /\ UNCHANGED <<decisions, table, audit, request, aborts, history>>

\* The request of c passes to its next statement, or is answered.
Passes(c, here, next) ==
    /\ pc[c] = here
    /\ pc' = [pc EXCEPT ![c] = next]
    /\ run' = IF next = "idle" THEN [run EXCEPT ![c] = {}] ELSE run

\* created_at >= start and created_at <= end
InWindow(r) ==
    {time \in decisions : window[r][1] <= time /\ time <= window[r][2]}

\* create_run up to the insert.  No check relates the ends of the window to each
\* other or to the time.
CreateRun(c, r, from, to) ==
    /\ pc[c] = "idle"
    /\ status[r] = "ABSENT"
    /\ status' = [status EXCEPT ![r] = "PENDING"]
    /\ window' = [window EXCEPT ![r] = <<from, to>>]
    /\ pc' = [pc EXCEPT ![c] = "auditStarted"]
    /\ run' = [run EXCEPT ![c] = {r}]
    /\ UNCHANGED <<now, decisions, started, finished, audit, aborts, history>>

AuditStarted(c) ==
    /\ Passes(c, "auditStarted", "idle")
    /\ audit' = audit \cup {<<r, "REPLAY_STARTED">> : r \in run[c]}
    /\ UNCHANGED <<now, decisions, table, aborts, history>>

\* execute_run: get_by_id finds the run.
BeginExecute(c, r) ==
    /\ pc[c] = "idle"
    /\ status[r] # "ABSENT"
    /\ pc' = [pc EXCEPT ![c] = "start"]
    /\ run' = [run EXCEPT ![c] = {r}]
    /\ UNCHANGED <<now, decisions, table, audit, aborts, history>>

\* update_status(RUNNING): started_at keeps its first value.
SetRunning(c) ==
    /\ Passes(c, "start", "fetch")
    /\ status' = [r \in Runs |-> IF r \in run[c] THEN "RUNNING" ELSE status[r]]
    /\ started' = started \cup run[c]
    /\ before' = [r \in Runs |-> IF r \in run[c] \ started
                                 THEN InWindow(r) ELSE before[r]]
    /\ UNCHANGED <<now, decisions, window, finished, audit, aborts, hung>>

\* Variant: a row that cannot be converted is caught and skipped.
FetchSkipsRows(c) ==
    /\ Passes(c, "fetch", "complete")
    /\ UNCHANGED <<now, decisions, table, audit, aborts, history>>

\* The challenger exists, as a foreign key says, and the window has no rows.
FetchNothing(c) ==
    /\ Passes(c, "fetch", "complete")
    /\ \A r \in run[c] : InWindow(r) = {}
    /\ UNCHANGED <<now, decisions, table, audit, aborts, history>>

\* The first row raises TypeError; main.py turns ValueError into an answer and
\* nothing else, and nothing touches the run.
FetchRaises(c) ==
    /\ Passes(c, "fetch", "idle")
    /\ \E r \in run[c] : InWindow(r) # {}
    /\ hung' = hung \cup run[c]
    /\ UNCHANGED <<now, decisions, table, audit, aborts, before>>

\* Variant: "and completed_at is null" in the update.
CompleteOnce(c) ==
    /\ Passes(c, "complete", "auditCompleted")
    /\ status' = [r \in Runs |-> IF r \in run[c] \ finished
                                 THEN "COMPLETED" ELSE status[r]]
    /\ finished' = finished \cup run[c]
    /\ hung' = hung \ run[c]
    /\ UNCHANGED <<now, decisions, window, started, audit, aborts, before>>

\* update_status(COMPLETED, 0, summary)
Complete(c) ==
    /\ Passes(c, "complete", "auditCompleted")
    /\ status' = [r \in Runs |-> IF r \in run[c] THEN "COMPLETED" ELSE status[r]]
    /\ finished' = finished \cup run[c]
    /\ hung' = hung \ run[c]
    /\ UNCHANGED <<now, decisions, window, started, audit, aborts, before>>

AuditCompleted(c) ==
    /\ Passes(c, "auditCompleted", "idle")
    /\ audit' = audit \cup {<<r, "REPLAY_COMPLETED">> : r \in run[c]}
    /\ UNCHANGED <<now, decisions, table, aborts, history>>

\* The request fails, or the process dies, between two statements.
Abort(c) ==
    /\ pc[c] # "idle"
    /\ aborts < MaxAborts
    /\ aborts' = aborts + 1
    /\ hung' = IF pc[c] \in Executing THEN hung \cup run[c] ELSE hung
    /\ pc' = [pc EXCEPT ![c] = "idle"]
    /\ run' = [run EXCEPT ![c] = {}]
    /\ UNCHANGED <<now, decisions, table, audit, before>>

RequestStep(c) ==
    \/ AuditStarted(c) \/ SetRunning(c) \/ FetchNothing(c) \/ FetchRaises(c)
    \/ Complete(c) \/ AuditCompleted(c) \/ Abort(c)

Next ==
    \/ Tick
    \/ \E time \in Times : Decide(time)
    \/ \E c \in Callers, r \in Runs :
         BeginExecute(c, r) \/ \E from, to \in Times : CreateRun(c, r, from, to)
    \/ \E c \in Callers : RequestStep(c)

Spec == Init /\ [][Next]_vars

-----------------------------------------------------------------------------
\* Properties.

UnderWay(r) == \E c \in Callers : pc[c] \in Executing /\ r \in run[c]

\* A run is RUNNING only while an execution is at work on it, or because one
\* raised or died in it and none has completed it since, however executions of
\* the run overlap.
RunningIsExplained ==
    \A r \in Runs : status[r] = "RUNNING" => UnderWay(r) \/ r \in hung

\* The summary of a run leaves out no decision that the window held at
\* started_at: not when decisions arrive during the run, nor when it is executed
\* several times, at the same time or one after the other.
SummaryMissesNothing == \A r \in finished : before[r] = {}

\* "Loads historical risk decisions in the window and re-scores them [...].
\* Stores aggregate comparison in result_summary on the replay run"
\* (execute_run): with no request cut off, a run whose execution has ended is no
\* longer RUNNING.
ExecutionEndsRun ==
    \A r \in Runs : status[r] = "RUNNING" => UnderWay(r)
=============================================================================
