-------------------------- MODULE ReplayRunsProofs ---------------------------
(***************************************************************************)
(* Replay runs: what the table says of a run is explained, and no summary  *)
(* leaves a decision out, for any number of runs, of callers, of decisions *)
(* that arrive meanwhile and of requests that are cut off.                 *)
(***************************************************************************)
EXTENDS ReplayRuns, TLAPS

LEMMA PassesType ==
    ASSUME TypeOK, NEW c \in Callers, NEW here,
           NEW next \in {"idle", "fetch", "complete", "auditCompleted"},
           Passes(c, here, next)
    PROVE  /\ pc' \in [Callers -> {"idle", "auditStarted", "start", "auditCompleted"}
                                    \cup Executing]
           /\ run' \in [Callers -> SUBSET Runs]
<1>1. pc' \in [Callers -> {"idle", "auditStarted", "start", "auditCompleted"} \cup Executing]
    BY DEF TypeOK, Passes, Executing
<1>2. run' \in [Callers -> SUBSET Runs]
  <2>1. run \in [Callers -> SUBSET Runs]
      BY DEF TypeOK
  <2>2. CASE next = "idle"
      BY <2>1, <2>2 DEF Passes
  <2>3. CASE next # "idle"
      BY <2>1, <2>3 DEF Passes
  <2> QED
      BY <2>2, <2>3
<1> QED
    BY <1>1, <1>2

LEMMA InitType == Init => TypeOK
    BY ReplayConstants DEF Init, TypeOK, Times, Executing

LEMMA TypeStep == TypeOK /\ [Next]_vars => TypeOK'
<1> SUFFICES ASSUME TypeOK, [Next]_vars PROVE TypeOK'
    OBVIOUS
<1> USE DEF table, request, history
<1>1. CASE Tick
  <2>1. now' \in Times
      BY <1>1, ReplayConstants DEF Tick, TypeOK, Times
  <2> QED
      BY <1>1, <2>1 DEF Tick, TypeOK
<1>2. ASSUME NEW time \in Times, Decide(time) PROVE TypeOK'
    BY <1>2 DEF Decide, TypeOK
<1>3. ASSUME NEW c \in Callers, NEW r \in Runs, BeginExecute(c, r) PROVE TypeOK'
    BY <1>3 DEF BeginExecute, TypeOK
<1>4. ASSUME NEW c \in Callers, NEW r \in Runs, NEW from \in Times, NEW to \in Times,
             CreateRun(c, r, from, to)
      PROVE  TypeOK'
    BY <1>4 DEF CreateRun, TypeOK
<1>5. ASSUME NEW c \in Callers, AuditStarted(c) \/ AuditCompleted(c) PROVE TypeOK'
  <2>1. run[c] \in SUBSET Runs
      BY DEF TypeOK
  <2>2. audit' \in SUBSET (Runs \X Actions)
      BY <1>5, <2>1 DEF AuditStarted, AuditCompleted, TypeOK, Actions
  <2> QED
      BY <1>5, <2>2, PassesType DEF AuditStarted, AuditCompleted, TypeOK
<1>6. ASSUME NEW c \in Callers, SetRunning(c) PROVE TypeOK'
  <2>1. before' \in [Runs -> SUBSET Times]
      BY <1>6 DEF SetRunning, InWindow, TypeOK
  <2>2. status' \in [Runs -> {"ABSENT", "PENDING", "RUNNING", "COMPLETED"}]
      BY <1>6 DEF SetRunning, TypeOK
  <2>3. started' \in SUBSET Runs
      BY <1>6 DEF SetRunning, TypeOK
  <2> QED
      BY <1>6, <2>1, <2>2, <2>3, PassesType DEF SetRunning, TypeOK
<1>7. ASSUME NEW c \in Callers, FetchNothing(c) PROVE TypeOK'
    BY <1>7, PassesType DEF FetchNothing, TypeOK
<1>8. ASSUME NEW c \in Callers, FetchRaises(c) PROVE TypeOK'
  <2>1. hung' \in SUBSET Runs
      BY <1>8 DEF FetchRaises, TypeOK
  <2> QED
      BY <1>8, <2>1, PassesType DEF FetchRaises, TypeOK
<1>9. ASSUME NEW c \in Callers, Complete(c) PROVE TypeOK'
  <2>1. finished' \in SUBSET Runs /\ hung' \in SUBSET Runs
      BY <1>9 DEF Complete, TypeOK
  <2>2. status' \in [Runs -> {"ABSENT", "PENDING", "RUNNING", "COMPLETED"}]
      BY <1>9 DEF Complete, TypeOK
  <2> QED
      BY <1>9, <2>1, <2>2, PassesType DEF Complete, TypeOK
<1>10. ASSUME NEW c \in Callers, Abort(c) PROVE TypeOK'
  <2>1. aborts' \in 0 .. MaxAborts
      BY <1>10, ReplayConstants DEF Abort, TypeOK
  <2>2. hung' \in SUBSET Runs
      BY <1>10 DEF Abort, TypeOK
  <2> QED
      BY <1>10, <2>1, <2>2 DEF Abort, TypeOK
<1>11. CASE UNCHANGED vars
    BY <1>11 DEF vars, TypeOK
<1> QED
    BY <1>1, <1>2, <1>3, <1>4, <1>5, <1>6, <1>7, <1>8, <1>9, <1>10, <1>11
       DEF Next, RequestStep

\* The run table and the requests keep their types.
THEOREM TypeCorrect == Spec => []TypeOK
    BY InitType, TypeStep, PTL DEF Spec

-----------------------------------------------------------------------------
(***************************************************************************)
(* RunningIsExplained is inductive by itself: a step of one request either  *)
(* leaves the executions of the others alone, or answers for the run it     *)
(* walks away from.                                                         *)
(***************************************************************************)

\* A step that writes no status and takes no run out of work explains as much
\* as the state before it.
LEMMA StillExplained ==
    ASSUME RunningIsExplained, UNCHANGED status, hung \subseteq hung',
           \A r \in Runs : UnderWay(r) => UnderWay(r)' \/ r \in hung'
    PROVE  RunningIsExplained'
    BY DEF RunningIsExplained

LEMMA ExplainedStep == TypeOK /\ RunningIsExplained /\ [Next]_vars => RunningIsExplained'
<1> SUFFICES ASSUME TypeOK, RunningIsExplained, [Next]_vars PROVE RunningIsExplained'
    OBVIOUS
<1> USE DEF table, request, history
<1>1. CASE Tick \/ (\E time \in Times : Decide(time)) \/ UNCHANGED vars
    BY <1>1, StillExplained DEF Tick, Decide, vars, UnderWay
<1>2. ASSUME NEW c \in Callers, NEW r \in Runs, BeginExecute(c, r)
      PROVE  RunningIsExplained'
  <2>1. \A s \in Runs : UnderWay(s) => UnderWay(s)'
      BY <1>2 DEF BeginExecute, UnderWay, Executing, TypeOK
  <2> QED
      BY <1>2, <2>1, StillExplained DEF BeginExecute
<1>3. ASSUME NEW c \in Callers, NEW r \in Runs, NEW from \in Times, NEW to \in Times,
             CreateRun(c, r, from, to)
      PROVE  RunningIsExplained'
  <2>1. \A s \in Runs : UnderWay(s) => UnderWay(s)'
      BY <1>3 DEF CreateRun, UnderWay, Executing, TypeOK
  <2>2. \A s \in Runs : status'[s] = "RUNNING" => status[s] = "RUNNING"
      BY <1>3 DEF CreateRun, TypeOK
  <2> QED
      BY <1>3, <2>1, <2>2 DEF CreateRun, RunningIsExplained
<1>4. ASSUME NEW c \in Callers, AuditStarted(c) \/ AuditCompleted(c)
      PROVE  RunningIsExplained'
  <2>1. \A s \in Runs : UnderWay(s) => UnderWay(s)'
      BY <1>4 DEF AuditStarted, AuditCompleted, Passes, UnderWay, Executing, TypeOK
  <2> QED
      BY <1>4, <2>1, StillExplained DEF AuditStarted, AuditCompleted
<1>5. ASSUME NEW c \in Callers, SetRunning(c) PROVE RunningIsExplained'
  <2>1. \A s \in Runs : UnderWay(s) => UnderWay(s)'
      BY <1>5 DEF SetRunning, Passes, UnderWay, Executing, TypeOK
  <2>2. \A s \in run[c] : UnderWay(s)'
      BY <1>5 DEF SetRunning, Passes, UnderWay, Executing, TypeOK
  <2>3. \A s \in Runs : s \notin run[c] => status'[s] = status[s]
      BY <1>5 DEF SetRunning
  <2> QED
      BY <1>5, <2>1, <2>2, <2>3 DEF SetRunning, RunningIsExplained
<1>6. ASSUME NEW c \in Callers, FetchNothing(c) PROVE RunningIsExplained'
  <2>1. \A s \in Runs : UnderWay(s) => UnderWay(s)'
      BY <1>6 DEF FetchNothing, Passes, UnderWay, Executing, TypeOK
  <2> QED
      BY <1>6, <2>1, StillExplained DEF FetchNothing
<1>7. ASSUME NEW c \in Callers, FetchRaises(c) PROVE RunningIsExplained'
  <2>1. \A s \in Runs : UnderWay(s) => UnderWay(s)' \/ s \in hung'
      BY <1>7 DEF FetchRaises, Passes, UnderWay, TypeOK
  <2> QED
      BY <1>7, <2>1, StillExplained DEF FetchRaises
<1>8. ASSUME NEW c \in Callers, Complete(c) PROVE RunningIsExplained'
  <2>1. \A s \in Runs : s \notin run[c] /\ UnderWay(s) => UnderWay(s)'
      BY <1>8 DEF Complete, Passes, UnderWay, TypeOK
  <2>2. \A s \in Runs : status'[s] = IF s \in run[c] THEN "COMPLETED" ELSE status[s]
      BY <1>8 DEF Complete
  <2> QED
      BY <1>8, <2>1, <2>2 DEF Complete, RunningIsExplained
<1>9. ASSUME NEW c \in Callers, Abort(c) PROVE RunningIsExplained'
  <2>1. \A s \in Runs : UnderWay(s) => UnderWay(s)' \/ s \in hung'
      BY <1>9 DEF Abort, UnderWay, TypeOK
  <2> QED
      BY <1>9, <2>1, StillExplained DEF Abort
<1> QED
    BY <1>1, <1>2, <1>3, <1>4, <1>5, <1>6, <1>7, <1>8, <1>9 DEF Next, RequestStep

\* A run is RUNNING because somebody works on it, or gave it up.
THEOREM RunsAreExplained == Spec => []RunningIsExplained
<1>1. Init => RunningIsExplained
    BY DEF Init, RunningIsExplained
<1> QED
    BY <1>1, ExplainedStep, TypeCorrect, PTL DEF Spec

-----------------------------------------------------------------------------
(***************************************************************************)
(* A window never loses a decision, so an execution that has seen it empty  *)
(* knows that it was empty at started_at.  That time is fixed before any    *)
(* execution looks, and the window before that.                             *)
(***************************************************************************)

SummaryInv ==
    /\ SummaryMissesNothing
    /\ finished \subseteq started
    /\ \A r \in started : status[r] # "ABSENT" /\ before[r] \subseteq InWindow(r)
    /\ \A c \in Callers :
         /\ pc[c] = "start" => \A r \in run[c] : status[r] # "ABSENT"
         /\ pc[c] \in Executing => run[c] \subseteq started
         /\ pc[c] = "complete" => \A r \in run[c] : before[r] = {}

LEMMA SummaryStep == TypeOK /\ SummaryInv /\ [Next]_vars => SummaryInv'
<1> SUFFICES ASSUME TypeOK, SummaryInv, [Next]_vars PROVE SummaryInv'
    OBVIOUS
<1> USE DEF table, request, history
<1>1. CASE Tick \/ UNCHANGED vars
    BY <1>1 DEF Tick, vars, SummaryInv, SummaryMissesNothing, InWindow
<1>2. ASSUME NEW time \in Times, Decide(time) PROVE SummaryInv'
  <2>1. \A r \in Runs : InWindow(r) \subseteq InWindow(r)'
      BY <1>2 DEF Decide, InWindow
  <2> QED
      BY <1>2, <2>1 DEF Decide, SummaryInv, SummaryMissesNothing, TypeOK
<1>3. ASSUME NEW c \in Callers, NEW r \in Runs, BeginExecute(c, r) PROVE SummaryInv'
    BY <1>3 DEF BeginExecute, SummaryInv, SummaryMissesNothing, InWindow, Executing, TypeOK
<1>4. ASSUME NEW c \in Callers, NEW r \in Runs, NEW from \in Times, NEW to \in Times,
             CreateRun(c, r, from, to)
      PROVE  SummaryInv'
  <2>1. r \notin started
      BY <1>4 DEF CreateRun, SummaryInv
  <2>2. \A s \in Runs \ {r} : InWindow(s)' = InWindow(s) /\ status'[s] = status[s]
      BY <1>4 DEF CreateRun, InWindow, TypeOK
  <2>3. status'[r] = "PENDING"
      BY <1>4 DEF CreateRun, TypeOK
  <2>4. \A d \in Callers : pc'[d] \in {"start"} \cup Executing =>
                             pc[d] = pc'[d] /\ run'[d] = run[d]
      BY <1>4 DEF CreateRun, Executing, TypeOK
  <2>5. \A s \in started' : status'[s] # "ABSENT" /\ before'[s] \subseteq InWindow(s)'
      BY <1>4, <2>1, <2>2 DEF CreateRun, SummaryInv, TypeOK
  <2>6. \A d \in Callers : pc'[d] = "start" => \A s \in run'[d] : status'[s] # "ABSENT"
      BY <2>2, <2>3, <2>4 DEF SummaryInv, TypeOK
  <2> QED
      BY <1>4, <2>4, <2>5, <2>6 DEF CreateRun, SummaryInv, SummaryMissesNothing, Executing
<1>5. ASSUME NEW c \in Callers, AuditStarted(c) \/ AuditCompleted(c) PROVE SummaryInv'
    BY <1>5 DEF AuditStarted, AuditCompleted, Passes, SummaryInv, SummaryMissesNothing,
       InWindow, Executing, TypeOK
<1>6. ASSUME NEW c \in Callers, SetRunning(c) PROVE SummaryInv'
  <2>1. /\ started' = started \cup run[c] /\ UNCHANGED <<decisions, window, finished>>
        /\ \A r \in Runs : status'[r] = IF r \in run[c] THEN "RUNNING" ELSE status[r]
        /\ \A r \in Runs : before'[r] = IF r \in run[c] \ started
                                        THEN InWindow(r) ELSE before[r]
      BY <1>6 DEF SetRunning
  <2>2. /\ pc[c] = "start" /\ pc'[c] = "fetch" /\ run' = run
        /\ \A d \in Callers \ {c} : pc'[d] = pc[d]
      BY <1>6 DEF SetRunning, Passes, TypeOK
  <2>3. \A r \in Runs : InWindow(r)' = InWindow(r)
      BY <2>1 DEF InWindow
  <2>4. \A r \in started : before'[r] = before[r]
      BY <2>1 DEF TypeOK
  <2>5. \A r \in started' : status'[r] # "ABSENT" /\ before'[r] \subseteq InWindow(r)'
      BY <2>1, <2>3 DEF SummaryInv, TypeOK
  <2>6. SummaryMissesNothing' /\ finished' \subseteq started'
      BY <2>1, <2>4 DEF SummaryInv, SummaryMissesNothing
  <2>7. \A d \in Callers :
          /\ pc'[d] = "start" => \A r \in run'[d] : status'[r] # "ABSENT"
          /\ pc'[d] \in Executing => run'[d] \subseteq started'
      BY <2>1, <2>2 DEF SummaryInv, Executing, TypeOK
  <2>8. \A d \in Callers : pc'[d] = "complete" => \A r \in run'[d] : before'[r] = {}
      BY <2>2, <2>4 DEF SummaryInv, Executing
  <2> QED
      BY <2>5, <2>6, <2>7, <2>8 DEF SummaryInv
<1>7. ASSUME NEW c \in Callers, FetchNothing(c) PROVE SummaryInv'
  <2>1. \A r \in run[c] : before[r] = {}
      BY <1>7 DEF FetchNothing, Passes, SummaryInv, Executing
  <2> QED
      BY <1>7, <2>1 DEF FetchNothing, Passes, SummaryInv, SummaryMissesNothing,
         InWindow, Executing, TypeOK
<1>8. ASSUME NEW c \in Callers, FetchRaises(c) PROVE SummaryInv'
    BY <1>8 DEF FetchRaises, Passes, SummaryInv, SummaryMissesNothing, InWindow,
       Executing, TypeOK
<1>9. ASSUME NEW c \in Callers, Complete(c) PROVE SummaryInv'
  <2>1. /\ \A r \in run[c] : before[r] = {} /\ r \in started
        /\ \A r \in Runs : status'[r] = IF r \in run[c] THEN "COMPLETED" ELSE status[r]
        /\ finished' = finished \cup run[c]
        /\ UNCHANGED <<decisions, window, started, before>>
      BY <1>9 DEF Complete, Passes, SummaryInv, Executing
  <2>2. /\ \A d \in Callers : pc'[d] # "auditCompleted" => pc'[d] = pc[d]
        /\ run' = run
      BY <1>9 DEF Complete, Passes, TypeOK
  <2>3. SummaryMissesNothing' /\ finished' \subseteq started'
      BY <2>1 DEF SummaryInv, SummaryMissesNothing
  <2>4. \A r \in started' : status'[r] # "ABSENT" /\ before'[r] \subseteq InWindow(r)'
      BY <2>1 DEF SummaryInv, InWindow, TypeOK
  <2> QED
      BY <2>1, <2>2, <2>3, <2>4 DEF SummaryInv, Executing, TypeOK
<1>10. ASSUME NEW c \in Callers, Abort(c) PROVE SummaryInv'
    BY <1>10 DEF Abort, SummaryInv, SummaryMissesNothing, InWindow, Executing, TypeOK
<1> QED
    BY <1>1, <1>2, <1>3, <1>4, <1>5, <1>6, <1>7, <1>8, <1>9, <1>10 DEF Next, RequestStep

\* No summary leaves out a decision that the window held at started_at.
THEOREM SummariesAreWhole == Spec => []SummaryMissesNothing
<1>1. Init => SummaryInv
    BY DEF Init, SummaryInv, SummaryMissesNothing, Executing
<1>2. SummaryInv => SummaryMissesNothing
    BY DEF SummaryInv
<1> QED
    BY <1>1, <1>2, SummaryStep, TypeCorrect, PTL DEF Spec
=============================================================================
