\* Two callers and two runs: concurrent and repeated executions, late decisions.
CONSTANTS
    Runs = {r1, r2}
    Callers = {ann, bob}
    MaxTime = 1
    MaxAborts = 1
SPECIFICATION Spec
INVARIANTS
    RunningIsExplained
    SummaryMissesNothing
CHECK_DEADLOCK FALSE
