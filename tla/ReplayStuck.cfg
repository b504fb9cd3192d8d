\* One run, one caller, one decision in the window.
CONSTANTS
    Runs = {r1}
    Callers = {ann}
    MaxTime = 0
    MaxAborts = 0
SPECIFICATION Spec
INVARIANTS
    ExecutionEndsRun
CHECK_DEADLOCK FALSE
