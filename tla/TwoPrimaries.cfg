\* Two operators promote two models to PRIMARY at the same time.
CONSTANTS
    Models = {m1, m2}
    Operators = {ann, bob}
    MaxClock = 2
    MaxAborts = 0
SPECIFICATION Spec
INVARIANTS
    AtMostOnePrimary
CHECK_DEADLOCK FALSE
