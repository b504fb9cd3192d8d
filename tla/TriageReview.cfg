\* One consumer, two reviewers, one ticket whose event arrives twice; two faults are
\* enough for a message to be given up.
CONSTANTS
    t1 = t1
    Tickets = {t1}
    Reviewers = {ann, bob}
    Workers = {w1}
    Partitions = {1}
    PartitionOf <- OnePartition
    Poison = {}
    MaxAttempts = 2
    MaxMessages = 2
    FaultKinds = {"DB", "COMMIT", "CRASH"}
    MaxFaults = 2
    MaxStops = 0
    MaxAborts = 1
SPECIFICATION Spec
INVARIANTS
    TypeOK
    FlaggedIsTracked
    OneDeciderPerReview
    DecisionsLeaveTrail
    OverrideIsByReviewer
    TriageIsAudited
PROPERTIES
    ProcessedOnce
SYMMETRY Symmetry
CHECK_DEADLOCK FALSE
