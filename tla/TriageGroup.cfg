\* Two consumers in one group, two partitions, no reviewers.
CONSTANTS
    t1 = t1
    Tickets = {t1, t2}
    Reviewers = {}
    Workers = {w1, w2}
    Partitions = {1, 2}
    PartitionOf <- TwoPartitions
    Poison = {}
    MaxAttempts = 2
    MaxMessages = 2
    FaultKinds = {"COMMIT", "REBALANCE"}
    MaxFaults = 2
    MaxStops = 1
    MaxAborts = 0
SPECIFICATION Spec
INVARIANTS
    CommittedIsAccounted
    ProcessedIsComplete
PROPERTIES
    OffsetsAdvance
SYMMETRY Symmetry
CHECK_DEADLOCK FALSE
