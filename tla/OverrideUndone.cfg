\* A second copy of the event arrives after the decision.
CONSTANTS
    t1 = t1
    Tickets = {t1}
    Reviewers = {ann}
    Workers = {w1}
    Partitions = {1}
    PartitionOf <- OnePartition
    Poison = {}
    MaxAttempts = 3
    MaxMessages = 2
    FaultKinds = {}
    MaxFaults = 0
    MaxStops = 0
    MaxAborts = 0
SPECIFICATION Spec
PROPERTIES
    OverrideStands
CHECK_DEADLOCK FALSE
