\* A poison message beside a good one, with faults, rebalances and a shutdown.
CONSTANTS
    t1 = t1
    Tickets = {t1, bad}
    Reviewers = {}
    Workers = {w1, w2}
    Partitions = {1}
    PartitionOf <- OnePartition
    Poison = {bad}
    MaxAttempts = 2
    MaxMessages = 2
    FaultKinds = {"DB", "COMMIT", "REBALANCE"}
    MaxFaults = 1
    MaxStops = 1
    MaxAborts = 0
SPECIFICATION FairSpec
PROPERTIES
    MessagesSettle
CHECK_DEADLOCK FALSE
