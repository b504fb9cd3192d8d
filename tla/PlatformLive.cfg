\* A ticket that can be triaged and one that cannot, from the request to the end.
CONSTANTS
    Tickets = {good, bad}
    Poison = {bad}
    IdempotencyKeys = {}
    NoKey = NoKey
    Stamps = {1}
    Relays = {r1}
    Oversized = {}
    BatchSize = 2
    MaxAttemptsBeforeDlq = 1
    MaxRelayFaults = 1
    Reviewers = {}
    MaxAborts = 0
    Workers = {w1}
    Partitions = {1}
    PartitionOf <- OnePartition
    MaxAttempts = 2
    MaxMessages = 3
    FaultKinds = {"DB", "COMMIT", "REBALANCE", "CRASH"}
    MaxFaults = 1
    MaxStops = 1
SPECIFICATION PlatformFairSpec
INVARIANTS
    NoTicketIsDropped
PROPERTIES
    PromiseSpec
CHECK_DEADLOCK FALSE
