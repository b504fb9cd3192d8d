\* Two instances of the service, three tickets, one of them too large to send.
CONSTANTS
    Tickets = {t1, t2, big}
    IdempotencyKeys = {k1}
    NoKey = NoKey
    Stamps = {1, 2}
    Relays = {r1, r2}
    Oversized = {big}
    BatchSize = 2
    MaxAttemptsBeforeDlq = 1
    MaxFaults = 1
SPECIFICATION FairSpec
INVARIANTS
    TypeOK
    ExclusiveBatches
    SettledWasSent
    DuplicatesNeedFaults
    DlqIsLastResort
    OneEventPerKey
PROPERTIES
    SendableEventsSettle
    SettledIsFinal
    ContractSpec
CHECK_DEADLOCK FALSE
