\* Outages, a restart and two operators at the kill switch.
CONSTANTS
    Operators = {ann, bob}
    FailureThreshold = 5
    RecoveryTicks = 3
    MaxOutages = 2
    MaxRestarts = 1
    MaxToggles = 3
SPECIFICATION FairSpec
INVARIANTS
    TypeOK
    BreakerAgrees
    OneProbeUnlessEscaped
    SwitchIsLogged
PROPERTIES
    RecoveredIsUsed
CHECK_DEADLOCK FALSE
