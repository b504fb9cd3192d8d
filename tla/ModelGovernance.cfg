\* Two operators at work on two models, one after the other or at the same time.
CONSTANTS
    Models = {m1, m2}
    Operators = {ann, bob}
    MaxClock = 2
    MaxAborts = 1
SPECIFICATION Spec
INVARIANTS
    TypeOK
    OnePrimaryUnlessOverlapped
    NoStageSkipped
    StagesAreAudited
    PrimaryIsNotLost
PROPERTIES
    LegalUnlessOverlapped
CHECK_DEADLOCK FALSE
