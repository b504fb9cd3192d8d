\* Tickets of every segment with two kinds of signals; thresholds change once.
CONSTANTS
    Strict = TRUE
    TicketSignals = {"sanctions_hit", "velocity_breach"}
    Confidences = {37, 45, 100}
    Levels = {40, 90}
    MaxUpserts = 1
SPECIFICATION Spec
INVARIANTS
    TypeOK
    Tier0GoesToPeople
    OverridesGoToPeople
    DoubtNeverReassures
    RulesFollowTheTree
CHECK_DEADLOCK FALSE
