SPECIFICATION Spec
CONSTANTS
    Thread = {t1, t2}
    Count = 3
    Misnamed = {1, 2}
    RunStarted = TRUE
    NeedsToken = FALSE
    Entitled = {0, 1, 2}
    MaxTries = 2
SYMMETRY ThreadSymmetry
INVARIANTS TypeOK AllOrNothing OneThreadPerClient TallyExact RejectedIsTurnedAway
