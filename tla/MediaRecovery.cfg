CONSTANTS
    Guests = {g1}
    Requests = {r1, r2, r3}
    None = None
    MaxAnswers = 2
SPECIFICATION FairRecoverySpec
CHECK_DEADLOCK FALSE
INVARIANTS
    StatusOfLatest
    OpenAlertIsUnanswered
PROPERTIES
    GuestIsReleased
