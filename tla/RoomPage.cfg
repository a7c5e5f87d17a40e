CONSTANTS
    MaxAttempts = 2
    MaxRequests = 2
SPECIFICATION FairPageSpec
CHECK_DEADLOCK FALSE
INVARIANTS
    OneLine
PROPERTIES
    ReconnectingEnds
    PendingCloseEnds
    FormerCodeFades
