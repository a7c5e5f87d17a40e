CONSTANTS
    Guests = {g1}
    Pages = {g1}
    Queries = {"health"}
    None = None
SPECIFICATION FairPageSpec
CHECK_DEADLOCK FALSE
INVARIANTS
    NothingLeftRunning
    FailedStartLeavesNothing
    IndicatorIsCurrent
PROPERTIES
    StartAndQuitEnd
    NobodyWaitsForTheDead
