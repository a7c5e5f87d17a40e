CONSTANTS
    Shows = {a, b}
    Kinds = {"video", "audio"}
    None = None
    MaxEarlier = 1
    MaxFlight = 1
SPECIFICATION FairScreeningSpec
CHECK_DEADLOCK FALSE
INVARIANTS
    ShowsOfferedFilm
    SilentWhenAway
PROPERTIES
    FollowsInTheEnd
