CONSTANTS
    host = host
    guest = guest
    h1 = h1
    h2 = h2
    g1 = g1
    g2 = g2
    None = None
    Host <- host
    Participants <- MCParticipants
    Connections <- OneEach
    Owner <- MCOwner
    MaxParticipants = 4
    Steady <- GuestStays
    SendsMayFail = FALSE
    KeysLapse = TRUE
    MaxCrashes = 0
SPECIFICATION FairSpec
CHECK_DEADLOCK FALSE
PROPERTIES
    AbandonmentEnds
    UnwelcomeSocketsClose
