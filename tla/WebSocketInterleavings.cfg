CONSTANTS
    host = host
    guest = guest
    h1 = h1
    h2 = h2
    g1 = g1
    g2 = g2
    None = None
    Host <- host
    Participants <- MCParticipants
    Connections <- HostTwiceGuestOnce
    Owner <- MCOwner
    MaxParticipants = 4
    Steady = {}
    SendsMayFail = TRUE
    KeysLapse = TRUE
    MaxCrashes = 0
SPECIFICATION Spec
CHECK_DEADLOCK FALSE
INVARIANTS
    NoStalePresence
    NoGhost
    NoLeakedSession
