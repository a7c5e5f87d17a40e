CONSTANTS
    host = host
    viewer = viewer
    guest1 = guest1
    Conn = Conn
    None = None
    Host <- host
    Viewer <- viewer
    Participants <- MCParticipants
    Connections <- MCConnections
    MaxParticipants = 4
    MaxVersion = 6
SPECIFICATION Spec
CHECK_DEADLOCK FALSE
INVARIANTS
    ContiguousViewIsExact
PROPERTIES
    EndedViewStays
