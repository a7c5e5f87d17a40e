CONSTANTS
    host = host
    guest1 = guest1
    guest2 = guest2
    guest3 = guest3
    conn1 = conn1
    conn2 = conn2
    None = None
    Host <- host
    Participants <- MCParticipants
    Connections <- MCConnections
    MaxParticipants = 3
    MaxVersion = 10
SPECIFICATION Spec
SYMMETRY MCSymmetry
INVARIANTS
    RosterConsistent
PROPERTIES
    VersionNamesState
    ImplementsLifecycle
