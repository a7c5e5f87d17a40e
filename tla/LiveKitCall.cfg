CONSTANTS
    Attempts = {c1, c2}
    Others = {o1}
    Plays = {q1}
    None = None
    People = {p1, p2}
    PacketLosses = {5}
    Delays = {40}
    MaxPolls = 2
SPECIFICATION FairSpec
CHECK_DEADLOCK FALSE
INVARIANTS
    NoForgottenMicrophone
    NothingAfterTheCall
    QualityNotRosy
PROPERTIES
    RequestingEnds
