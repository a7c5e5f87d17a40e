CONSTANTS
    Dials = {d1, d2}
    Files = {f1, f2}
    Calls = {c1, c2}
    None = None
    Reports = {1, 2}
    Targets = {t1, t2}
SPECIFICATION FairStageSpec
INVARIANTS
    OneConnection
    NoOrphanTracks
    PublishedIsSelected
    PreviewIsPublication
PROPERTIES
    NothingUnasked
    PublishingEnds
    BarFollowsNewestSeek
