CONSTANTS
    Reports = {r1, r2}
    Tokens = {good, other}
    AdminToken = good
    None = None
    MaxRequests = 2
SPECIFICATION ConsoleSpec
INVARIANTS
    ShownBelongsToToken
    BusyMeansPending
