SPECIFICATION FairSpec
CONSTANTS
    Users = {u1}
    Urls = {a}
    WebsiteIds = {w1}
    MaxAlerts = 9
    Requests = {r1, r2}
    None = None
    Ops <- WatchOps
    Faults = FALSE
    PartialUpdates = FALSE
INVARIANT WatchedAtRest
INVARIANT WatchedOrPending
PROPERTY CreatedGetsWatched
PROPERTY GoneForGood
