SPECIFICATION Spec
CONSTANTS
    Users = {u1}
    Urls = {a}
    WebsiteIds = {w1}
    MaxAlerts = 6
    Requests = {r1}
    None = None
    Ops <- EditOps
    Faults = FALSE
    PartialUpdates = TRUE
SYMMETRY Symmetry
INVARIANT WatchedAtRest
