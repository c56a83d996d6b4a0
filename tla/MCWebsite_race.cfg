SPECIFICATION Spec
CONSTANTS
    Users = {u1, u2}
    Urls = {a}
    WebsiteIds = {w1, w2}
    MaxAlerts = 6
    Requests = {r1, r2}
    None = None
    Ops <- CreateOps
    Faults = FALSE
    PartialUpdates = FALSE
SYMMETRY Symmetry
INVARIANT UniqueUrl
