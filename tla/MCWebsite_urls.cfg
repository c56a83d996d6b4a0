SPECIFICATION Spec
CONSTANTS
    Users = {u1, u2}
    Urls = {a, b}
    WebsiteIds = {w1, w2}
    MaxAlerts = 6
    Requests = {r1, r2}
    None = None
    Ops <- UrlOps
    Faults = TRUE
    PartialUpdates = FALSE
SYMMETRY Symmetry
INVARIANT HiddenIffDeleted
INVARIANT SharedUrlOnlyUnchecked
PROPERTY OnlyOwnerMoves
