SPECIFICATION Spec
CONSTANTS
    Users = {u1}
    Urls = {a}
    WebsiteIds = {w1}
    MaxAlerts = 6
    Requests = {r1, r2}
    None = None
    Ops <- RuleOps
    Faults = TRUE
    PartialUpdates = TRUE
SYMMETRY Symmetry
INVARIANT TypeOK
INVARIANT SharedRuleOnlyUnchecked
