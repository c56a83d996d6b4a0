SPECIFICATION MCSpec
CONSTANTS
    Accounts = {a1, a2}
    Emails = {e, f}
    Codes = {c1, c2, c3}
    Requests = {r1, r2}
    None = None
    Users = {a1, a2}
    Integrations = {i, j}
    MaxRows = 4
    Calls = {r1, r2}
    Nobody = Nobody
    Overlap = TRUE
    Faults = TRUE
SYMMETRY Symmetry
INVARIANT TypeOK
INVARIANT CodeOnlyWhileDraft
INVARIANT Provisioned
INVARIANT CodeMailed
PROPERTY BanStands
PROPERTY AnswerHolds
