SPECIFICATION IntegrationSpec
CONSTANTS
    Users = {u1, u2}
    Integrations = {i, j}
    MaxRows = 3
    Calls = {r1, r2}
    Nobody = Nobody
    Overlap = TRUE
    Faults = FALSE
SYMMETRY Symmetry
INVARIANT InstalledIffConfigured
