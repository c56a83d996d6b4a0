SPECIFICATION IntegrationSpec
CONSTANTS
    Users = {u1, u2}
    Integrations = {i, j}
    MaxRows = 4
    Calls = {r1, r2}
    Nobody = Nobody
    Overlap = FALSE
    Faults = TRUE
SYMMETRY Symmetry
INVARIANT IntegrationTypeOK
INVARIANT InstalledIffConfigured
PROPERTY TogglesInstallation
