SPECIFICATION Spec
CONSTANTS
    Users = {u1}
    Passwords = {p, q}
    Tokens = {t1}
    Requests = {r1}
    None = None
SYMMETRY Symmetry
INVARIANT ResetInTime
