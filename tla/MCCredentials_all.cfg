SPECIFICATION Spec
CONSTANTS
    Users = {u1, u2}
    Passwords = {p, q}
    Tokens = {t1, t2}
    Requests = {r1, r2}
    None = None
SYMMETRY Symmetry
INVARIANT TypeOK
INVARIANT LinkWorks
PROPERTY TokenOnce
PROPERTY PasswordByRight
PROPERTY SessionByRight
