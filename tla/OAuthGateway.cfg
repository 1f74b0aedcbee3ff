SPECIFICATION Spec
CONSTANTS
    Client = {cl}
    Account = {a1, a2}
    Jti = {j1, j2, j3}
    Code = {c1}
    Family = {f1, f2}
    Token = {t1, t2, t3}
    Call = {k1, k2}
    Request = {r}
    None = None
    MaxExpired = 1
    MaxRestarts = 1
SYMMETRY Symmetry
CHECK_DEADLOCK FALSE
INVARIANTS OneSuccessor SessionKept
PROPERTIES RevokedStaysOut
