\* Two clients, who may share a key or not, with calls lost, late and repeated.
CONSTANTS
    Clients = {c1, c2}
    Users = {u1, u2}
    Keys = {k1, k2}
    Amounts = {1}
    Ids = {i1, i2}
    SeedBalance <- MCSeedBalance
    MaxForgets = 1
    None = None
SPECIFICATION Spec
SYMMETRY Symmetry
INVARIANTS
    Inv
    PaidOnlyIfApproved
    AuditMatchesLedger
    StatusTellsTheTruth
CHECK_DEADLOCK FALSE
