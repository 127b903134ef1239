\* A retry after fraud-service has forgotten the decision that let it pass.
CONSTANTS
    Clients = {c1}
    Users = {u1, u2}
    Keys = {k1}
    Amounts = {1}
    Ids = {i1, i2}
    SeedBalance <- MCSeedBalance
    MaxForgets = 1
    None = None
SPECIFICATION FairSpec
PROPERTIES
    MovedIsNotDenied
CHECK_DEADLOCK FALSE
