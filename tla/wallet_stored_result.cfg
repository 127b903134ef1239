\* A duplicate in flight while the first transfer of its key commits.
CONSTANTS
    Calls = {c1, c2}
    Users = {1, 2}
    Keys = {k1}
    Amounts = {2}
    MaxBalance = 4
    SeedWallets = {1, 2}
    SeedBalance <- MCSeedBalance
    Nobody = Nobody
    NoRow = NoRow
SPECIFICATION FairSpec
PROPERTIES
    StoredResultIsReturned
CHECK_DEADLOCK FALSE
