\* Three calls of any kind on two users, one of whom has a wallet from the start: a
\* wallet that is created under way, opposite transfers, duplicates and strangers
\* of a key, a balance at the limit.
CONSTANTS
    Calls = {c1, c2, c3}
    Users = {1, 2}
    Keys = {k1, k2}
    Amounts = {2}
    MaxBalance = 4
    SeedWallets = {1}
    SeedBalance <- MCSeedBalance
    Nobody = Nobody
    NoRow = NoRow
SPECIFICATION FairSpec
INVARIANTS
    Inv
    BalancesInRange
    BalancesExplained
    DuplicatesAgree
    RefusalLeavesNoTrace
PROPERTIES
    ImplementsAtomicLedger
    EveryCallIsAnswered
CHECK_DEADLOCK FALSE
