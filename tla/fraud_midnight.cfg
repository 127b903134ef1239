\* A time read before midnight and used after it.
CONSTANTS
    Calls = {c1, c2, c3}
    Senders = {s1}
    Receivers = {r1, r2}
    Keys = {k1, k2}
    Amounts = {2}
    PerTxLimit = 2
    DailyLimit = 3
    VelocityMax = 2
    VelocityWindow = 2
    PairCooldown = 2
    TTL = 1
    DayLength = 2
    None = None
    MaxTime = 3
    MaxLag = 1
    MaxRestarts = 0
SPECIFICATION Spec
INVARIANTS
    DailyLimitHolds
CHECK_DEADLOCK FALSE
