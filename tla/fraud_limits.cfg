\* Calls across two days and a restart; times are used late, but in order; the
\* amounts are below, at and beyond the limit of a transfer, and two pass a day's.
CONSTANTS
    Calls = {c1, c2, c3}
    Senders = {s1}
    Receivers = {r1, r2}
    Keys = {k1, k2}
    Amounts = {1, 2, 3}
    PerTxLimit = 2
    DailyLimit = 3
    VelocityMax = 2
    VelocityWindow = 2
    PairCooldown = 2
    TTL = 1
    DayLength = 2
    None = None
    MaxTime = 3
    MaxLag = 1
    MaxRestarts = 1
SPECIFICATION OrderedSpec
SYMMETRY CallSymmetry
INVARIANTS
    DailyLimitHolds
    VelocityLimitHolds
    CooldownHolds
    KeyIsJudgedOnce
PROPERTIES
    ImplementsRules
CHECK_DEADLOCK FALSE
