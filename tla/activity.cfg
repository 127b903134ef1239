\* Three rows with equal and different times, bounds within a second, and pages
\* of one and two rows, the second of which is beyond the window; or dashboards,
\* wallets and histories read while rows and transfers are made, over midnight.
CONSTANTS
    Ids = {1, 2, 3}
    Times = {2, 3}
    Second = 2
    Bounds = {3}
    PageSizes = {1, 2}
    MaxFetch = 4
    None = None
    Day = 3
    Recent = 2
    SeedBalance = 1
SPECIFICATION DashboardSpec
INVARIANTS
    TypeOK
    PageIsRight
    NothingIsSkipped
    LaterReadsCover
    QuietDashboardAddsUp
PROPERTIES
    NothingIsRepeated
    TotalsNeverShrink
CHECK_DEADLOCK FALSE
