\* Two requests in flight of one client, with a lag of a tick: a bucket may be
\* deleted, made anew from an older reading, and refilled, more than once.
CONSTANTS
    Slots = {s1, s2}
    Clients = {a}
    Paths = {"/transfers", "/me", "/health"}
    ExemptPaths = {"/health"}
    RoutePolicies <- MCRoutePolicies
    Policies = {"default", "transfers"}
    Requests <- MCRequests
    Window <- MCWindow
    CleanupInterval = 2
    MaxLag = 1
    MaxTime = 6
    None = None
SPECIFICATION LimiterSpec
SYMMETRY Symmetry
PROPERTIES
    ImplementsThrottle
    RetryAfterIsEnough
CHECK_DEADLOCK FALSE
