\* Two clients, with one email or two, who try again until they are registered;
\* logins and refreshes of one of the users, an access token that lives a tick, a
\* refresh token that lives two, and a timeout of a tick.
CONSTANTS
    Clients = {c1, c2}
    Emails = {e1, e2}
    Ids = {i1, i2}
    None = None
    Followed = {i1}
    AccessTTL = 1
    RefreshTTL = 2
    Lag = 1
SPECIFICATION SessionsSpec
SYMMETRY Symmetry
INVARIANTS
    AllInOrder
    RegisteredIsComplete
    DeletedUserIsLockedOut
CHECK_DEADLOCK FALSE
