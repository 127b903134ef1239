\* One client's transfers through a gateway that is stopped and started again.
CONSTANTS
    Clients = {c1}
    Users = {u1, u2}
    Keys = {k1}
    Amounts = {1}
    Ids = {i1}
    SeedBalance <- MCSeedBalance
    MaxForgets = 0
    None = None
    Tasks = {t1, t2}
    NumDatabases = 2
    Releases = {"v2", "edited"}
    Files <- MCFiles
    FirstReleases = {}
    NoRelease = NoRelease
    Retries = 1
    Attempts = 2
    Unset = Unset
    Garbage = Garbage
    Services = {"user", "fraud"}
    DatabaseOf <- MCDatabaseOf
    Awaits = {"user", "fraud", "gateway"}
    OddValues = {Garbage, 0}
    MaxFaults = 1
SPECIFICATION PlatformSpec
INVARIANTS
    DeploymentInv
    ServingHasSchema
    AcceptedConfigurationBuilds
PROPERTIES
    ImplementsSchemaHistory
    StopsWhenTold
    ComesUp
    MovedIsNotDenied
    MovedIsRecorded
CHECK_DEADLOCK FALSE
