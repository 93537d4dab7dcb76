SPECIFICATION MCSpec
SYMMETRY Sym
CONSTANTS
    Reqs = {p, q}
    Users = {"root", "ann", "bob"}
    Keys = {"k"}
    Names = {"bob", "ann"}
    Custom = {"desk"}
    Grantable <- MCGrantable
    Root = "root"
    Clerk = "ann"
    Desk = "desk"
    MaxRequests = 3
    Schedules = {"s1", "s2"}
    Profiles = {"quick", "mine"}
    Configs <- MCConfigs
    DefaultName <- MCDefaultName
    ProfileNames = {"Quick Scan", "other"}
    MaxRestarts = 3
    Credentials = {"c1", "c2"}
    Secrets = {"x", "y"}
    EncryptionKeys = {"k1", "k2"}
    MaxStarts = 2
    Clients = {"c"}
    Buckets = {1, 2}
    Requests = {"p", "q"}
    requests = 2
    window = 2
CHECK_DEADLOCK FALSE
INVARIANTS  CredentialsRead LimitHolds
PROPERTY OnlyAdminsMakeAdmins
