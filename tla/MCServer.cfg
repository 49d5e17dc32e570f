CHECK_DEADLOCK FALSE
SPECIFICATION Spec
SYMMETRY Symmetry
CONSTANTS
    alice = alice
    bob = bob
    r1 = r1
    r2 = r2
    Users <- TwoUsers
    Requests <- TwoRequests
    UserOf <- MCUserOf
    FlawsOf <- MCFlawsOf
    EnvDefault = Nobody
    Known <- MCKnown
    Nobody = Nobody
    KeyUsers = {k1, k2}
    KeyProcs = {p1, p2}
    Keks = {e1, e2}
    Deployments = {here, other}
    Here = here
    MaxDeks = 2
    MaxRecord = 2
    CacheMax = 1
    NoKey = NoKey
    Starters = {"s1", "s2", "s3"}
    KindOf <- MCKindOf
    Services <- MCServices
    Legacy = {"legacy"}
    Environments <- MCEnvironments
    MaxIds = 2
    POwners <- TwoOwners
    o1 = o1
    o2 = o2
    Emails = {m1, m2}
    Paths <- MCPaths
    Stamps = {1, 2}
    MaxEntries = 2
    MaxRules = 2
    MaxItems = 2
    None = None
    Ambiguous = Ambiguous
    MUsers = {u1}
    Runs = {run1, run2}
    RowSteps = {s1}
    FileParts = {f1}
    MaxWrites = 1
    NoRun = NoRun
    Off = Off
INVARIANTS TypeOK KeysFit StartsSafely
PROPERTIES CallsAreTheCallers MigrationKeepsData
