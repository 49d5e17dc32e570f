SPECIFICATION Spec
CONSTANTS
    r1 = r1
    r2 = r2
    c1 = c1
    c2 = c2
    u1 = u1
    d1 = d1
    d2 = d2
    gateway = gateway
    NoWorker = NoWorker
    Requests <- MCRequests
    Callbacks <- MCCallbacks
    Unlinks <- MCUnlinks
    Admins = {}
    Threads = {}
    Procs = {d1, d2, gateway}
    ProcOf <- MCProcOf
    Unrefreshable = {2}
    MaxLinks = 2
    MaxEpoch = 2
    MaxVersion = 2
    MaxCrashes = 1
SYMMETRY Symmetry
INVARIANTS TypeOK ActiveUsesLiveLink LinkedIffToken RefreshKeepsItsRow SingleRefresh NoTokenAfterUnlink
PROPERTIES SavesOnlyWhileLinked
