CHECK_DEADLOCK FALSE
SPECIFICATION AdminSpec
CONSTANTS
    r1 = r1
    c1 = c1
    c2 = c2
    u1 = u1
    a1 = a1
    t1 = t1
    d1 = d1
    gateway = gateway
    cli = cli
    NoWorker = NoWorker
    Requests <- OneRequest
    Callbacks <- TwoCallbacks
    Unlinks <- MCUnlinks
    Admins <- MCAdmins
    Threads <- MCThreads
    Procs = {d1, gateway, cli}
    ProcOf <- MCProcOf
    Unrefreshable = {}
    AdminOps = {}
    Cancellable = {r1}
    MaxLinks = 2
    MaxEpoch = 2
    MaxVersion = 2
    MaxCrashes = 0
PROPERTIES DisconnectErases
