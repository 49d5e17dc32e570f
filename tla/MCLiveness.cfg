CHECK_DEADLOCK FALSE
SPECIFICATION LiveSpec
CONSTANTS
    r1 = r1
    r2 = r2
    c1 = c1
    c2 = c2
    u1 = u1
    d1 = d1
    d2 = d2
    gateway = gateway
    NoWorker = NoWorker
    Requests <- MCRequests
    Callbacks <- MCOneCallback
    Unlinks <- MCUnlinks
    Admins = {}
    Threads = {}
    Procs = {d1, gateway}
    ProcOf <- MCSharedProcOf
    Unrefreshable = {}
    m1 = m1
    m2 = m2
    f1 = f1
    a = a
    b = b
    q1 = q1
    q2 = q2
    q3 = q3
    drainA = drainA
    NoEntry = NoEntry
    Off = Off
    MaxLinks = 1
    MaxEpoch = 2
    MaxVersion = 2
    MaxCrashes = 1
INVARIANTS PoolHolds
PROPERTIES EveryCallEnds DrainKeepsItsPromise
