SPECIFICATION Spec
CONSTANTS
    a = a  b = b  r1 = r1  r2 = r2  r3 = r3  r4 = r4  d1 = d1  d2 = d2
    NoEntry = NoEntry
    Users = {a, b}
    Requests = {r1, r2}
    Drainers = {d1}
    KeyOf <- MCKeyOf
    DrainOf <- MCDrainOf
    MaxEntries = 2
    PerUser = 1
    Cancellable = {}
PROPERTY DrainWaitsForLeases
CHECK_DEADLOCK FALSE
