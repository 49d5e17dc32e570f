SPECIFICATION Spec
CONSTANTS
    s1 = s1  s2 = s2  b1 = b1  b2 = b2  c1 = c1  c2 = c2  u1 = u1  d1 = d1  d2 = d2
    Nobody = Nobody
    Starts = {s1}
    Browsers = {b1}
    Callbacks = {c1, c2}
    Disconnects = {}
    Admins = {}
    Mortal = {}
    Scenarios <- Replay
    MaxPending = 1
    MaxEpoch = 2
PROPERTIES ReplayLeavesRedeeming
CHECK_DEADLOCK FALSE
