SPECIFICATION Spec
CONSTANTS
    s1 = s1  s2 = s2  b1 = b1  b2 = b2  c1 = c1  c2 = c2  u1 = u1  d1 = d1  d2 = d2
    Nobody = Nobody
    Starts = {s1, s2}
    Browsers = {b1, b2}
    Callbacks = {c1, c2}
    Disconnects = {u1}
    Admins = {d1, d2}
    Mortal = {s1, s2, u1}
    Scenarios <- TwoOfEach
    MaxPending = 1
    MaxEpoch = 2
SYMMETRY Symmetric
INVARIANTS TypeOK CodeExchangedOnce TicketUsedOnce AttemptsBounded LinksUnchangedAccount CompletedIsLinked
PROPERTIES EndedStays
CHECK_DEADLOCK FALSE
