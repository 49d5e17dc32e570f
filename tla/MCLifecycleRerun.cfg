SPECIFICATION Spec
CONSTANTS
    r1 = r1  r2 = r2  d1 = d1  d2 = d2  i1 = i1  i2 = i2  v1 = v1  q1 = q1
    Nobody = Nobody
    Registers = {r1, r2}
    Deletes = {d1, d2}
    Issues = {}
    Revokes = {}
    Requests = {}
    MaxKeys = 1
    MaxEpoch = 1
    Serial = FALSE
PROPERTIES AccountSpec
CHECK_DEADLOCK FALSE
