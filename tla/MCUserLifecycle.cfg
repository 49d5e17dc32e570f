SPECIFICATION Spec
CONSTANTS
    r1 = r1  r2 = r2  d1 = d1  d2 = d2  i1 = i1  i2 = i2  v1 = v1  q1 = q1
    Nobody = Nobody
    Registers = {r1, r2}
    Deletes = {d1, d2}
    Issues = {i1, i2}
    Revokes = {v1}
    Requests = {q1}
    MaxKeys = 1
    MaxEpoch = 1
    Serial = TRUE
SYMMETRY Symmetric
INVARIANTS TypeOK KeysBounded UsableHasStore NoKeyLeadsNowhere NotServedLate
PROPERTIES AccountSpec
CHECK_DEADLOCK FALSE
