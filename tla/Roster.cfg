SPECIFICATION Spec
CONSTANTS
    Users = {u1, u2}
    Schools = {s1, s2}
    Requests = {r1, r2}
    Served <- MCServed
    MayFail = {r1, r2}
    MaxYear = 2
    MaxRows = 2
    Null = Null
SYMMETRY Interchangeable
INVARIANTS
    TypeOK
    MembershipsHold
PROPERTY StepsHold
CHECK_DEADLOCK FALSE
