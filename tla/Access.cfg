SPECIFICATION Spec
CONSTANTS
    Users = {a, u}
    Supers = {a}
    Classes = {c1, c2}
    Requests = {r1, r2}
    Served <- MCServed
    Old = old
    TTL = 1
    MaxTime = 1
    Null = Null
SYMMETRY Interchangeable
INVARIANTS
    TypeOK
    ModerationHolds
PROPERTY RolesEnd
CHECK_DEADLOCK FALSE
