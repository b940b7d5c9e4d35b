SPECIFICATION Spec
CONSTANTS
    Users = {u1, u2}
    Requests = {r1, r2, r3}
    Mixes <- MCMixes
    MayFail = {r1}
    ProfileKinds = {now}
    Gallery = Gallery
    Places = {c1, c2}
    Schools = {hs}
    School <- MCSchool
    Other = other
    Limit = 1
    MaxMs = 2
    Null = Null
SYMMETRY Interchangeable
INVARIANTS
    TypeOK
    RowsAreSound
    NothingIsLeftBehind
PROPERTY DeletesAreOwn
CHECK_DEADLOCK FALSE
