SPECIFICATION Spec
CONSTANTS
    Users = {u1, u2}
    Requests = {r1, r2, r3}
    lower = lower
    upper = upper
    blank = blank
    empty = empty
    Raw <- MCRaw
    Norm <- MCNorm
    Empty = empty
    Null = Null
SYMMETRY Interchangeable
INVARIANTS
    TypeOK
    OneAccountPerAddress
    PasswordNeedsAddress
    LinksHaveOwners
    MembersHaveProfiles
    VerifiedBeforeSpent
    LinksHold
PROPERTY InvitedOnlyByLink
CHECK_DEADLOCK FALSE
