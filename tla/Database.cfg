SPECIFICATION Spec
CONSTANTS
    Calls = {c1, c2}
    SecretArn = TRUE
    Rotations = 2
    Stops = TRUE
    Null = Null
INVARIANTS
    TypeOK
    SlotIsUsable
    LeakNeedsLostFailure
    RotationIsInvisible
    NothingLeftBegun
PROPERTY EveryCallReturns
CHECK_DEADLOCK FALSE
