SPECIFICATION Spec
CONSTANTS
    Calls = {c1, c2}
    SecretArn = TRUE
    Rotations = 1
    Stops = FALSE
    Null = Null
INVARIANT NoPoolLeaks
CHECK_DEADLOCK FALSE
