SPECIFICATION Spec
CONSTANTS
    Messages = {m1, m2}
    Bad = {m2}
    Workers = {w1, w2}
    BatchSize = 2
    MaxReceive = 3
    MaxSends <- MCMaxSends
INVARIANTS
    TypeOK
    QueueIsSafe
PROPERTY Delivered
CHECK_DEADLOCK FALSE
