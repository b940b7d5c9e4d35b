SPECIFICATION FairSpec
CONSTANTS
    c1 = c1
    c2 = c2
    i1 = i1
    i2 = i2
    i3 = i3
    Containers = {c1, c2}
    Invocations = {i1, i2, i3}
    Home <- MCHome
    Users = {u1}
    Schools = {s1, s2}
    Years = {1, 2}
    MaxOld = 2
    MaxFaults = 1
    Null = Null
INVARIANTS
    TypeOK
    StartsHold
PROPERTY EveryContainerServes
