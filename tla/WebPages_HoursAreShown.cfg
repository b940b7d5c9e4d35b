CONSTANTS
    r1 = r1
    r2 = r2
    s1 = s1
    s2 = s2
    c1 = c1
    c2 = c2
    Pages <- NoPages
    SelPages <- NoPages
    Old <- MCOld
    Mine <- MCMine
    Calls <- MCCalls
    MaxClicks = 3
    ClicksOn <- NoClicks
    GalleryLimit = 3
    Null = Null
    Schools <- MCSchools
    Classes <- MCClasses
    Linked <- MCLinked
    Newest <- MCNewest
    MaxPage = 2
    MaxMoves <- MCMaxMoves
    Nothing = Null
    u1 = u1
    u2 = u2
    DraftPages <- NoPages
    Subjects <- MCSubjects
    MaxTyped = 3
    MaxAsks = 3
    Nobody = Null
    Zones <- MCZones
    Hours <- MCHours
    MaxSaves = 2
    NoZone = Null
SPECIFICATION Spec
INVARIANTS
    HoursAreShown
CHECK_DEADLOCK FALSE
