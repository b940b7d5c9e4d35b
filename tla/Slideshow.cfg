SPECIFICATION FairSlideshow
CONSTANTS
    p1 = p1
    p2 = p2
    p3 = p3
    None = None
    Photos <- MCTwo
    MaxRuns = 2
    Faults <- MCFaults
INVARIANTS
    SlideshowTypeOK
PROPERTIES
    ScreenHolds
    ShowGoesOn
CHECK_DEADLOCK FALSE
