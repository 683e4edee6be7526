\* Two ranges share a quarter; one of the two calendars cannot be read.
SPECIFICATION FairSpec
CONSTANTS
    Provider = "microsoft"
    Cals = {1, 2}
    Unreadable = {2}
    Views <- OverlappingViews
    TodayView <- NewYear
    MaxMoves = 1
    MaxReloads = 1
    MaxJobs = 1
    MaxFaults = 1
INVARIANTS
    CoverageExact
    CoveredIsStored
    ShownIsStored
    ReloadHappens
PROPERTIES
    FetchesEnd
CHECK_DEADLOCK FALSE
