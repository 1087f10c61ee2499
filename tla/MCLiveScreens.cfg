SPECIFICATION LiveSpec
CONSTANTS
    Permits = {"p1", "p2"}
    MaxWrites = 2
    MaxDrops = 1
    MaxSnaps = 2
    Cams = {1}
    OtherIds = {1, 2}
    MaxEvents = 2
    MaxOutages = 1
    MaxCommands = 2
INVARIANTS ScreensConsistent
PROPERTIES BoardImplementsFeed WallRecovers
CHECK_DEADLOCK FALSE
