SPECIFICATION DeskSpec
CONSTANTS
    Alerts = {"a", "b"}
    Criticals = {"a"}
    MaxToasts = 1
    MaxRaises = 2
    MaxWire = 1
    MaxFaults = 1
    FeedAlerts = {f1, f2, f3}
    Devices = {"d"}
    LatestMax = 2
    MaxChanges = 3
    MaxBreaks = 1
    MaxZones = 2
    MaxMoves = 1
    MaxPosts = 2
    Violations = {"v1", "v2", "v3"}
    PageRows = 2
    MaxTurns = 1
    MaxReviews = 2
    Officers = {"o1", "o2"}
    Workers = {"w"}
    MaxPosted = 3
    MaxLogOpens = 3
    MaxLogPosts = 2
SYMMETRY FeedSymmetry
INVARIANTS CardCountsCriticals AlertsFollowVerdicts
PROPERTIES AlarmAsStored ZonesAsPublished ClosedStands RecordsAsMeant
CHECK_DEADLOCK FALSE
