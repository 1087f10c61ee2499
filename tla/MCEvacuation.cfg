\* Two workers and two tags, or one of each and two officers or two requests.
SPECIFICATION SiteSpec
CONSTANTS
    Crew = {w1, w2}
    Tags = {t1, t2}
    Ingests = {p1, p2}
    Officers = {o1, o2}
    Zones = {"gate", "muster"}
    Nobody = Nobody
    Debounce = 2
    OffsiteAfter = 2
    Limit = 1
    MaxClock = 3
    MaxReadings = 3
    TagReadings = 2
    MaxRows = 3
    MaxDeskOps = 3
    MaxCorrections = 1
    MaxReports = 2
    w1 = w1
    w2 = w2
    t1 = t1
    t2 = t2
    p1 = p1
    p2 = p2
    o1 = o1
    o2 = o2
INVARIANTS AssignedTracked ClosedAccounted
PROPERTY PassagesApart SeenForward AbsentSwept
\* The readings are bounded, so a run may end with nothing left to do.
CHECK_DEADLOCK FALSE
