\* Two workers in the bay, which holds one.
SPECIFICATION SiteSpec
CONSTANTS
    Crew = {w1, w2}
    Tags = {t1, t2}
    Ingests = {p1}
    Officers = {}
    Zones = {"gate", "bay"}
    Nobody = Nobody
    Debounce = 1
    OffsiteAfter = 2
    Limit = 1
    MaxClock = 3
    MaxReadings = 5
    TagReadings = 5
    MaxRows = 2
    MaxDeskOps = 2
    MaxCorrections = 0
    MaxReports = 0
    w1 = w1
    w2 = w2
    t1 = t1
    t2 = t2
    p1 = p1
    p2 = p2
    o1 = o1
    o2 = o2
INVARIANTS CrowdedOnlyWhenFull
\* The readings are bounded, so a run may end with nothing left to do.
CHECK_DEADLOCK FALSE
