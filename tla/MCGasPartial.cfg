\* No worker dies: a permit is closed while the alarm suspends its zone.
CONSTANTS
    d1 = d1
    w1 = w1
    w2 = w2
    u1 = u1
    Detectors = {d1}
    Workers = {w1}
    Users = {}
    Permits <- MCPermits
    AlarmIds <- MCAlarmIds
    AlertIds <- MCAlertIds
    None = None
    MaxReadings = 2
    MaxDeaths = 0
    MaxActs = 2
SPECIFICATION MCSpec
INVARIANTS AlarmSuspendsZone
CHECK_DEADLOCK FALSE
