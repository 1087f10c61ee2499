\* One detector, a user, and two permits; one worker, or two at once.
CONSTANTS
    d1 = d1
    w1 = w1
    w2 = w2
    u1 = u1
    Detectors = {d1}
    Workers = {w1, w2}
    Users = {u1}
    Permits <- MCPermits
    AlarmIds <- MCAlarmIds
    AlertIds <- MCAlertIds
    None = None
    MaxReadings = 4
    MaxDeaths = 1
    MaxActs = 2
SPECIFICATION MCSpec
INVARIANTS OpenAlarmSounds AlarmReachesPermits TwoClear
PROPERTIES SecondOnlyByOverlap SuspensionCompletes
\* The readings are bounded, so a run may end with nothing left to do.
CHECK_DEADLOCK FALSE
