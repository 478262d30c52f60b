SPECIFICATION Spec
CONSTANTS
    NumBackends = 2
    Requests = {r1}
    Kinds = {"poll"}
    Policy = "performance"
    FailureThreshold = 2
    RecoveryThreshold = 1
    ScoreMax = 4
    Threshold = 2
    Hysteresis = 1
    Loads = {0}
    InflightReference = 2
    MaxFaults = 1
    MaxResets = 0
INVARIANTS CookieNamesServer
CHECK_DEADLOCK FALSE
