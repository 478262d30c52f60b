SPECIFICATION Spec
CONSTANTS
    NumBackends = 2
    Requests = {r1, r2}
    Kinds = {"plain", "chunked", "upgrade"}
    Policy = "performance"
    FailureThreshold = 2
    RecoveryThreshold = 1
    ScoreMax = 4
    Threshold = 2
    Hysteresis = 1
    Loads = {0}
    InflightReference = 2
    MaxFaults = 2
    MaxResets = 0
SYMMETRY RequestSymmetry
INVARIANTS
    TypeOK
    InflightExact
    HealthyStaysInRotation
    SingleFaultHidden
    OneRetryElsewhere
    CountersBalance
CHECK_DEADLOCK FALSE
