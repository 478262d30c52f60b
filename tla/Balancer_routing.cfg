SPECIFICATION FairSpec
CONSTANTS
    NumBackends = 2
    Requests = {r1}
    Kinds = {"plain"}
    Policy = "performance"
    FailureThreshold = 2
    RecoveryThreshold = 1
    ScoreMax = 3
    Threshold = 2
    Hysteresis = 1
    Loads = {0, 3}
    InflightReference = 2
    MaxFaults = 1
    MaxResets = 1
INVARIANTS
    FlagFollowsScore
PROPERTIES
    RotationFollowsBackends
    EveryRequestEnds
    ImplementsForwarding
CHECK_DEADLOCK FALSE
