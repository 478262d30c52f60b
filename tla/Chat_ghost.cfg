SPECIFICATION Spec
CONSTANTS
    Sockets = {s1, s2}
    Names = {n1}
    Keys = {k1}
    Messages = {m1}
    Nobody = Nobody
    NoKey = NoKey
    MaxEvents = 1
    MaxLogins = 2
INVARIANTS
    OnlineIsConnected
CHECK_DEADLOCK FALSE
