SPECIFICATION Spec
CONSTANTS
    Sockets = {s1, s2, s3}
    Names = {n1, n2}
    Keys = {k1}
    Messages = {m1}
    Nobody = Nobody
    NoKey = NoKey
    MaxEvents = 1
    MaxLogins = 3
SYMMETRY ChatSymmetry
INVARIANTS
    TypeOK
    OneSocketPerName
    LoggedInIsOnline
    EmittedWhenQuiet
    NewcomerMissesNothing
CHECK_DEADLOCK FALSE
