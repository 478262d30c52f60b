SPECIFICATION WatchedSpec
CONSTANTS
    Supervisors = {s1, s2, s3}
    Stops = {p1, p2}
    NoOne = NoOne
    MaxFailures = 2
    MaxKills = 1
INVARIANTS
    TypeOK
    OneService
    StopMeansIt
PROPERTIES
    StaysUp
