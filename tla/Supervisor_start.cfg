SPECIFICATION FairSpec
CONSTANTS
    Supervisors = {s1, s2}
    Stops = {p1}
    NoOne = NoOne
    MaxFailures = 0
    MaxKills = 0
PROPERTIES
    DeclinedStartIsKept
