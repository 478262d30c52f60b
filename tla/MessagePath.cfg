SPECIFICATION Spec
CONSTANTS
    Requests = {r1, r2}
    Backends = {b1, b2}
    CallerIds = {i1}
    NoId = NoId
    NoRow = NoRow
    Nowhere = Nowhere
    MaxDeaths = 1
SYMMETRY PathSymmetry
INVARIANTS
    AnsweredIsServed
PROPERTY ImplementsPosting
CHECK_DEADLOCK FALSE
