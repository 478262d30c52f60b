SPECIFICATION FairSpec
CONSTANTS
    Callers = {1, 2, 3, 4, 5}
    MessageIds = {i1}
    NoRow = NoRow
    Elsewhere = Elsewhere
    MaxBatch = 2
    MaxInFlight = 2
ACTION_CONSTRAINT InOrder
INVARIANTS
    TypeOK
    NobodyForgotten
    AnswersAreTrue
    SlotsAccounted
    NoLostWakeup
PROPERTIES
    ImplementsStore
    EveryInsertSettles
CHECK_DEADLOCK FALSE
