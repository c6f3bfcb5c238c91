SPECIFICATION Spec
CONSTANTS
    EpochMax = 1
    TickMax = 2
    Rows <- MCRows
    Resources = {"Time"}
    Watched <- MCWatched
    NoEntity = "none"
    CohortMax = 2
INVARIANTS
    PositionsSuffice
PROPERTY ImplementsObserved
CHECK_DEADLOCK FALSE
