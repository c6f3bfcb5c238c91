SPECIFICATION FairSpec
CONSTANTS
    NumWorkers = 3
    Capacity = 4
    Batch = 2
INVARIANTS
    Conservation
    ExactExhaustion
PROPERTIES
    ExactAdmission
    RequestsAnswered
CHECK_DEADLOCK FALSE
