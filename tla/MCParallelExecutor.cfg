SPECIFICATION FairSpec
CONSTANT Components = {"a", "b"}
CONSTANT CursorMax = 16
CONSTANT MaxRuns = 2
CONSTANT Plans <- MCPlans
INVARIANTS
    SameAsSerial
    NoRacingAccess
    PublishedPrefix
    BuffersSettled
    FailureSelection
    TruthfulBookkeeping
PROPERTY RunsEnd
CHECK_DEADLOCK FALSE
