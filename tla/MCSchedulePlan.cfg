SPECIFICATION FairSpec
CONSTANT Schedules <- MCSchedules
INVARIANTS
    PrecedenceKept
    CycleExact
    CommandsPublishedInTime
    FewestFrontiers
    FrontiersCanonical
PROPERTY PlanningEnds
CHECK_DEADLOCK FALSE
