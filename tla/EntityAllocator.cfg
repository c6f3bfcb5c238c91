SPECIFICATION AllocatorSpec
CONSTANT IndexLimit = 4
CONSTANT GenerationMax = 2
INVARIANTS
    NeverReissued
    ValidWhileAlive
    RejectionTruthful
CHECK_DEADLOCK FALSE
