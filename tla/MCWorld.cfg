SPECIFICATION WorldSpec
CONSTANT IndexLimit = 3
CONSTANT GenerationMax = 0
CONSTANT EpochMax = 1
CONSTANT TickMax = 1
CONSTANT Types = {"A", "B"}
CONSTANT Values = {v1, v2}
CONSTANT Bundles <- MCBundles
SYMMETRY ValueSymmetry
INVARIANTS
    OnePlaceEach
    QueriesExact
PROPERTIES
    ImplementsStore
CHECK_DEADLOCK FALSE
