SPECIFICATION WorldSpec
CONSTANT IndexLimit = 2
CONSTANT GenerationMax = 0
CONSTANT EpochMax = 1
CONSTANT TickMax = 2
CONSTANT Types = {"A", "B"}
CONSTANT Values = {v1, v2}
CONSTANT Bundles <- MCBundles
SYMMETRY ValueSymmetry
INVARIANTS
    ChangesBelowMarks
    RemovalsReported
    IndexesCurrent
CHECK_DEADLOCK FALSE
