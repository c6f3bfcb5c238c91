SPECIFICATION RelationsSpec
CONSTANT IndexLimit = 3
CONSTANT GenerationMax = 1
CONSTANT Domains = {"child", "needs", "peer"}
CONSTANT Policy <- MCPolicy
CONSTRAINT FewEdges
INVARIANTS
    NoCycles
    EdgesBetweenLiving
PROPERTIES
    ImplementsFacts
CHECK_DEADLOCK FALSE
