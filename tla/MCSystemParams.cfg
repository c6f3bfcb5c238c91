SPECIFICATION Spec
CONSTANTS
    s1 = s1
    s2 = s2
    e1 = e1
    e2 = e2
    Types <- MCTypes
    Systems <- MCSystems
    Catalogue <- MCCatalogue
    Entities <- MCEntities
    Has <- MCHas
    News <- MCNews
    Stored <- MCStored
INVARIANTS
    NoAliasing
    PreparationSuffices
    SameAnswers
    MarksExact
CHECK_DEADLOCK FALSE
