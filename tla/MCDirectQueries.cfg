SPECIFICATION Spec
CONSTANTS
    w1 = w1
    w2 = w2
    e1 = e1
    e2 = e2
    q1 = q1
    q2 = q2
    Worlds <- MCWorlds
    Entities <- MCEntities
    Types <- MCTypes
    States <- MCStates
    Catalogue <- MCCatalogue
    Start <- MCStart
    Reach <- MCReach
    ClockMax <- MCClockMax
INVARIANT TypeMarksCoverRows
PROPERTY ImplementsObservers
