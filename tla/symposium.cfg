SPECIFICATION FairSpec
CONSTANTS
    N = 5
    bites = 2
INVARIANTS ForksAreExclusive SleepersHaveReason TableOutlivesPhilosophers
PROPERTIES SymposiumEnds
CHECK_DEADLOCK FALSE
