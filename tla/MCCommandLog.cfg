SPECIFICATION FairSpec
CONSTANT MaxSteps = 3
INVARIANTS
    TypeOK
    ToldTruly
PROPERTIES
    NothingStartsLate
    NoRootAfterStop
    KeepsPromise
    StopEnds
