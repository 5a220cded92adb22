SPECIFICATION FairSpec
CONSTANT MaxRelease = 2
INVARIANTS
    TypeOK
    Survives
PROPERTIES
    ChangesOnlyToVerified
    KeepsPromise
    CancelInTime
    AlwaysAnswered
