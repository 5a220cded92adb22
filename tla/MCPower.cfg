SPECIFICATION FairSpec
CONSTANTS
    Minute = 3
    MaxMinutes = 1
    MaxLate = 1
INVARIANTS
    TypeOK
    HoldIsShown
PROPERTIES
    FiresOnTime
    EndsForAReason
    QuitReleases
    CountdownEnds
    BadgeCatchesUp
