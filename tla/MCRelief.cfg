SPECIFICATION FairSpec
CONSTANTS
    Pid = {p1, p2}
    Hold = 3
INVARIANTS
    TypeOK
    FrozenTracked
    LostUnreachable
    WatchdogAlive
    IdleCostsNothing
    CountersFresh
PROPERTIES
    ActsOnlyAfterHold
    KeepsPromise
    CalmThaws
    PressureFreezes
