SPECIFICATION Spec
CONSTANTS
    m1 = m1
    m2 = m2
    p1 = p1
    p2 = p2
    Mgr = {m1, m2}
    Manual = Manual
    All = All
    Pkg = {p1, p2}
    MgrOf <- Known
    Load = {l1, l2}
    Job = {j1, j2}
INVARIANTS
    TypeOK
    NothingMissing
    ButtonsTrue
PROPERTIES
    RunsWhatWasAsked
SYMMETRY Symmetry
