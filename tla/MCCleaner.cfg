SPECIFICATION Spec
CONSTANTS
    Category = {trash, logs, kernels}
    RootCategory = {logs, kernels}
    UserFiles = {trash}
    Engine = {Snapper, Zfs}
    Restorable = {Zfs}
    FirstEngine = Snapper
    Zfs = Zfs
    None = None
    Job = {j1, j2}
INVARIANTS
    TypeOK
    CleansAsConfirmed
PROPERTIES
    TellsOfCommands
SYMMETRY Symmetry
