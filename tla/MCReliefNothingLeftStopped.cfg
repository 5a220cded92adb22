SPECIFICATION Spec
CONSTANTS
    Pid = {p1}
    Hold = 2
INVARIANT NothingLeftStopped
