SPECIFICATION Spec
CONSTANTS
    Threads = {ui, proc}
    NoThread = NoThread
    MaxEvents = 3
    MaxCalls = 3
    MaxDepth = 3
    MaxCells = 5
SYMMETRY Symmetry
INVARIANTS NothingLost
CHECK_DEADLOCK FALSE
