CONSTANTS
    ui = ui
    Threads = {ui, solver}
    Key = k
    Keys = {k, j}
    Cells = {1, 2}
    MaxOps = 4
SPECIFICATION Spec
CHECK_DEADLOCK FALSE
INVARIANTS
    StoreInStep
    ShowsTheStore
PROPERTIES
    ResolvedStays
    CatchesUp
