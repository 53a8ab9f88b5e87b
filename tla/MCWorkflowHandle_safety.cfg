CONSTANTS
    StateCallbacks = {p, q}
    FinishCallbacks = {f, g}
    None = None
    p = p
    q = q
    f = f
    g = g
SPECIFICATION Spec
CHECK_DEADLOCK FALSE
INVARIANTS
    HandleInv
PROPERTIES
    NothingAfterDestroy
    ResultArrives
