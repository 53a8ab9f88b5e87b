CONSTANTS
    j1 = j1
    j2 = j2
    j3 = j3
    Jobs = {j1, j2, j3}
    qt = qt
    task = task
    Clients = {qt, task}
    PythonClients = {qt}
    Stopper = qt
    None = None
SPECIFICATION Spec
CHECK_DEADLOCK FALSE
INVARIANTS
    NoLostWakeup
    NothingLeftBehind
PROPERTIES
    ImplementsJobQueue
    NobodyStuck
