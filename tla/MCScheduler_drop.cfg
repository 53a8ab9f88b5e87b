CONSTANTS
    j1 = j1
    j2 = j2
    Jobs = {j1, j2}
    qt = qt
    task = task
    Clients = {qt, task}
    PythonClients = {qt}
    Stopper = qt
    None = None
SPECIFICATION Spec
PROPERTIES
    AnyThreadMayDrop
CHECK_DEADLOCK FALSE
