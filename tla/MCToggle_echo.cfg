CONSTANTS
    ui = ui
    Threads = {ui}
    Key = k
    Keys = {k}
    Cells = {1}
    MaxOps = 2
SPECIFICATION Spec
CHECK_DEADLOCK FALSE
PROPERTIES
    EchoStops
