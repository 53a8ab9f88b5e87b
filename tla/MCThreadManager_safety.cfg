CONSTANTS
    w1 = w1
    w2 = w2
    s1 = s1
    s2 = s2
    t1 = t1
    t2 = t2
    Workflows = {w1, w2}
    Tasks = {s1, s2}
    TaskThreads = {t1, t2}
    WorkflowThread = workflow
    Retriers = {w1}
    LateSubmitters = {w2}
    None = None
SPECIFICATION Spec
SYMMETRY Symmetry
INVARIANTS
    TypeOK
    PendingCounts
    CallbacksComeHome
    QuietAfterExit
    OneHistoryPerOwner
