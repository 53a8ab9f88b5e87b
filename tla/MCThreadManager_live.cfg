CONSTANTS
    w1 = w1
    s1 = s1
    s2 = s2
    t1 = t1
    t2 = t2
    Workflows = {w1}
    Tasks = {s1, s2}
    TaskThreads = {t1, t2}
    WorkflowThread = workflow
    Retriers = {}
    LateSubmitters = {}
    None = None
SPECIFICATION Spec
PROPERTIES
    ImplementsWorkflowService
    ShutdownReturns
    EverybodyHears
