CONSTANTS
    MaxRuns = 2
    MaxLines = 2
    Canvases = {c1, c2}
    NoCanvas = NoCanvas
    MaxPrompts = 2
    MaxRequests = 2
SPECIFICATION Spec
CHECK_DEADLOCK FALSE
INVARIANTS
    PanelsInStep
    Conversation
PROPERTIES
    TruthfulEnding
    EverythingEnds
