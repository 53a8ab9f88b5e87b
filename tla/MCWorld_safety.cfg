SPECIFICATION Spec
CONSTANTS
    Forms <- MCForms
    Steps <- MCSteps
    Turns <- MCTurns
    Pivots <- MCPivots
    Refs <- MCRefs
    MaxShapes = 2
    MaxUndo = 3
    Reach = 1
    MaxTurn = 2
INVARIANTS
    IndexInStep
PROPERTIES
    StampMoves
    ImplementsTimeline
