SPECIFICATION CanvasSpec
CONSTANTS
    Forms <- MCForms
    Stroke <- Line
    Scripted <- MCScripted
    Steps <- MCSteps
    Turns <- MCTurns
    Pivots = {}
    Refs = {}
    MaxShapes = 2
    MaxUndo = 3
    Reach = 1
    MaxTurn = 2
    Nudges <- MCNudges
INVARIANTS
    ModesInStep
PROPERTIES
    GestureIsOneStep
