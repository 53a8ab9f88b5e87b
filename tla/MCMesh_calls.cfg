SPECIFICATION MCSpec
CONSTANTS
    flat = flat
    fine = fine
    solid = solid
    hollow = hollow
    d1 = d1
    d2 = d2
    Meshes <- MCMeshes
    NDim <- MCNDim
    Bounds <- MCBounds
    Sets <- MCSets
    Categories <- MCCategories
    Axis <- MCAxis
    Names = {"a", "b"}
    Shifts = {0, 1}
    Fields <- MCFields
    Ranges <- MCRanges
    Colormaps = {"viridis", "jet"}
    Scales = {1, 2}
    Ids = {20, 21}
    Devices = {d1, d2}
    NoMesh = NoMesh
    NoId = NoId
    NoDevice = NoDevice
    Unit = 6
    MaxIter = 16
    Domains <- MCDomains
    Grids <- MCGrids
    BcNames = {"wall", "inlet"}
    NoName = "<NONAME>"
    Outlines <- MCOutlines
    Samples <- MCSamples
    MaxPolygons = 2
    MaxOrphans = 2
    NaN = 1000
    Width = 4
    Tile = 2
    MaxCalls = 3
    Starts <- MCStarts
    Keys <- MCKeys
    Shapes <- MCShapes
CHECK_DEADLOCK FALSE
INVARIANTS
    SceneInStep
    MeshInStep
    DomainIsMeshed
    AreasAreExact
    PadInStep
    TablesAgree
PROPERTIES
    KeepsView
    ArraysAgree
