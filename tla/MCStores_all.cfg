CONSTANTS
    Names = {a, b}
    MaxOpen = 3
    MaxEntries = 4
    Values = {u}
    Units = {1, 2}
    MaxItems = 4
    MaxArrays = 2
    Addresses = {p, q, r}
    Junk = junk
    Scenes <- MCScenes
    Queries <- MCQueries
    MaxRemovals = 2
SYMMETRY AnyAddress
SPECIFICATION Spec
CHECK_DEADLOCK FALSE
INVARIANTS
    ProfilerInStep
    TreeInStep
PROPERTIES
    KeepsTheLog
    ItemsKept
