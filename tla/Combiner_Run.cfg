CONSTANTS
    Svars <- MCSvars
    Partitions <- MCPartitions
    MaxStates = 4
    MaxRuns = 3
    App = {}
SPECIFICATION Spec
INVARIANTS TypeOK StatesCombined MeshCombined
PROPERTY CombinesAll
CHECK_DEADLOCK FALSE
