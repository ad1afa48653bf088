CONSTANTS
    Svars <- MCSvars
    Partitions <- MCParts
    MaxStates = 4
    MaxRuns = 3
    App = {}
SPECIFICATION Spec
INVARIANT MeshCombined
CHECK_DEADLOCK FALSE
