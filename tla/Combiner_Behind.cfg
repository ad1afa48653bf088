CONSTANTS
    Svars <- MCSvars
    Partitions <- MCPartitions
    MaxStates = 4
    MaxRuns = 3
    App = {"behind"}
SPECIFICATION Spec
INVARIANT StatesCombined
CHECK_DEADLOCK FALSE
