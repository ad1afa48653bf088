SPECIFICATION Spec
CONSTANTS
    Processes = {"p", "q"}
    App = {}
    MaxSlots = 2
    MaxInodes = 3
INVARIANT AppendKeeps
CHECK_DEADLOCK FALSE
