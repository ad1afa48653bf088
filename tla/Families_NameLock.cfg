SPECIFICATION Spec
CONSTANTS
    Processes = {"p", "q"}
    App = {}
    MaxSlots = 2
    MaxInodes = 3
INVARIANT NameLockPlaced
CHECK_DEADLOCK FALSE
