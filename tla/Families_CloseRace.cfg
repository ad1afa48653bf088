SPECIFICATION Spec
CONSTANTS
    Processes = {"p", "q"}
    App = {"close_race"}
    MaxSlots = 2
    MaxInodes = 3
INVARIANT SoleWriter
CHECK_DEADLOCK FALSE
