SPECIFICATION Spec
CONSTANTS
    Processes = {"p", "q"}
    App = {"delete_race"}
    MaxSlots = 2
    MaxInodes = 3
INVARIANT FilesStay
CHECK_DEADLOCK FALSE
