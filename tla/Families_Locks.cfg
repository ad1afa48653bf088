SPECIFICATION Spec
CONSTANTS
    Processes = {"p", "q"}
    App = {}
    MaxSlots = 2
    MaxInodes = 3
INVARIANTS TypeOK OneWriter IdsStayValid FilesStay UnfinishedIsMarked
CHECK_DEADLOCK FALSE
