SPECIFICATION Spec
CONSTANTS
    Processes = {"p", "q"}
    App = {"fail_in_hole"}
    MaxSlots = 2
    MaxInodes = 3
INVARIANT IdsStayValid
CHECK_DEADLOCK FALSE
