SPECIFICATION Spec
CONSTANTS
    Scalars = {"state_count", "a"}
    Strings = {"s"}
    Arrays = {"v"}
    FirstParam = "state_count"
    Sizes = {1, 2}
    App = {"late_format"}
    MaxSrecs = 2
    MaxFiles = 4
    MaxWrites = 6
INVARIANT DirectoriesWritten
CHECK_DEADLOCK FALSE
