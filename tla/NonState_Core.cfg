SPECIFICATION Spec
CONSTANTS
    Scalars = {"state_count", "a"}
    Strings = {"s"}
    Arrays = {"v"}
    FirstParam = "state_count"
    Sizes = {1, 2}
    App = {"crash"}
    MaxSrecs = 2
    MaxFiles = 4
    MaxWrites = 6
INVARIANTS TypeOK LastValueRead CommitReturns ClosedIsLoadable FormatsSaved
PROPERTIES CommittedIsFinal
CHECK_DEADLOCK FALSE
