SPECIFICATION Spec
CONSTANTS
    Chars <- MCChars
    Title <- MCTitle
    Sand = {"sand"}
    ALLOC_UNITS = 12
    ScalarCalls <- MCScalarCalls
    ListCalls <- MCListCalls
    ArrayCalls <- MCArrayCalls
    SubrecCalls <- MCSubrecCalls
    Classes <- MCClasses
    App = {"surface_first"}
    MaxCalls = 3
    MaxSrecs = 2
INVARIANT FormatsReload
CHECK_DEADLOCK FALSE
