SPECIFICATION Spec
CONSTANTS
    Chars <- MCChars
    Title <- MCTitle
    Sand = {"sand"}
    ALLOC_UNITS = 12
    ScalarCalls <- MCScalarCalls
    ListCalls <- MCListCalls
    ArrayCalls <- MCArrayCalls
    SubrecCalls <- MCSubrecCalls
    Classes <- MCClasses
    App = {}
    MaxCalls = 3
    MaxSrecs = 2
CHECK_DEADLOCK FALSE
INVARIANTS TypeOK FormatsReload GrantedFound
PROPERTY RefusalsHarmless
