SPECIFICATION Spec
CONSTANTS
    Names = {"mesh"}
    Classes = {"one"}
    Declared <- MCDeclared
    MaxId = 4
    Ranges <- MCRanges
    Lists <- MCLists
    App = {"late_class"}
    MaxFiles = 3
    MaxDefs = 3
INVARIANT QueriesCurrent
CHECK_DEADLOCK FALSE
