SPECIFICATION Spec
CONSTANTS
    Names = {"mesh"}
    Classes = {"one"}
    Declared <- MCDeclared
    MaxId = 4
    Ranges <- MCRanges
    Lists <- MCLists
    App = {"refused_list"}
    MaxFiles = 3
    MaxDefs = 3
INVARIANTS TypeOK BlocksExact DataLoaded QueriesCurrent
CHECK_DEADLOCK FALSE
