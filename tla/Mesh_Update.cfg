SPECIFICATION Spec
CONSTANTS
    Names = {"mesh"}
    Classes = {"one"}
    Declared <- MCDeclared
    MaxId = 4
    Ranges <- MCRanges
    Lists <- MCLists
    App = {"span_update"}
    MaxFiles = 3
    MaxDefs = 3
INVARIANTS DataLoaded
CHECK_DEADLOCK FALSE
