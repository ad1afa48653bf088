SPECIFICATION Spec
CONSTANTS
    Names = {"mesh"}
    Classes = {"one"}
    Declared <- MCDeclared
    MaxId = 4
    Ranges <- MCRanges
    Lists <- MCLists
    App = {"surface_files"}
    MaxFiles = 3
    MaxDefs = 3
INVARIANT DataLoaded
CHECK_DEADLOCK FALSE
