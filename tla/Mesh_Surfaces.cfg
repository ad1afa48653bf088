SPECIFICATION Spec
CONSTANTS
    Names = {"mesh"}
    Classes = {"one"}
    Declared <- MCDeclared
    MaxId = 4
    Ranges <- MCRanges
    Lists <- MCLists
    App = {}
    MaxFiles = 3
    MaxDefs = 3
INVARIANT SurfacesLoaded
CHECK_DEADLOCK FALSE
