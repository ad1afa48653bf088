SPECIFICATION Spec
CONSTANTS
    ElemClasses <- MCElemClasses
    NodeClasses <- MCNodeClasses
    Particles = {"sph"}
    Ml = "ml"
    Begins <- MCBegins
    Chunks <- MCChunks
    Apps <- MCApps
    MAX_LABEL_CLASSES = 2
INVARIANT NodeBlocksExact
CHECK_DEADLOCK FALSE
