SPECIFICATION Spec
CONSTANTS
    ElemClasses <- MCElemClasses
    NodeClasses <- MCNodeClasses
    Particles = {"sph"}
    Ml = "ml"
    Begins <- MCBegins
    Chunks <- MCChunks
    Apps <- MCOneSession
    MAX_LABEL_CLASSES = 3
INVARIANT GlobalsKept
CHECK_DEADLOCK FALSE
