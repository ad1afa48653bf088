SPECIFICATION Spec
CONSTANTS
    Svars <- MCSvars
    Formats <- MCFormats
    Requests <- MCRequests
    App = {"restart"}
    MaxStates = 2
    MaxClock = 2
    MaxBuffers = 2
INVARIANT OwnBuffersCurrent
CHECK_DEADLOCK FALSE
