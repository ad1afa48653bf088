SPECIFICATION Spec
CONSTANTS
    Svars <- MCSvars
    Formats <- MCFormats
    Requests <- MCRequests
    App = {"mixed_lengths"}
    MaxStates = 2
    MaxClock = 1
    MaxBuffers = 2
INVARIANT ReadsBack
CHECK_DEADLOCK FALSE
