SPECIFICATION Spec
CONSTANTS
    Svars <- MCSvars
    Formats <- MCFormats
    Requests <- MCRequests
    App = {}
    MaxStates = 2
    MaxClock = 1
    MaxBuffers = 2
INVARIANTS TypeOK ReadsBack TimesFound
CHECK_DEADLOCK FALSE
