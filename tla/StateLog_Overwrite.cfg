SPECIFICATION Spec
CONSTANTS
    Srecs = {0}
    SrecSize <- OneSmallFormat
    write_tfile = FALSE
    Limits = {3}
    bytes_per_file_limit = 0
    ABSOLUTE_MAX_FILE_SIZE = 100
    App = {"partition"}
    MaxStates = 4
INVARIANT StatesIntact
CHECK_DEADLOCK FALSE
