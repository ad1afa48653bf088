SPECIFICATION Spec
CONSTANTS
    Srecs = {0}
    SrecSize <- OneFormat
    write_tfile = FALSE
    Limits = {3}
    bytes_per_file_limit = 0
    ABSOLUTE_MAX_FILE_SIZE = 100
    App = {"restart", "restart_open"}
    MaxStates = 7
INVARIANT MapIsMemory
CHECK_DEADLOCK FALSE
