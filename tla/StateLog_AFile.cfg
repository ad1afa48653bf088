SPECIFICATION Spec
CONSTANTS
    Srecs = {0}
    SrecSize <- OneFormat
    write_tfile = FALSE
    Limits = {3}
    bytes_per_file_limit = 0
    ABSOLUTE_MAX_FILE_SIZE = 100
    App = {"leave_open", "restart", "crash"}
    MaxStates = 7
INVARIANTS
    PreviousKnown
    StatesIntact
    MappedIsWritten
    CountsAgree
    FilesFilled
    Reopenable
