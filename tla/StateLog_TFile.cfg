SPECIFICATION Spec
CONSTANTS
    Srecs = {0}
    SrecSize <- OneSmallFormat
    write_tfile = TRUE
    Limits = {1, 2}
    bytes_per_file_limit = 0
    ABSOLUTE_MAX_FILE_SIZE = 100
    App = {"leave_open", "restart", "crash", "crash_inside", "partition", "limits", "rewrite"}
    MaxStates = 4
INVARIANTS
    TypeOK
    MapIsMemory
PROPERTIES
    PublishedIsKept
    KeepsArchive
CHECK_DEADLOCK FALSE
