SPECIFICATION Spec
CONSTANTS
    NULL = NULL
    MAX_PROC = 4
    MAX_FILEID = 0
    FCBs = {}
    Threads = {t1, t2, t3, t4}
    MaxCreated = 3
    Program = {"Exec", "WaitChild", "Exit", "CreateThread", "shared_wait"}
SYMMETRY Symmetry
PROPERTIES ReapsOwnChild
CHECK_DEADLOCK FALSE
