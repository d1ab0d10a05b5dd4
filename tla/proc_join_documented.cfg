SPECIFICATION Spec
CONSTANTS
    NULL = NULL
    MAX_PROC = 4
    MAX_FILEID = 0
    FCBs = {}
    Threads = {t1, t2, t3}
    MaxCreated = 3
    Program = {"Exec", "Exit", "CreateThread", "ThreadExit", "ThreadJoin", "init_threads"}
SYMMETRY Symmetry
PROPERTIES JoinFindsThread
CHECK_DEADLOCK FALSE
