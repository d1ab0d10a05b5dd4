SPECIFICATION Spec
CONSTANTS
    NULL = NULL
    MAX_PROC = 5
    MAX_FILEID = 1
    FCBs = {f1}
    Threads = {t1, t2, t3, t4}
    MaxCreated = 3
    Program = {"Exec", "WaitChild", "Exit", "CreateThread", "ThreadExit", "ThreadDetach", "ThreadJoin", "Streams"}
SYMMETRY Symmetry
INVARIANTS ProcessTable ThreadsKeepProcessAlive NoMissedExit StreamReferences
CHECK_DEADLOCK FALSE
