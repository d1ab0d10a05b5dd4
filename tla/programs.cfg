SPECIFICATION ProgFairSpec
CONSTANTS
    NULL = NULL
    MAX_PROC = 6
    MAX_FILEID = 5
    FCBs = {1, 2, 3, 4, 5, 6}
    Threads = {1, 2, 3, 4, 5}
    MaxCreated = 12
    Program = {"Exec", "WaitChild", "Exit", "CreateThread", "ThreadExit", "ThreadJoin", "Streams", "init_threads"}
    Boots <- AllBoots
INVARIANTS AssertionsHold ShellKeepsStreams StreamReferences
PROPERTIES ProgramsEnd
