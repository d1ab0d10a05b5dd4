SPECIFICATION SupportSpec
CONSTANTS
    Heads = {l1, l2}
    Items = {n1, n2, n3}
    Keys = {k1, k2}
    MaxTries = 3
    MaxHandlers = 3
    Programs = {"p", "q"}
    Chars = {"a", "b"}
    MaxArgs = 2
    MaxLength = 2
    PROCINFO_MAX_ARGS_SIZE = 5
    Capacity = 2
    PIPE_BUF = 2
    Bytes = {"a", "b", "c"}
    TermArgs <- MCTermArgs
    Scripts <- MCScripts
INVARIANTS QueriesAgree ExceptionsUnwind ArgumentsArrive VerdictIsSound
PROPERTIES ImplementsLists SuiteEnds
CHECK_DEADLOCK FALSE
