SPECIFICATION FairSpec
CONSTANTS
    r1 = r1
    r2 = r2
    w1 = w1
    Readers <- MCReaders
    Writers <- MCWriters
    Term <- MCTerm
    NTerm = 1
    Size = 2
    Capacity = 1
    SERIAL_TIMEOUT = 1
    Nobody = Nobody
INVARIANTS KeyboardIsWatched
PROPERTIES InputIsRead WriteEnds
