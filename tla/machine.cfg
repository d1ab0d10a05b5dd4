SPECIFICATION FairSpec
CONSTANTS
    Cores = {c1, c2}
    SerialCore = c1
    DeepDepth = 5
    OtherDepth = 1
    MaxDepth <- MCMaxDepth
INVARIANTS MasksAgree NoInterruptForgotten
PROPERTIES InterruptIsServed
