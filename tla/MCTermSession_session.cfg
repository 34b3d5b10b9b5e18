CONSTANTS
    MaxSessions = 2
    MaxTokens = 3
    MaxPending = 2
    MaxResponse = 1
    InputQueue = 1
    OutputQueue = 2
    Chunk = 1
    ReadBudget = 2
    Word = 4
SPECIFICATION FairSpec
INVARIANT EachTokenOnce
INVARIANT NoStray
PROPERTY ExitNoticed
CHECK_DEADLOCK FALSE
