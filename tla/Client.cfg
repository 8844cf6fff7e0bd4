SPECIFICATION FairSpec
CONSTANTS
    None = None
    Callers = {c}
    Loops = {l1, l2}
    HandlersDisconnect = TRUE
    HandlersAsk = TRUE
INVARIANTS
    DeadlockNeedsHandler
PROPERTIES
    WaitEnds
    
\* a handler may wait for itself for ever
CHECK_DEADLOCK FALSE
