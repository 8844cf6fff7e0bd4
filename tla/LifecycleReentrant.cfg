SPECIFICATION FairSpec
CONSTANTS
    None = None
    Callers = {c1, c2}
    Loops = {l1, l2}
    HandlersDisconnect = TRUE
PROPERTIES
    SafeWhenNotConnected
\* a handler may wait for itself for ever
CHECK_DEADLOCK FALSE
