SPECIFICATION Spec
CONSTANTS
    None = None
    Callers = {c1, c2}
    Loops = {l1, l2, l3}
    HandlersDisconnect = TRUE
SYMMETRY Symmetry
INVARIANTS
    OneLoop
    ConnectedMeansLive
    Stoppable
PROPERTIES
    DisconnectIsFinal
    ImplementsSingleLoop
\* a Disconnect inside a handler may wait for itself for ever
CHECK_DEADLOCK FALSE
