SPECIFICATION FairEchoSpec
CONSTANTS
    Requests = {r1, r2}
    None = None
    Unreadable = Unreadable
    MaxPair = 2
INVARIANTS
    OnlyOurCallback
    PageAgrees
    KeptBeforeUse
PROPERTIES
    LoginReturns
    HandlersReturn
    ProgramEnds
