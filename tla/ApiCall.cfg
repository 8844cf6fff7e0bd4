SPECIFICATION FairSpec
CONSTANTS
    Callers = {c1, c2}
    Scripts = {c2}
    MaxRetries = 2
    Interval = 1
    Second = 1
    MaxAhead = 2
    MaxToken = 1
INVARIANTS
    SentOnce
PROPERTIES
    OkMeansDone
    SlotsSpaced
    PausesDouble
    CallReturns
