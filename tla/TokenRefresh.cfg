SPECIFICATION FairSpec
CONSTANTS
    None = None
    Procs = {p1, p2}
    MaxPair = 4
INVARIANTS
    OneFlight
    CurrentPairSent
    NeverReuse
    StorageKeepsUp
PROPERTIES
    NeverBack
    RefreshReturns
    ImplementsFlights
