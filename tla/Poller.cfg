SPECIFICATION FairSpec
CONSTANTS
    Unset = Unset
    MaxHead = 4
    MaxFaults = 2
    Fatal = TRUE
INVARIANTS
    NeverAskedTwice
PROPERTIES
    ImplementsUpdateFeed
    CancelStops
    KeepsUp
