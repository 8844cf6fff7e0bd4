SPECIFICATION Spec
CONSTANTS
    Meanings <- All
    Me = 1
    MaxUpdates = 2
    Hydrate = TRUE
INVARIANTS
    TypeOK
    NeverMisattributed
    ReadAsDocumented
    NothingMadeUp
