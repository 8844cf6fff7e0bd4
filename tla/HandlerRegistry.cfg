SPECIFICATION FairSpec
CONSTANTS
    Goroutines = {g1, g2}
    Width = 4
    MaxAdds = 3
    MaxDepth = 2
INVARIANTS
    InOrderOnce
    NobodyMissed
PROPERTIES
    ChangesReturn
