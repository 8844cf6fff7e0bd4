SPECIFICATION FairSpec
CONSTANTS
    g3 = g3 f1 = f1 f2 = f2 NotFound = NotFound Torn = Torn
    FileOf <- FileOfTwo
    Files = {f1, f2}
    Goroutines = {g1, g2, g3}
    Data = {s1, s2}
    Names = {n1, n2}
PROPERTIES
    NoLeftovers
    ImplementsRegister
    CallsReturn
