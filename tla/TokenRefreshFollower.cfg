SPECIFICATION Spec
CONSTANTS
    None = None
    Procs = {p1, p2, p3}
    MaxPair = 3
INVARIANTS
    FollowerTold
