SPECIFICATION Spec
CONSTANTS
    Unset = Unset
    MaxHead = 2
    MaxFaults = 1
    Fatal = TRUE
INVARIANTS
    TimeoutRetried
