CONSTANTS
    Chars <- MCChars
    Requests <- MCRequests
    Results = {yes, no}
    Procs = {p1, p2}
    TTL = 1
    MaxSize = 2
    MaxTime = 3
SPECIFICATION Spec
INVARIANTS
    TypeOK
    CapacityBound
    InvalidationTakesEffect
