CONSTANTS
    Chars <- MCChars
    Requests <- MCCollidingRequests
    Results = {yes, no}
    Procs = {p1}
    TTL = 1
    MaxSize = 2
    MaxTime = 1
SPECIFICATION Spec
INVARIANTS
    ServedOwnResult
