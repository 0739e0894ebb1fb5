CONSTANTS
    r1 = r1
    r2 = r2
    r3 = r3
    p1 = p1
    p2 = p2
    p3 = p3
    Chars <- MCChars
    Roles <- ChainRoles
    PermIDs = {p1, p2, p3}
    PermTable <- MCPermTable
    Requests <- MCRequests
    RoleLists <- ChainRoleLists
    ParentMaps <- ChainParentMaps
    PermMaps <- ChainPermMaps
    StoreErrors = FALSE
SPECIFICATION Spec
INVARIANTS
    RoleClosure
CHECK_DEADLOCK FALSE
