CONSTANTS
    r1 = r1
    r2 = r2
    r3 = r3
    p1 = p1
    p2 = p2
    p3 = p3
    Chars <- MCChars
    Roles = {r1, r2, r3}
    PermIDs = {p1, p2, p3}
    PermTable <- MCPermTable
    Requests <- MCRequests
    RoleLists <- MCRoleLists
    ParentMaps <- MCParentMaps
    PermMaps <- MCPermMaps
    StoreErrors = TRUE
SPECIFICATION Spec
INVARIANTS
    TypeOK
    RbacSound
CHECK_DEADLOCK FALSE
