CONSTANTS
    Tenants = {"t1"}
    RoleIds = {"r1", "r2"}
    PermIds = {"p1", "p2"}
    AsgIds = {"a1", "a2"}
    Slugs = {"s1", "s2"}
    Names = {"n1", "n2"}
    Subjects = {"u1"}
    Scopes <- MCScopes
    RoleArgs <- MCRoleArgs
    PermArgs <- MCPermArgs
    AsgArgs <- MCAsgArgs
    PermLists <- MCPermLists
    MaxTime = 1
    FKEnforced = FALSE
SPECIFICATION Spec
INVARIANTS
    TypeOK
    UniqueConstraints
    SqliteSetIsAtomic
