CONSTANTS
    s1 = s1
    s2 = s2
    q1 = q1
    q2 = q2
    ra = ra
    rb = rb
    pa = pa
    Roles = {ra, rb}
    Perms = {pa}
    Subjects = {s1, s2}
    Procs = {q1}
    RbacOn = TRUE
    RebacOn = FALSE
    AbacOn = FALSE
    CacheOn = FALSE
    StoreErrors = FALSE
    InitStores <- MCRoleWithoutPerms
    MaxVersion = 2
SPECIFICATION Spec
INVARIANTS
    AllowAtOneInstant
CHECK_DEADLOCK FALSE
