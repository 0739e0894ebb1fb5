CONSTANTS
    s1 = s1
    s2 = s2
    q1 = q1
    q2 = q2
    ra = ra
    rb = rb
    pa = pa
    Roles = {ra, rb}
    Perms = {pa}
    Subjects = {s1, s2}
    Procs = {q1, q2}
    RbacOn = TRUE
    RebacOn = TRUE
    AbacOn = TRUE
    CacheOn = TRUE
    StoreErrors = TRUE
    InitStores <- MCInitStores
    MaxVersion = 1
SPECIFICATION Spec
SYMMETRY MCSymmetry
INVARIANTS
    TypeOK
    AllowForSubject
    ExplicitDenyWins
