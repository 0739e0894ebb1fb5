----------------------------- MODULE SqliteStore -----------------------------
(***************************************************************************)
(* The SQLite driver of the RBAC tables (store/sqlite, src/unnamed/       *)
(* part_019, with the schema of part_020).  Every operation is one SQL    *)
(* statement, or one transaction, so each is one atomic step.  The        *)
(* schema's UNIQUE constraints reject a conflicting INSERT or UPDATE with *)
(* an error, and its foreign keys (ON DELETE CASCADE from                 *)
(* warden_role_permissions and warden_assignments) take effect only when *)
(* the connection enforces them (PRAGMA foreign_keys, which nothing under *)
(* src sets): FKEnforced says whether it does.                            *)
(***************************************************************************)
EXTENDS StoreBase

CONSTANT FKEnforced

ASSUME FKAssumption == FKEnforced \in BOOLEAN

-----------------------------------------------------------------------------
(* Effects of the foreign keys.                                            *)

\* Mutant: the role_permissions rows are not cascaded.
LinksWithoutRolesKept(D) == links

\* Rows of links and asgs left once the roles D are gone.
LinksWithoutRoles(D) == IF FKEnforced THEN {l \in links : l[1] \notin D} ELSE links
AsgsWithoutRoles(D) ==
    IF FKEnforced THEN Drop(asgs, {a \in DOMAIN asgs : asgs[a].role \in D}) ELSE asgs
LinksWithoutPerms(D) == IF FKEnforced THEN {l \in links : l[2] \notin D} ELSE links

\* An insert naming a missing role or permission fails its foreign key.
FKFails(rids, pids) == FKEnforced /\ ~(rids \subseteq DOMAIN roles /\ pids \subseteq DOMAIN perms)

\* SELECT permission_id FROM warden_role_permissions WHERE role_id.
ListRolePermissions(x) == {l[2] : l \in LinksOf(x)}

-----------------------------------------------------------------------------
(* Role operations.                                                        *)

\* Mutant: the INSERT is not checked against the unique key.
CreateRoleNoUnique(r) ==
    /\ Fresh(r)
    /\ roles' = Put(roles, r.id, RoleRow(r))
    /\ issued' = issued \cup {r.id}
    /\ UNCHANGED <<perms, links, asgs, now, lastSet>>

\* INSERT; fails on UNIQUE(tenant_id, slug), leaving every table as it was.
\* The caller learns the new id only when CreateRole returns nil.
CreateRole(r) ==
    /\ Fresh(r)
    /\ ~Clash(roles, RoleKey, r)
    /\ roles' = Put(roles, r.id, RoleRow(r))
    /\ issued' = issued \cup {r.id}
    /\ UNCHANGED <<perms, links, asgs, now, lastSet>>

\* UPDATE ... WHERE id: no row matched is not an error; fails on the
\* unique key.
UpdateRole(r) ==
    /\ roles' = IF r.id \in DOMAIN roles /\ ~Clash(roles, RoleKey, r)
                THEN Put(roles, r.id, RoleRow(r))
                ELSE roles
    /\ UNCHANGED <<perms, links, asgs, now, issued, lastSet>>

\* DELETE the row; the foreign keys cascade to its links and assignments.
DeleteRole(x) ==
    /\ roles' = Drop(roles, {x})
    /\ links' = LinksWithoutRoles({x})
    /\ asgs' = AsgsWithoutRoles({x})
    /\ lastSet' = Forget(links')
    /\ UNCHANGED <<perms, now, issued>>

\* DELETE every role of the tenant (and, by cascade, their rows).
DeleteRolesByTenant(t) ==
    LET D == {x \in DOMAIN roles : roles[x].tenant = t}
    IN  /\ roles' = Drop(roles, D)
        /\ links' = LinksWithoutRoles(D)
        /\ asgs' = AsgsWithoutRoles(D)
        /\ lastSet' = Forget(links')
        /\ UNCHANGED <<perms, now, issued>>

\* Mutant: the model is built with the two ids swapped.
AttachPermissionSwapped(x, p) ==
    /\ links' = IF FKFails({x}, {p}) THEN links ELSE links \cup {<<p, x>>}
    /\ lastSet' = Forget(links')
    /\ UNCHANGED <<roles, perms, asgs, now, issued>>

\* INSERT ... ON CONFLICT (role_id, permission_id) DO NOTHING.
AttachPermission(x, p) ==
    /\ links' = IF FKFails({x}, {p}) THEN links ELSE links \cup {<<x, p>>}
    /\ lastSet' = Forget(links')
    /\ UNCHANGED <<roles, perms, asgs, now, issued>>

DetachPermission(x, p) ==
    /\ links' = links \ {<<x, p>>}
    /\ lastSet' = Forget(links')
    /\ UNCHANGED <<roles, perms, asgs, now, issued>>

\* Mutant: the DELETE is committed although the INSERT failed.
SetRolePermissionsNoRollback(x, L) ==
    LET fails == HasDuplicate(L) \/ FKFails({x}, ListSet(L))
    IN  /\ links' = IF fails THEN links \ LinksOf(x)
                    ELSE (links \ LinksOf(x)) \cup {<<x, p>> : p \in ListSet(L)}
        /\ lastSet' = [lastSet EXCEPT ![x] =
                          Known(IF fails THEN ListRolePermissions(x) ELSE ListSet(L))]
        /\ UNCHANGED <<roles, perms, asgs, now, issued>>

\* One transaction: DELETE the role's links, bulk INSERT the list.  The
\* INSERT fails on the primary key when the list repeats an id, or on a
\* foreign key; the deferred Rollback then undoes the DELETE.
SetRolePermissions(x, L) ==
    LET fails == HasDuplicate(L) \/ FKFails({x}, ListSet(L))
    IN  /\ links' = IF fails THEN links
                    ELSE (links \ LinksOf(x)) \cup {<<x, p>> : p \in ListSet(L)}
        /\ lastSet' = [lastSet EXCEPT ![x] =
                          Known(IF fails THEN ListRolePermissions(x) ELSE ListSet(L))]
        /\ UNCHANGED <<roles, perms, asgs, now, issued>>

-----------------------------------------------------------------------------
(* Permission operations.                                                  *)

\* INSERT; fails on UNIQUE(tenant_id, name).
CreatePermission(p) ==
    /\ Fresh(p)
    /\ ~Clash(perms, PermKey, p)
    /\ perms' = Put(perms, p.id, p)
    /\ issued' = issued \cup {p.id}
    /\ UNCHANGED <<roles, links, asgs, now, lastSet>>

UpdatePermission(p) ==
    /\ perms' = IF p.id \in DOMAIN perms /\ ~Clash(perms, PermKey, p)
                THEN Put(perms, p.id, p) ELSE perms
    /\ UNCHANGED <<roles, links, asgs, now, issued, lastSet>>

DeletePermission(p) ==
    /\ perms' = Drop(perms, {p})
    /\ links' = LinksWithoutPerms({p})
    /\ lastSet' = Forget(links')
    /\ UNCHANGED <<roles, asgs, now, issued>>

DeletePermissionsByTenant(t) ==
    LET D == {p \in DOMAIN perms : perms[p].tenant = t}
    IN  /\ perms' = Drop(perms, D)
        /\ links' = LinksWithoutPerms(D)
        /\ lastSet' = Forget(links')
        /\ UNCHANGED <<roles, asgs, now, issued>>

-----------------------------------------------------------------------------
(* Assignment operations.                                                  *)

\* INSERT; fails on the six-column unique key or on role_id's foreign key.
CreateAssignment(a) ==
    /\ Fresh(a)
    /\ ~Clash(asgs, AsgKey, a) /\ ~FKFails({a.role}, {})
    /\ asgs' = Put(asgs, a.id, a)
    /\ issued' = issued \cup {a.id}
    /\ UNCHANGED <<roles, perms, links, now, lastSet>>

\* The DELETE statements of DeleteAssignment, DeleteExpiredAssignments
\* (expires_at IS NOT NULL AND expires_at < now), DeleteAssignmentsBySubject,
\* DeleteAssignmentsByRole and DeleteAssignmentsByTenant, by their WHERE.
DeleteAssignmentsWhere(D) ==
    /\ asgs' = Drop(asgs, D)
    /\ UNCHANGED <<roles, perms, links, now, issued, lastSet>>

DeleteAssignment(a) == DeleteAssignmentsWhere({a})
DeleteExpiredAssignments == DeleteAssignmentsWhere({a \in DOMAIN asgs : asgs[a].expires < now})
DeleteAssignmentsBySubject(t, s) ==
    DeleteAssignmentsWhere({a \in DOMAIN asgs : asgs[a].tenant = t /\ asgs[a].subject = s})
DeleteAssignmentsByRole(x) == DeleteAssignmentsWhere({a \in DOMAIN asgs : asgs[a].role = x})
DeleteAssignmentsByTenant(t) == DeleteAssignmentsWhere({a \in DOMAIN asgs : asgs[a].tenant = t})

-----------------------------------------------------------------------------
(* Reads.                                                                  *)

\* GetRole: the role's parent, NoParent when the row is missing.
GetRoleParent(x) == IF x \in DOMAIN roles THEN roles[x].parent ELSE NoParent


\* WHERE tenant, subject and resource_type = '' (expires_at is not read).
ListRolesForSubject(t, s) ==
    {asgs[a].role : a \in {b \in DOMAIN asgs : /\ asgs[b].tenant = t
                                              /\ asgs[b].subject = s
                                              /\ asgs[b].scope[1] = ""}}

ListRolesForSubjectOnResource(t, s, sc) ==
    {asgs[a].role : a \in {b \in DOMAIN asgs : /\ asgs[b].tenant = t
                                              /\ asgs[b].subject = s
                                              /\ asgs[b].scope = sc}}

\* The role ids evaluateRBAC starts from for subject s, in any request.
RolesOf(s) ==
    UNION {ListRolesForSubject(t, s) \cup ListRolesForSubjectOnResource(t, s, sc) :
              t \in Tenants, sc \in Scopes}

-----------------------------------------------------------------------------
Init == InitStore

Next ==
    \/ \E r \in RoleInputs : CreateRole(r) \/ UpdateRole(r)
    \/ \E x \in IssuedRoles : DeleteRole(x) \/ DeleteAssignmentsByRole(x)
    \/ \E t \in Tenants : \/ DeleteRolesByTenant(t) \/ DeletePermissionsByTenant(t)
                          \/ DeleteAssignmentsByTenant(t)
    \/ \E x \in IssuedRoles, p \in IssuedPerms :
          AttachPermission(x, p) \/ DetachPermission(x, p)
    \/ \E x \in IssuedRoles, L \in ListInputs : SetRolePermissions(x, L)
    \/ \E p \in PermArgs : CreatePermission(p) \/ UpdatePermission(p)
    \/ \E p \in IssuedPerms : DeletePermission(p)
    \/ \E a \in AsgInputs : CreateAssignment(a)
    \/ \E a \in IssuedAsgs : DeleteAssignment(a)
    \/ DeleteExpiredAssignments
    \/ \E t \in Tenants, s \in Subjects : DeleteAssignmentsBySubject(t, s)
    \/ Tick

Spec == Init /\ [][Next]_storeVars

-----------------------------------------------------------------------------
(* The contract of StoreBase, for this driver's reads.                     *)

SqliteSetIsAtomic == SetIsAtomic(TRUE)
=============================================================================
