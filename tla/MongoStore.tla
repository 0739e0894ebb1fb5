----------------------------- MODULE MongoStore -----------------------------
(***************************************************************************)
(* The MongoDB driver of the RBAC tables (src/store/mongo/store.go).      *)
(* Every call is one request to the server, atomic on the documents it   *)
(* touches, except SetRolePermissions, which is two: a deleteMany of the  *)
(* role's links, then an insertMany of the new list, with no transaction  *)
(* around them.  Calls from the Procs (concurrent API requests) may       *)
(* interleave between those two.  The unique indexes of migrationIndexes *)
(* reject a duplicate key, including the (role_id, permission_id) index  *)
(* of the links; nothing cascades a delete.                                *)
(***************************************************************************)
EXTENDS StoreBase

CONSTANT Procs   \* concurrent callers of SetRolePermissions

VARIABLE inflight  \* per caller: Idle, or the SetRolePermissions call
                   \* between its deleteMany and its insertMany

Idle == [role |-> NoParent, list |-> <<>>, found |-> {}]

vars == <<storeVars, inflight>>

\* ListRolePermissions: find({role_id}).
ListRolePermissions(x) == {l[2] : l \in LinksOf(x)}

-----------------------------------------------------------------------------
(* Role operations.                                                        *)

\* insertOne; the (tenant_id, slug) unique index rejects a clash, and the
\* caller never learns the new id.
CreateRole(r) ==
    /\ Fresh(r)
    /\ ~Clash(roles, RoleKey, r)
    /\ roles' = Put(roles, r.id, RoleRow(r))
    /\ issued' = issued \cup {r.id}
    /\ UNCHANGED <<perms, links, asgs, now, lastSet, inflight>>

\* Mutant: the (tenant_id, slug) index is missing, so updates are unchecked.
UpdateRoleNoIndex(r) ==
    /\ r.id \in DOMAIN roles
    /\ roles' = Put(roles, r.id, RoleRow(r))
    /\ UNCHANGED <<perms, links, asgs, now, issued, lastSet, inflight>>

\* updateOne by _id: errNotFound when nothing matched, a duplicate-key
\* error on a clash.
UpdateRole(r) ==
    /\ r.id \in DOMAIN roles
    /\ roles' = IF Clash(roles, RoleKey, r) THEN roles
                ELSE Put(roles, r.id, RoleRow(r))
    /\ UNCHANGED <<perms, links, asgs, now, issued, lastSet, inflight>>

\* deleteOne of the role document: its links and assignments stay.
DeleteRole(x) ==
    /\ roles' = Drop(roles, {x})
    /\ UNCHANGED <<perms, links, asgs, now, issued, lastSet, inflight>>

DeleteRolesByTenant(t) ==
    /\ roles' = Drop(roles, {x \in DOMAIN roles : roles[x].tenant = t})
    /\ UNCHANGED <<perms, links, asgs, now, issued, lastSet, inflight>>

\* Mutant: the model is built with the two ids swapped.
AttachPermissionSwapped(x, p) ==
    /\ links' = links \cup {<<p, x>>}
    /\ lastSet' = Forget(links')
    /\ UNCHANGED <<roles, perms, asgs, now, issued, inflight>>

\* insertOne; a duplicate key means "already attached" and returns nil.
AttachPermission(x, p) ==
    /\ links' = links \cup {<<x, p>>}
    /\ lastSet' = Forget(links')
    /\ UNCHANGED <<roles, perms, asgs, now, issued, inflight>>

DetachPermission(x, p) ==
    /\ links' = links \ {<<x, p>>}
    /\ lastSet' = Forget(links')
    /\ UNCHANGED <<roles, perms, asgs, now, issued, inflight>>

\* The first request of SetRolePermissions: deleteMany({role_id}).  The
\* call remembers the links it found, which it promises to keep on error.
SetRolePermissionsDelete(p, x, L) ==
    /\ inflight[p] = Idle
    /\ links' = links \ LinksOf(x)
    /\ inflight' = [inflight EXCEPT ![p] =
                       [role |-> x, list |-> L, found |-> ListRolePermissions(x)]]
    /\ UNCHANGED <<roles, perms, asgs, now, issued, lastSet>>

\* The index of the first item an ordered insertMany rejects: one already
\* linked, or a repeat of an earlier item; Len(L) + 1 when none is.
FirstRejected(x, L) ==
    LET bad == {i \in 1..Len(L) : \/ <<x, L[i]>> \in links
                                  \/ \E j \in 1..(i - 1) : L[j] = L[i]}
    IN  IF bad = {} THEN Len(L) + 1 ELSE CHOOSE i \in bad : \A j \in bad : i <= j

\* The second request: insertMany of the list (skipped when it is empty).
\* It stops at the first duplicate key, keeping what it inserted before
\* it, and the call returns that error.
SetRolePermissionsInsert(p) ==
    LET x == inflight[p].role
        L == inflight[p].list
        k == FirstRejected(x, L)
    IN  /\ inflight[p] # Idle
        /\ links' = links \cup {<<x, L[i]>> : i \in 1..(k - 1)}
        /\ lastSet' = [lastSet EXCEPT ![x] =
                          Known(IF k <= Len(L) THEN inflight[p].found ELSE ListSet(L))]
        /\ inflight' = [inflight EXCEPT ![p] = Idle]
        /\ UNCHANGED <<roles, perms, asgs, now, issued>>

-----------------------------------------------------------------------------
(* Permission operations.                                                  *)

CreatePermission(p) ==
    /\ Fresh(p)
    /\ ~Clash(perms, PermKey, p)
    /\ perms' = Put(perms, p.id, p)
    /\ issued' = issued \cup {p.id}
    /\ UNCHANGED <<roles, links, asgs, now, lastSet, inflight>>

UpdatePermission(p) ==
    /\ p.id \in DOMAIN perms
    /\ perms' = IF Clash(perms, PermKey, p) THEN perms ELSE Put(perms, p.id, p)
    /\ UNCHANGED <<roles, links, asgs, now, issued, lastSet, inflight>>

\* deleteOne of the permission document: its links stay.
DeletePermission(p) ==
    /\ perms' = Drop(perms, {p})
    /\ UNCHANGED <<roles, links, asgs, now, issued, lastSet, inflight>>

DeletePermissionsByTenant(t) ==
    /\ perms' = Drop(perms, {p \in DOMAIN perms : perms[p].tenant = t})
    /\ UNCHANGED <<roles, links, asgs, now, issued, lastSet, inflight>>

-----------------------------------------------------------------------------
(* Assignment operations.                                                  *)

\* insertOne; the six-field unique index rejects a clash.  No reference
\* to the role is checked.
CreateAssignment(a) ==
    /\ Fresh(a)
    /\ ~Clash(asgs, AsgKey, a)
    /\ asgs' = Put(asgs, a.id, a)
    /\ issued' = issued \cup {a.id}
    /\ UNCHANGED <<roles, perms, links, now, lastSet, inflight>>

\* deleteOne/deleteMany of DeleteAssignment, DeleteExpiredAssignments
\* (expires_at $ne nil and $lt now), DeleteAssignmentsBySubject,
\* DeleteAssignmentsByRole and DeleteAssignmentsByTenant.
DeleteAssignmentsWhere(D) ==
    /\ asgs' = Drop(asgs, D)
    /\ UNCHANGED <<roles, perms, links, now, issued, lastSet, inflight>>

DeleteAssignment(a) == DeleteAssignmentsWhere({a})
DeleteExpiredAssignments == DeleteAssignmentsWhere({a \in DOMAIN asgs : asgs[a].expires < now})
DeleteAssignmentsBySubject(t, s) ==
    DeleteAssignmentsWhere({a \in DOMAIN asgs : asgs[a].tenant = t /\ asgs[a].subject = s})
DeleteAssignmentsByRole(x) == DeleteAssignmentsWhere({a \in DOMAIN asgs : asgs[a].role = x})
DeleteAssignmentsByTenant(t) == DeleteAssignmentsWhere({a \in DOMAIN asgs : asgs[a].tenant = t})

-----------------------------------------------------------------------------
(* Reads.                                                                  *)

GetRoleParent(x) == IF x \in DOMAIN roles THEN roles[x].parent ELSE NoParent

\* resource_type "" (expires_at is not in the filter).
ListRolesForSubject(t, s) ==
    {asgs[a].role : a \in {b \in DOMAIN asgs : /\ asgs[b].tenant = t
                                              /\ asgs[b].subject = s
                                              /\ asgs[b].scope[1] = ""}}

ListRolesForSubjectOnResource(t, s, sc) ==
    {asgs[a].role : a \in {b \in DOMAIN asgs : /\ asgs[b].tenant = t
                                              /\ asgs[b].subject = s
                                              /\ asgs[b].scope = sc}}

RolesOf(s) ==
    UNION {ListRolesForSubject(t, s) \cup ListRolesForSubjectOnResource(t, s, sc) :
              t \in Tenants, sc \in Scopes}

-----------------------------------------------------------------------------
Init == InitStore /\ inflight = [p \in Procs |-> Idle]

Next ==
    \/ \E r \in RoleInputs : CreateRole(r) \/ UpdateRole(r)
    \/ \E x \in IssuedRoles : DeleteRole(x) \/ DeleteAssignmentsByRole(x)
    \/ \E t \in Tenants : \/ DeleteRolesByTenant(t) \/ DeletePermissionsByTenant(t)
                          \/ DeleteAssignmentsByTenant(t)
    \/ \E x \in IssuedRoles, p \in IssuedPerms :
          AttachPermission(x, p) \/ DetachPermission(x, p)
    \/ \E p \in Procs, x \in IssuedRoles, L \in ListInputs : SetRolePermissionsDelete(p, x, L)
    \/ \E p \in Procs : SetRolePermissionsInsert(p)
    \/ \E p \in PermArgs : CreatePermission(p) \/ UpdatePermission(p)
    \/ \E p \in IssuedPerms : DeletePermission(p)
    \/ \E a \in AsgInputs : CreateAssignment(a)
    \/ \E a \in IssuedAsgs : DeleteAssignment(a)
    \/ DeleteExpiredAssignments
    \/ \E t \in Tenants, s \in Subjects : DeleteAssignmentsBySubject(t, s)
    \/ Tick /\ UNCHANGED inflight

Spec == Init /\ [][Next]_vars

-----------------------------------------------------------------------------
(* The contract of StoreBase, for this driver.                             *)

\* No SetRolePermissions call is between its two requests.
Quiet == \A p \in Procs : inflight[p] = Idle

(* The unique indexes keep (tenant, slug), (tenant, name) and the         *)
(* assignment key unique through any creates and updates.                  *)
MongoUniqueConstraints == UniqueConstraints

(* SetRolePermissions replaces a role's links, or on error leaves them:   *)
(* its deleteMany and insertMany must not let a failed or concurrent call *)
(* leave anything else.                                                    *)
MongoSetIsAtomic == SetIsAtomic(Quiet)

=============================================================================
