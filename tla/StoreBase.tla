------------------------------ MODULE StoreBase ------------------------------
(***************************************************************************)
(* The persistent state behind warden's RBAC evaluator, shared by the     *)
(* models of its three store drivers (SQLite, in-memory, MongoDB): the    *)
(* roles, permissions and role-permission links, and the assignments of   *)
(* roles to subjects (the warden_roles, warden_permissions,               *)
(* warden_role_permissions and warden_assignments tables).                *)
(*                                                                         *)
(* Identifiers are model values; names, slugs, subjects and resource      *)
(* scopes are members of small sets.  The arguments callers pass to the   *)
(* Create/Update operations are drawn from the constant sets RoleArgs,    *)
(* PermArgs and AsgArgs; a Create always carries a fresh identifier, as   *)
(* the callers generate a new TypeID for every entity.                    *)
(*                                                                         *)
(* The properties are stated here once, over the tables and over the     *)
(* read operations each driver module passes in, so that every driver is *)
(* held to the same contract.                                              *)
(***************************************************************************)
EXTENDS Naturals, Sequences, FiniteSets

CONSTANTS
    Tenants,    \* tenant ids
    RoleIds,    \* role ids
    PermIds,    \* permission ids
    AsgIds,     \* assignment ids
    Slugs,      \* role slugs
    Names,      \* permission names
    Subjects,   \* (subject kind, subject id) pairs, abstracted
    Scopes,     \* (resource type, resource id) pairs, Global among them
    RoleArgs,   \* roles callers pass to CreateRole and UpdateRole
    PermArgs,   \* permissions callers pass to CreatePermission
    AsgArgs,    \* assignments callers pass to CreateAssignment
    PermLists,  \* the permIDs lists callers pass to SetRolePermissions
    MaxTime     \* bound on the clock

Global == <<"", "">>   \* resource type "" and id "": a global assignment
NoParent == "none"     \* Role.ParentID == nil
Never == MaxTime + 1   \* Assignment.ExpiresAt == nil: later than any clock

Role == [id : RoleIds, tenant : Tenants, slug : Slugs,
         parent : RoleIds \cup {NoParent}]
Perm == [id : PermIds, tenant : Tenants, name : Names]
Asg == [id : AsgIds, tenant : Tenants, role : RoleIds, subject : Subjects,
        scope : Scopes, expires : 0..Never]

ASSUME ArgsAssumption ==
    /\ RoleArgs \subseteq Role /\ PermArgs \subseteq Perm /\ AsgArgs \subseteq Asg
    /\ PermLists \subseteq Seq(PermIds)
    /\ Global \in Scopes
    /\ MaxTime \in Nat

VARIABLES
    roles,    \* warden_roles: id -> role
    perms,    \* warden_permissions: id -> permission
    links,    \* warden_role_permissions: the <<role id, permission id>> rows
    asgs,     \* warden_assignments: id -> assignment
    now,      \* the wall clock
    issued,   \* history: the ids callers have generated so far
    lastSet   \* history: per role, the links the last SetRolePermissions
              \* call promised to leave (known = FALSE after other writes)

storeVars == <<roles, perms, links, asgs, now, issued, lastSet>>

-----------------------------------------------------------------------------
(* Helpers on the tables.                                                  *)

\* Remove the rows with keys in D.
Drop(f, D) == [k \in DOMAIN f \ D |-> f[k]]

\* Insert or overwrite row k.
Put(f, k, v) == [j \in DOMAIN f \cup {k} |-> IF j = k THEN v ELSE f[j]]

\* The unique constraints of the schema: roles (tenant, slug), permissions
\* (tenant, name), assignments (tenant, role, subject, resource scope).
RoleKey(r) == <<r.tenant, r.slug>>
PermKey(p) == <<p.tenant, p.name>>
AsgKey(a) == <<a.tenant, a.role, a.subject, a.scope>>

\* Row x would violate the unique key Key of table f (another row has it).
Clash(f, Key(_), x) == \E k \in DOMAIN f : k # x.id /\ Key(f[k]) = Key(x)

\* The links of role r.
LinksOf(r) == {l \in links : l[1] = r}

\* The permissions a permIDs list names.
ListSet(L) == {L[i] : i \in 1..Len(L)}

\* The list names some permission twice.
HasDuplicate(L) == \E i, j \in 1..Len(L) : i < j /\ L[i] = L[j]

\* Every Create carries an id.New...() the caller just generated.
Fresh(x) == x.id \notin issued

\* Callers only name ids that were generated: the roles, permissions and
\* assignments that exist or existed.  These are the inputs of the drivers.
IssuedRoles == RoleIds \cap issued
IssuedPerms == PermIds \cap issued
IssuedAsgs == AsgIds \cap issued
RoleInputs == {r \in RoleArgs : r.parent \in IssuedRoles \cup {NoParent}}
AsgInputs == {a \in AsgArgs : a.role \in IssuedRoles}
ListInputs == {L \in PermLists : ListSet(L) \subseteq IssuedPerms}

\* A row of warden_roles as CreateRole and UpdateRole write it (created_at
\* and updated_at are left out: no property reads them).
RoleRow(r) == [id |-> r.id, tenant |-> r.tenant, slug |-> r.slug, parent |-> r.parent]

Unknown == [known |-> FALSE, set |-> {}]
Known(S) == [known |-> TRUE, set |-> S]

\* The history after a write other than SetRolePermissions leaves the
\* links newLinks: a role whose links it changed no longer has a promise.
Forget(newLinks) ==
    [r \in RoleIds |-> IF LinksOf(r) = {l \in newLinks : l[1] = r}
                       THEN lastSet[r] ELSE Unknown]

\* Advance the clock.
Tick ==
    /\ now < MaxTime
    /\ now' = now + 1
    /\ UNCHANGED <<roles, perms, links, asgs, issued, lastSet>>

InitStore ==
    /\ roles = [r \in {} |-> {}]
    /\ perms = [p \in {} |-> {}]
    /\ links = {}
    /\ asgs = [a \in {} |-> {}]
    /\ now = 0
    /\ issued = {}
    /\ lastSet = [r \in RoleIds |-> Unknown]

-----------------------------------------------------------------------------
(* The RBAC view of a store: what evaluateRBAC concludes from the         *)
(* driver's reads.  RolesOf(s) are the role ids ListRolesForSubject and   *)
(* ListRolesForSubjectOnResource return for s, ParentOf(x) the parent    *)
(* GetRole yields (NoParent when GetRole fails), PermsOf(x) the ids       *)
(* ListRolePermissions returns.                                            *)

\* resolveInheritedRoles: every id reached from the assigned ones.
Resolved(RolesOf(_), ParentOf(_), s) ==
    LET R[k \in Nat] ==
            IF k = 0 THEN RolesOf(s)
            ELSE R[k - 1] \cup ({ParentOf(x) : x \in R[k - 1]} \ {NoParent})
    IN  R[Cardinality(RoleIds)]

-----------------------------------------------------------------------------
(* Every table holds rows of its record type under their own ids, and the *)
(* links, the clock and the histories stay in their ranges.                *)
TypeOK ==
    /\ DOMAIN roles \subseteq RoleIds
    /\ \A r \in DOMAIN roles : roles[r].id = r
    /\ DOMAIN perms \subseteq PermIds /\ \A p \in DOMAIN perms : perms[p] \in Perm
    /\ links \subseteq RoleIds \X PermIds
    /\ DOMAIN asgs \subseteq AsgIds /\ \A a \in DOMAIN asgs : asgs[a] \in Asg
    /\ now \in 0..MaxTime
    /\ issued \subseteq RoleIds \cup PermIds \cup AsgIds
    /\ lastSet \in [RoleIds -> [known : BOOLEAN, set : SUBSET PermIds]]

(* The unique constraints of the schema (spec 6, and spec 8: two roles of *)
(* one tenant never share a slug): whatever sequence of creates and       *)
(* updates callers make, no two stored roles share (tenant, slug), no two *)
(* permissions (tenant, name), no two assignments their full key.         *)
UniqueConstraints ==
    /\ \A r \in DOMAIN roles : ~Clash(roles, RoleKey, roles[r])
    /\ \A p \in DOMAIN perms : ~Clash(perms, PermKey, perms[p])
    /\ \A a \in DOMAIN asgs : ~Clash(asgs, AsgKey, asgs[a])

(* SetRolePermissions "replaces all permissions for a role": once no call *)
(* is in flight (Quiet), the links of a role are exactly what the last   *)
(* SetRolePermissions on it left: its list when it returned nil, the     *)
(* links it found when it returned an error.                               *)
SetIsAtomic(Quiet) ==
    Quiet => \A r \in RoleIds :
                lastSet[r].known => {l[2] : l \in LinksOf(r)} = lastSet[r].set

(* Deleting a role revokes what it granted: no role id that evaluateRBAC *)
(* reaches for a subject (through an assignment or a parent pointer) and *)
(* that was deleted still yields a permission that exists.               *)
GrantsOnlyViaLiveRoles(RolesOf(_), ParentOf(_), PermsOf(_)) ==
    \A s \in Subjects :
        \A x \in (Resolved(RolesOf, ParentOf, s) \cap issued) \ DOMAIN roles :
            PermsOf(x) \cap DOMAIN perms = {}

=============================================================================
