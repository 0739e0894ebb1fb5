------------------------- MODULE SqliteStore_proofs -------------------------
(* Proofs, for every value of the constants and with or without enforced *)
(* foreign keys, of three invariants of the SQLite driver: its tables are *)
(* well typed, they keep the unique constraints of the schema, and        *)
(* SetRolePermissions leaves a role exactly the links it promised.        *)
EXTENDS SqliteStore, StoreBase_proofs

USE ArgsAssumption, FKAssumption

\* The inductive invariant of SetRolePermissions' promise: it needs the
\* type of the history, so that EXCEPT and Forget keep a function on RoleIds.
AtomicInv == TypeOK /\ Kept(links, lastSet)

-----------------------------------------------------------------------------
(* Type correctness.                                                       *)

LEMMA InitType == Init => TypeOK
  BY DEF Init, InitStore, TypeOK, Unknown

\* The links of a well-typed store name permission ids.
LEMMA LinkPerms ==
    ASSUME TypeOK, NEW x PROVE ListRolePermissions(x) \subseteq PermIds
  BY DEF TypeOK, ListRolePermissions, LinksOf

LEMMA NextType == TypeOK /\ [Next]_storeVars => TypeOK'
<1> SUFFICES ASSUME TypeOK, [Next]_storeVars PROVE TypeOK'
  OBVIOUS
<1>a. lastSet \in History
  BY DEF TypeOK, History
<1>1. CASE \E r \in RoleInputs : CreateRole(r)
  BY <1>1 DEF CreateRole, RoleInputs, Role, Put, RoleRow, TypeOK
<1>2. CASE \E r \in RoleInputs : UpdateRole(r)
  BY <1>2 DEF UpdateRole, RoleInputs, Role, Put, RoleRow, TypeOK
<1>3. CASE \E x \in IssuedRoles : DeleteRole(x)
  BY <1>3, <1>a, ForgetType
     DEF DeleteRole, Drop, LinksWithoutRoles, AsgsWithoutRoles, TypeOK, History
<1>4. CASE \E t \in Tenants : DeleteRolesByTenant(t)
  BY <1>4, <1>a, ForgetType
     DEF DeleteRolesByTenant, Drop, LinksWithoutRoles, AsgsWithoutRoles, TypeOK, History
<1>5. CASE \E x \in IssuedRoles, p \in IssuedPerms :
              AttachPermission(x, p) \/ DetachPermission(x, p)
  BY <1>5, <1>a, ForgetType
     DEF AttachPermission, DetachPermission, IssuedRoles, IssuedPerms, TypeOK, History
<1>6. CASE \E x \in IssuedRoles, L \in ListInputs : SetRolePermissions(x, L)
  <2>1. PICK x \in IssuedRoles, L \in ListInputs : SetRolePermissions(x, L)
    BY <1>6
  <2>2. ListSet(L) \subseteq PermIds /\ ListRolePermissions(x) \subseteq PermIds
    BY LinkPerms DEF ListInputs, IssuedPerms
  <2>. QED  BY <2>1, <2>2 DEF SetRolePermissions, IssuedRoles, Known, TypeOK
<1>7. CASE \E p \in PermArgs : CreatePermission(p) \/ UpdatePermission(p)
  BY <1>7 DEF CreatePermission, UpdatePermission, Put, Perm, TypeOK
<1>8. ASSUME NEW D, perms' = Drop(perms, D), links' = LinksWithoutPerms(D),
             lastSet' = Forget(links'), UNCHANGED <<roles, asgs, now, issued>>
      PROVE  TypeOK'
  <2>1. links' \subseteq links
    BY <1>8 DEF LinksWithoutPerms
  <2>2. Forget(links') \in History
    BY <1>a, ForgetType
  <2>. QED  BY <1>8, <2>1, <2>2 DEF Drop, TypeOK, History
<1>13. CASE \/ \E p \in IssuedPerms : DeletePermission(p)
            \/ \E t \in Tenants : DeletePermissionsByTenant(t)
  BY <1>13, <1>8 DEF DeletePermission, DeletePermissionsByTenant
<1>9. CASE \E a \in AsgInputs : CreateAssignment(a)
  BY <1>9 DEF CreateAssignment, AsgInputs, Put, Asg, TypeOK
<1>10. CASE \E D : DeleteAssignmentsWhere(D)
  BY <1>10 DEF DeleteAssignmentsWhere, Drop, TypeOK
<1>11. CASE \/ \E x \in IssuedRoles : DeleteAssignmentsByRole(x)
            \/ \E t \in Tenants : DeleteAssignmentsByTenant(t)
            \/ \E a \in IssuedAsgs : DeleteAssignment(a)
            \/ DeleteExpiredAssignments
            \/ \E t \in Tenants, s \in Subjects : DeleteAssignmentsBySubject(t, s)
  BY <1>11, <1>10 DEF DeleteAssignmentsByRole, DeleteAssignmentsByTenant,
                      DeleteAssignment, DeleteExpiredAssignments, DeleteAssignmentsBySubject
<1>12. CASE Tick \/ UNCHANGED storeVars
  BY <1>12 DEF Tick, storeVars, TypeOK
<1>. QED  BY <1>1, <1>2, <1>3, <1>4, <1>5, <1>6, <1>7, <1>8, <1>9, <1>11, <1>12, <1>13 DEF Next

(* Every reachable state of the SQLite driver is well typed: rows sit     *)
(* under their own ids, links join role and permission ids, and the       *)
(* history names permission ids only.                                     *)
THEOREM SqliteTypeCorrect == Spec => []TypeOK
  BY InitType, NextType, PTL DEF Spec

-----------------------------------------------------------------------------
(* The unique constraints.                                                 *)

LEMMA InitUnique == Init => UniqueInv
  BY DEF Init, InitStore, UniqueInv, RolesOK, PermsOK, AsgsOK

LEMMA NextUnique == UniqueInv /\ [Next]_storeVars => UniqueInv'
<1> SUFFICES ASSUME UniqueInv, [Next]_storeVars PROVE UniqueInv'
  OBVIOUS
<1>. USE DEF UniqueInv
\* A written role row carries the id, tenant and slug of the argument.
<1>1. ASSUME NEW r, ~Clash(roles, RoleKey, r)
      PROVE  RolesOK(Put(roles, r.id, RoleRow(r)))
  BY <1>1, RowClash, RolesPut
<1>2. CASE \E r \in RoleInputs : CreateRole(r)
  BY <1>2, <1>1 DEF CreateRole, RoleRow
<1>3. CASE \E r \in RoleInputs : UpdateRole(r)
  BY <1>3, <1>1 DEF UpdateRole
<1>4. CASE \E x \in IssuedRoles : DeleteRole(x)
  BY <1>4, RolesDrop, AsgsDrop DEF DeleteRole, AsgsWithoutRoles
<1>5. CASE \E t \in Tenants : DeleteRolesByTenant(t)
  BY <1>5, RolesDrop, AsgsDrop DEF DeleteRolesByTenant, AsgsWithoutRoles
<1>6. CASE \E p \in PermArgs : CreatePermission(p)
  BY <1>6, PermsPut DEF CreatePermission
<1>7. CASE \E p \in PermArgs : UpdatePermission(p)
  BY <1>7, PermsPut DEF UpdatePermission
<1>8. CASE \E p \in IssuedPerms : DeletePermission(p)
  BY <1>8, PermsDrop DEF DeletePermission
<1>9. CASE \E t \in Tenants : DeletePermissionsByTenant(t)
  BY <1>9, PermsDrop DEF DeletePermissionsByTenant
<1>10. CASE \E a \in AsgInputs : CreateAssignment(a)
  BY <1>10, AsgsPut DEF CreateAssignment
\* Every assignment delete is a DeleteAssignmentsWhere.
<1>11. CASE \E D : DeleteAssignmentsWhere(D)
  BY <1>11, AsgsDrop DEF DeleteAssignmentsWhere
<1>12. CASE \/ \E x \in IssuedRoles : DeleteAssignmentsByRole(x)
            \/ \E t \in Tenants : DeleteAssignmentsByTenant(t)
            \/ \E a \in IssuedAsgs : DeleteAssignment(a)
            \/ DeleteExpiredAssignments
            \/ \E t \in Tenants, s \in Subjects : DeleteAssignmentsBySubject(t, s)
  BY <1>12, <1>11 DEF DeleteAssignmentsByRole, DeleteAssignmentsByTenant,
                      DeleteAssignment, DeleteExpiredAssignments, DeleteAssignmentsBySubject
\* The remaining steps leave the three tables alone.
<1>13. CASE \/ \E x \in IssuedRoles, p \in IssuedPerms :
                  AttachPermission(x, p) \/ DetachPermission(x, p)
            \/ \E x \in IssuedRoles, L \in ListInputs : SetRolePermissions(x, L)
            \/ Tick
            \/ UNCHANGED storeVars
  BY <1>13 DEF AttachPermission, DetachPermission, SetRolePermissions, Tick, storeVars
<1>. QED  BY <1>2, <1>3, <1>4, <1>5, <1>6, <1>7, <1>8, <1>9, <1>10, <1>12, <1>13 DEF Next

(* The unique constraints of the schema hold in every reachable state of *)
(* the SQLite driver: CreateRole, UpdateRole, CreatePermission,          *)
(* UpdatePermission and CreateAssignment never store two rows with one   *)
(* (tenant, slug), (tenant, name) or assignment key.                     *)
THEOREM SqliteUnique == Spec => []UniqueConstraints
<1>1. UniqueInv => UniqueConstraints
  BY DEF UniqueInv, RolesOK, PermsOK, AsgsOK, UniqueConstraints
<1>. QED  BY <1>1, InitUnique, NextUnique, PTL DEF Spec

-----------------------------------------------------------------------------
(* SetRolePermissions' promise.                                            *)

LEMMA InitAtomic == Init => AtomicInv
  BY InitType DEF Init, InitStore, AtomicInv, Kept, Unknown

\* A write that leaves links and lastSet alone keeps the promise.
LEMMA KeptUnchanged ==
    ASSUME Kept(links, lastSet), links' = links, lastSet' = lastSet
    PROVE  Kept(links, lastSet)'
  BY DEF Kept

LEMMA NextAtomic == AtomicInv /\ [Next]_storeVars => AtomicInv'
<1> SUFFICES ASSUME AtomicInv, [Next]_storeVars PROVE Kept(links, lastSet)'
  BY NextType DEF AtomicInv
<1>a. lastSet \in History /\ Kept(links, lastSet)
  BY DEF AtomicInv, TypeOK, History
\* The writes other than SetRolePermissions reset the history by Forget.
<1>1. ASSUME lastSet' = Forget(links') PROVE Kept(links, lastSet)'
  BY <1>1, <1>a, ForgetKept DEF Kept
\* SetRolePermissions: the list on success, the links it found on error.
<1>2. CASE \E x \in IssuedRoles, L \in ListInputs : SetRolePermissions(x, L)
  <2>1. PICK x \in IssuedRoles, L \in ListInputs : SetRolePermissions(x, L)
    BY <1>2
  <2>. DEFINE fails == HasDuplicate(L) \/ FKFails({x}, ListSet(L))
  <2>2. x \in RoleIds
    BY DEF IssuedRoles
  <2>3. CASE fails
    BY <2>1, <2>2, <2>3, <1>a
       DEF SetRolePermissions, Kept, History, Known, ListRolePermissions, LinksOf
  <2>4. CASE ~fails
    <3>1. /\ links' = (links \ LinksOf(x)) \cup {<<x, p>> : p \in ListSet(L)}
          /\ lastSet' = [lastSet EXCEPT ![x] = Known(ListSet(L))]
      BY <2>1, <2>4 DEF SetRolePermissions
    <3>2. {l[2] : l \in {m \in links' : m[1] = x}} = ListSet(L)
      <4>1. {m \in links' : m[1] = x} = {<<x, p>> : p \in ListSet(L)}
        BY <3>1 DEF LinksOf
      <4>2. \A p : <<x, p>>[2] = p
        OBVIOUS
      <4>3. {l[2] : l \in {<<x, p>> : p \in ListSet(L)}} = ListSet(L)
        BY <4>2
      <4>. QED  BY <4>1, <4>3
    <3>3. \A r \in RoleIds \ {x} : {m \in links' : m[1] = r} = {m \in links : m[1] = r}
      <4>1. SUFFICES ASSUME NEW r \in RoleIds \ {x}
                     PROVE  {m \in links' : m[1] = r} = {m \in links : m[1] = r}
        OBVIOUS
      <4>2. \A p : <<x, p>>[1] # r
        BY <4>1
      <4>3. \A m \in links : m[1] = r => m \notin LinksOf(x)
        BY <4>1 DEF LinksOf
      <4>. QED  BY <3>1, <4>2, <4>3
    <3>. QED  BY <3>1, <3>2, <3>3, <2>2, <1>a DEF Kept, History, Known
  <2>. QED  BY <2>3, <2>4
<1>3. CASE \/ \E r \in RoleInputs : CreateRole(r) \/ UpdateRole(r)
           \/ \E p \in PermArgs : CreatePermission(p) \/ UpdatePermission(p)
           \/ \E a \in AsgInputs : CreateAssignment(a)
           \/ \E D : DeleteAssignmentsWhere(D)
           \/ Tick \/ UNCHANGED storeVars
  BY <1>3, <1>a, KeptUnchanged
     DEF CreateRole, UpdateRole, CreatePermission, UpdatePermission, CreateAssignment,
         DeleteAssignmentsWhere, Tick, storeVars
<1>4. CASE \/ \E x \in IssuedRoles : DeleteRole(x)
           \/ \E t \in Tenants : DeleteRolesByTenant(t)
           \/ \E x \in IssuedRoles, p \in IssuedPerms :
                 AttachPermission(x, p) \/ DetachPermission(x, p)
           \/ \E p \in IssuedPerms : DeletePermission(p)
           \/ \E t \in Tenants : DeletePermissionsByTenant(t)
  BY <1>4, <1>1 DEF DeleteRole, DeleteRolesByTenant, AttachPermission, DetachPermission,
                    DeletePermission, DeletePermissionsByTenant
<1>5. CASE \/ \E x \in IssuedRoles : DeleteAssignmentsByRole(x)
           \/ \E t \in Tenants : DeleteAssignmentsByTenant(t)
           \/ \E a \in IssuedAsgs : DeleteAssignment(a)
           \/ DeleteExpiredAssignments
           \/ \E t \in Tenants, s \in Subjects : DeleteAssignmentsBySubject(t, s)
  BY <1>5, <1>3 DEF DeleteAssignmentsByRole, DeleteAssignmentsByTenant,
                    DeleteAssignment, DeleteExpiredAssignments, DeleteAssignmentsBySubject
<1>. QED  BY <1>2, <1>3, <1>4, <1>5 DEF Next

(* SetRolePermissions is all-or-nothing in every reachable state of the   *)
(* SQLite driver: a role's links are the list of its last                *)
(* SetRolePermissions when that call returned nil, and the links it       *)
(* found when its transaction failed and rolled back.                     *)
THEOREM SqliteSetAtomic == Spec => []SqliteSetIsAtomic
<1>1. AtomicInv => SqliteSetIsAtomic
  BY DEF AtomicInv, Kept, SqliteSetIsAtomic, SetIsAtomic, LinksOf
<1>. QED  BY <1>1, InitAtomic, NextAtomic, PTL DEF Spec
=============================================================================
