------------------------- MODULE MongoStore_proofs --------------------------
(* Proofs, for every value of the constants and any number of concurrent  *)
(* callers, of two invariants of the MongoDB driver: its documents are    *)
(* well typed, including the links an ordered insertMany keeps when it    *)
(* stops at a duplicate key, and the unique indexes keep (tenant, slug),  *)
(* (tenant, name) and the assignment key unique.  SetIsAtomic does not    *)
(* hold of this driver (run mongo_set), so nothing here states it.        *)
EXTENDS MongoStore, StoreBase_proofs, WellFoundedInduction

USE ArgsAssumption

\* What a caller of SetRolePermissions carries between its two requests.
Flight == {Idle} \cup [role : RoleIds, list : Seq(PermIds), found : SUBSET PermIds]

\* The inductive invariant of the type: the insertMany writes links from
\* the role and list the deleteMany stored, so these must be typed too.
TypeInv == TypeOK /\ inflight \in [Procs -> Flight]

-----------------------------------------------------------------------------
(* The first rejected item of an ordered insertMany.                       *)

\* A non-empty set of naturals has a least element (from the
\* well-foundedness of < on Nat).
LEMMA LeastNat ==
    ASSUME NEW S \in SUBSET Nat, S # {}
    PROVE  \E i \in S : \A j \in S : i <= j
<1>1. PICK x \in S : \A y \in S : ~(<<y, x>> \in OpToRel(<, Nat))
  BY NatLessThanWellFounded, WFMin
<1>2. \A y \in S : ~(y < x)
  BY <1>1, Zenon DEF OpToRel
<1>. QED  BY <1>2

\* The insertMany stops at an item of the list, or after all of them.
LEMMA FirstRejectedRange ==
    ASSUME NEW x, NEW L \in Seq(PermIds)
    PROVE  FirstRejected(x, L) \in 1..(Len(L) + 1)
<1>. DEFINE bad == {i \in 1..Len(L) : \/ <<x, L[i]>> \in links
                                      \/ \E j \in 1..(i - 1) : L[j] = L[i]}
<1>0. FirstRejected(x, L) = IF bad = {} THEN Len(L) + 1
                            ELSE CHOOSE i \in bad : \A j \in bad : i <= j
  BY DEF FirstRejected
<1>1. CASE bad = {}
  BY <1>0, <1>1
<1>2. CASE bad # {}
  <2>1. bad \subseteq Nat
    OBVIOUS
  <2>2. \E i \in bad : \A j \in bad : i <= j
    BY <1>2, <2>1, LeastNat
  <2>3. (CHOOSE i \in bad : \A j \in bad : i <= j) \in bad
    BY <2>2
  <2>4. FirstRejected(x, L) = CHOOSE i \in bad : \A j \in bad : i <= j
    BY <1>0, <1>2
  <2>5. (CHOOSE i \in bad : \A j \in bad : i <= j) \in 1..Len(L)
    BY <2>3
  <2>. QED  BY <2>4, <2>5
<1>. QED  BY <1>1, <1>2

-----------------------------------------------------------------------------
(* Type correctness.                                                       *)

LEMMA InitType == Init => TypeInv
  BY DEF Init, InitStore, TypeInv, TypeOK, Unknown, Flight

LEMMA NextType == TypeInv /\ [Next]_vars => TypeInv'
<1> SUFFICES ASSUME TypeInv, [Next]_vars PROVE TypeInv'
  OBVIOUS
<1>a. lastSet \in History /\ TypeOK /\ inflight \in [Procs -> Flight]
  BY DEF TypeInv, TypeOK, History
<1>1. CASE \E r \in RoleInputs : CreateRole(r) \/ UpdateRole(r)
  BY <1>1, <1>a DEF CreateRole, UpdateRole, RoleInputs, Role, Put, RoleRow,
                    TypeOK, TypeInv
<1>2. CASE \E x \in IssuedRoles : DeleteRole(x) \/ DeleteAssignmentsByRole(x)
  BY <1>2, <1>a DEF DeleteRole, DeleteAssignmentsByRole, DeleteAssignmentsWhere, Drop,
                    TypeOK, TypeInv
<1>3. CASE \E t \in Tenants : \/ DeleteRolesByTenant(t) \/ DeletePermissionsByTenant(t)
                              \/ DeleteAssignmentsByTenant(t)
  BY <1>3, <1>a DEF DeleteRolesByTenant, DeletePermissionsByTenant,
                    DeleteAssignmentsByTenant, DeleteAssignmentsWhere, Drop, TypeOK, TypeInv
<1>4. CASE \E x \in IssuedRoles, p \in IssuedPerms :
              AttachPermission(x, p) \/ DetachPermission(x, p)
  BY <1>4, <1>a, ForgetType
     DEF AttachPermission, DetachPermission, IssuedRoles, IssuedPerms, TypeOK, TypeInv, History
\* The deleteMany stores the role, its list and the links it found.
<1>5. CASE \E p \in Procs, x \in IssuedRoles, L \in ListInputs :
              SetRolePermissionsDelete(p, x, L)
  <2>1. PICK p \in Procs, x \in IssuedRoles, L \in ListInputs :
              SetRolePermissionsDelete(p, x, L)
    BY <1>5
  <2>2. x \in RoleIds /\ L \in Seq(PermIds) /\ ListRolePermissions(x) \subseteq PermIds
    BY <1>a DEF IssuedRoles, ListInputs, TypeOK, ListRolePermissions, LinksOf
  <2>. QED  BY <2>1, <2>2, <1>a DEF SetRolePermissionsDelete, Flight, TypeOK, TypeInv
\* The insertMany adds links for the items before the first rejected one.
<1>6. CASE \E p \in Procs : SetRolePermissionsInsert(p)
  <2>1. PICK p \in Procs : SetRolePermissionsInsert(p)
    BY <1>6
  <2>. DEFINE x == inflight[p].role
              L == inflight[p].list
              k == FirstRejected(x, L)
  <2>2. x \in RoleIds /\ L \in Seq(PermIds) /\ inflight[p].found \subseteq PermIds
    BY <2>1, <1>a DEF SetRolePermissionsInsert, Flight
  <2>3. k \in 1..(Len(L) + 1)
    BY <2>2, FirstRejectedRange
  <2>4. {<<x, L[i]>> : i \in 1..(k - 1)} \subseteq RoleIds \X PermIds
    BY <2>2, <2>3
  <2>5. ListSet(L) \subseteq PermIds
    BY <2>2 DEF ListSet
  <2>. QED  BY <2>1, <2>2, <2>4, <2>5, <1>a
              DEF SetRolePermissionsInsert, Known, Flight, TypeOK, TypeInv
<1>7. CASE \E p \in PermArgs : CreatePermission(p) \/ UpdatePermission(p)
  BY <1>7, <1>a DEF CreatePermission, UpdatePermission, Put, Perm, TypeOK, TypeInv
<1>8. CASE \E p \in IssuedPerms : DeletePermission(p)
  BY <1>8, <1>a DEF DeletePermission, Drop, TypeOK, TypeInv
<1>9. CASE \E a \in AsgInputs : CreateAssignment(a)
  BY <1>9, <1>a DEF CreateAssignment, AsgInputs, Put, Asg, TypeOK, TypeInv
<1>10. CASE \/ \E a \in IssuedAsgs : DeleteAssignment(a)
            \/ DeleteExpiredAssignments
            \/ \E t \in Tenants, s \in Subjects : DeleteAssignmentsBySubject(t, s)
  BY <1>10, <1>a DEF DeleteAssignment, DeleteExpiredAssignments,
                     DeleteAssignmentsBySubject, DeleteAssignmentsWhere, Drop, TypeOK, TypeInv
<1>11. CASE (Tick /\ UNCHANGED inflight) \/ UNCHANGED vars
  BY <1>11, <1>a DEF Tick, vars, storeVars, TypeOK, TypeInv
<1>. QED  BY <1>1, <1>2, <1>3, <1>4, <1>5, <1>6, <1>7, <1>8, <1>9, <1>10, <1>11 DEF Next

(* Every reachable state of the MongoDB driver, with any number of calls  *)
(* of SetRolePermissions between their deleteMany and insertMany, is well *)
(* typed: documents sit under their own ids, links join role and         *)
(* permission ids, and a stopped insertMany writes only items of its list.*)
THEOREM MongoTypeCorrect == Spec => []TypeOK
<1>1. TypeInv => TypeOK
  BY DEF TypeInv
<1>. QED  BY <1>1, InitType, NextType, PTL DEF Spec

-----------------------------------------------------------------------------
(* The unique indexes.                                                     *)

LEMMA InitUnique == Init => UniqueInv
  BY DEF Init, InitStore, UniqueInv, RolesOK, PermsOK, AsgsOK

LEMMA NextUnique == UniqueInv /\ [Next]_vars => UniqueInv'
<1> SUFFICES ASSUME UniqueInv, [Next]_vars PROVE UniqueInv'
  OBVIOUS
<1>. USE DEF UniqueInv
\* A written role row carries the id, tenant and slug of the argument.
<1>1. ASSUME NEW r, ~Clash(roles, RoleKey, r)
      PROVE  RolesOK(Put(roles, r.id, RoleRow(r)))
  BY <1>1, RowClash, RolesPut
<1>2. CASE \E r \in RoleInputs : CreateRole(r) \/ UpdateRole(r)
  BY <1>2, <1>1 DEF CreateRole, UpdateRole, RoleRow
<1>3. CASE \/ \E x \in IssuedRoles : DeleteRole(x)
           \/ \E t \in Tenants : DeleteRolesByTenant(t)
  BY <1>3, RolesDrop DEF DeleteRole, DeleteRolesByTenant
<1>4. CASE \E p \in PermArgs : CreatePermission(p) \/ UpdatePermission(p)
  BY <1>4, PermsPut DEF CreatePermission, UpdatePermission
<1>5. CASE \/ \E p \in IssuedPerms : DeletePermission(p)
           \/ \E t \in Tenants : DeletePermissionsByTenant(t)
  BY <1>5, PermsDrop DEF DeletePermission, DeletePermissionsByTenant
<1>6. CASE \E a \in AsgInputs : CreateAssignment(a)
  BY <1>6, AsgsPut DEF CreateAssignment
<1>7. CASE \E D : DeleteAssignmentsWhere(D)
  BY <1>7, AsgsDrop DEF DeleteAssignmentsWhere
<1>8. CASE \/ \E x \in IssuedRoles : DeleteAssignmentsByRole(x)
           \/ \E t \in Tenants : DeleteAssignmentsByTenant(t)
           \/ \E a \in IssuedAsgs : DeleteAssignment(a)
           \/ DeleteExpiredAssignments
           \/ \E t \in Tenants, s \in Subjects : DeleteAssignmentsBySubject(t, s)
  BY <1>8, <1>7 DEF DeleteAssignmentsByRole, DeleteAssignmentsByTenant,
                    DeleteAssignment, DeleteExpiredAssignments, DeleteAssignmentsBySubject
\* The links, the in-flight calls, the clock and the history touch no table.
<1>9. CASE \/ \E x \in IssuedRoles, p \in IssuedPerms :
                 AttachPermission(x, p) \/ DetachPermission(x, p)
           \/ \E p \in Procs, x \in IssuedRoles, L \in ListInputs :
                 SetRolePermissionsDelete(p, x, L)
           \/ \E p \in Procs : SetRolePermissionsInsert(p)
           \/ Tick \/ UNCHANGED vars
  BY <1>9 DEF AttachPermission, DetachPermission, SetRolePermissionsDelete,
              SetRolePermissionsInsert, Tick, vars, storeVars
<1>. QED  BY <1>2, <1>3, <1>4, <1>5, <1>6, <1>8, <1>9 DEF Next

(* Whatever creates and updates the concurrent callers make, the unique   *)
(* indexes of migrationIndexes keep every role's (tenant, slug), every    *)
(* permission's (tenant, name) and every assignment's key unique.        *)
THEOREM MongoUnique == Spec => []MongoUniqueConstraints
<1>1. UniqueInv => MongoUniqueConstraints
  BY DEF UniqueInv, RolesOK, PermsOK, AsgsOK, MongoUniqueConstraints, UniqueConstraints
<1>. QED  BY <1>1, InitUnique, NextUnique, PTL DEF Spec
=============================================================================
