--------------------------- MODULE StoreBase_proofs ---------------------------
(* Facts about the table operators of StoreBase that the proofs of every  *)
(* driver use: deleting rows (Drop) and writing a row that the unique key  *)
(* admits (Put) keep a table keyed by id and free of clashes, and the     *)
(* history update of the writes other than SetRolePermissions (Forget)   *)
(* keeps the promise of SetIsAtomic for whatever links it is given.       *)
EXTENDS StoreBase, TLAPS

\* A table is keyed by id (each row's id is its key in the map) and no
\* row clashes with another on the unique key.
RolesOK(f) == /\ \A k \in DOMAIN f : f[k].id = k
              /\ \A k \in DOMAIN f : ~Clash(f, RoleKey, f[k])
PermsOK(f) == /\ \A k \in DOMAIN f : f[k].id = k
              /\ \A k \in DOMAIN f : ~Clash(f, PermKey, f[k])
AsgsOK(f) ==  /\ \A k \in DOMAIN f : f[k].id = k
              /\ \A k \in DOMAIN f : ~Clash(f, AsgKey, f[k])

\* The inductive invariant of the unique constraints.  UniqueConstraints
\* alone is not inductive: Clash compares a row only with rows under other
\* ids, so a row stored under a key other than its own id would clash with
\* itself.
UniqueInv == RolesOK(roles) /\ PermsOK(perms) /\ AsgsOK(asgs)

\* The promise of SetIsAtomic, for links L and history H.
Kept(L, H) == \A r \in RoleIds :
                  H[r].known => {l[2] : l \in {m \in L : m[1] = r}} = H[r].set

\* The type of the history variable.
History == [RoleIds -> [known : BOOLEAN, set : SUBSET PermIds]]

-----------------------------------------------------------------------------
(* Deleting rows keeps a table keyed and clash-free.                       *)

LEMMA RolesDrop == ASSUME NEW f, RolesOK(f), NEW D PROVE RolesOK(Drop(f, D))
  BY DEF RolesOK, Drop, Clash, RoleKey

LEMMA PermsDrop == ASSUME NEW f, PermsOK(f), NEW D PROVE PermsOK(Drop(f, D))
  BY DEF PermsOK, Drop, Clash, PermKey

LEMMA AsgsDrop == ASSUME NEW f, AsgsOK(f), NEW D PROVE AsgsOK(Drop(f, D))
  BY DEF AsgsOK, Drop, Clash, AsgKey

(* Writing a row that clashes with no other row keeps it so.              *)

LEMMA RolesPut ==
    ASSUME NEW f, RolesOK(f), NEW k, NEW v, v.id = k, ~Clash(f, RoleKey, v)
    PROVE  RolesOK(Put(f, k, v))
  BY DEF RolesOK, Put, Clash, RoleKey

LEMMA PermsPut ==
    ASSUME NEW f, PermsOK(f), NEW k, NEW v, v.id = k, ~Clash(f, PermKey, v)
    PROVE  PermsOK(Put(f, k, v))
  BY DEF PermsOK, Put, Clash, PermKey

LEMMA AsgsPut ==
    ASSUME NEW f, AsgsOK(f), NEW k, NEW v, v.id = k, ~Clash(f, AsgKey, v)
    PROVE  AsgsOK(Put(f, k, v))
  BY DEF AsgsOK, Put, Clash, AsgKey

(* A written role row carries the id, tenant and slug of its argument, so *)
(* it clashes exactly when the argument does.                              *)
LEMMA RowClash ==
    ASSUME NEW f, NEW r, ~Clash(f, RoleKey, r)
    PROVE  ~Clash(f, RoleKey, RoleRow(r)) /\ RoleRow(r).id = r.id
  BY DEF Clash, RoleKey, RoleRow

-----------------------------------------------------------------------------
(* The history after any write other than SetRolePermissions.             *)

LEMMA ForgetType ==
    ASSUME lastSet \in History, NEW N
    PROVE  Forget(N) \in History
  BY DEF Forget, History, Unknown

\* A role whose links the write left alone keeps its promise, which held
\* of the same links before; any other role's promise is dropped.
LEMMA ForgetKept ==
    ASSUME lastSet \in History, Kept(links, lastSet), NEW N
    PROVE  Kept(N, Forget(N))
  BY DEF Forget, Kept, History, Unknown, LinksOf
=============================================================================
