---------------------------- MODULE MC_StoreArgs ----------------------------
(* The arguments of a small instance of the RBAC tables, shared by the    *)
(* models of the three drivers: one tenant, two roles (the second may     *)
(* take the first as parent, or clash with its slug), two permissions    *)
(* that may clash by name, two assignments (a global one that expires at  *)
(* time 0, a resource-scoped one that never expires), and permission     *)
(* lists with and without a repeated id.                                  *)
EXTENDS StoreBase

MCRoleArgs ==
    {[id |-> "r1", tenant |-> "t1", slug |-> "s1", parent |-> NoParent],
     [id |-> "r1", tenant |-> "t1", slug |-> "s2", parent |-> NoParent],
     [id |-> "r2", tenant |-> "t1", slug |-> "s1", parent |-> "r1"],
     [id |-> "r2", tenant |-> "t1", slug |-> "s2", parent |-> "r1"]}

MCPermArgs ==
    {[id |-> "p1", tenant |-> "t1", name |-> "n1"],
     [id |-> "p2", tenant |-> "t1", name |-> "n1"],
     [id |-> "p2", tenant |-> "t1", name |-> "n2"]}

MCAsgArgs ==
    {[id |-> "a1", tenant |-> "t1", role |-> "r2", subject |-> "u1",
      scope |-> Global, expires |-> 0],
     [id |-> "a2", tenant |-> "t1", role |-> "r1", subject |-> "u1",
      scope |-> <<"doc", "d1">>, expires |-> Never]}

MCPermLists == {<<>>, <<"p1">>, <<"p1", "p1">>, <<"p1", "p2">>}

MCScopes == {Global, <<"doc", "d1">>}
=============================================================================
