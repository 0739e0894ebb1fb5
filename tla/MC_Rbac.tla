------------------------------- MODULE MC_Rbac -------------------------------
(* Instances of the RBAC evaluator for TLC.                                *)
EXTENDS Rbac, TLC

CONSTANTS r1, r2, r3, p1, p2, p3

MCChars == {"d", "x", "r", "*", ":"}

\* p1 is "d:*", p2 is "dx:r", p3 has no record (a dangling attachment).
MCPermTable == (p1 :> [resource |-> <<"d">>, action |-> Star]) @@
               (p2 :> [resource |-> <<"d", "x">>, action |-> <<"r">>]) @@
               (p3 :> NoPerm)

\* Checks of "dx:r" and of "d:r".
MCRequests == {[rtype |-> <<"d", "x">>, action |-> <<"r">>],
               [rtype |-> <<"d">>, action |-> <<"r">>]}

MCRoleLists == {<<>>, <<r1>>, <<r2>>, <<r3>>, <<r1, r2>>, <<r2, r1>>}

\* Every parent graph on three roles, cycles and deleted roles included.
MCParentMaps == [{r1, r2, r3} -> {r1, r2, r3, NoParent, Gone}]

MCPermMaps == [{r1, r2, r3} -> {{}, {p1}, {p2, p3}}]

(* The depth-cap instance: roles c0..c21 form the chain c0 -> ... -> c21 *)
(* and the subject holds roles c0 and c20, in either order.              *)
C(i) == "c" \o ToString(i)
ChainRoles == {C(i) : i \in 0..21}
ChainRoleLists == {<<>>, <<C(0), C(20)>>, <<C(20), C(0)>>}
ChainParentMaps == {[r \in ChainRoles |->
                       CASE r = C(21) -> NoParent
                         [] OTHER -> CHOOSE q \in ChainRoles :
                                        \E i \in 0..20 : r = C(i) /\ q = C(i + 1)]}
ChainPermMaps == {[i \in ChainRoles |-> {}]}
=============================================================================
