------------------------------ MODULE MC_Engine ------------------------------
(* Instances of the check pipeline for TLC.                                *)
EXTENDS Engine, TLC

CONSTANTS s1, s2, q1, q2, ra, rb, pa

\* No subject holds a role, a tuple or a policy; role ra (whose parent is
\* none) holds permission pa, which matches the request.
Base == [asgG |-> [x \in {s1, s2} |-> {}],
         asgR |-> [x \in {s1, s2} |-> {}],
         parent |-> [r \in {ra, rb} |-> NoRole],
         perms |-> [r \in {ra, rb} |-> IF r = ra THEN {pa} ELSE {}],
         permOK |-> [pm \in {pa} |-> TRUE],
         direct |-> [x \in {s1, s2} |-> FALSE],
         path |-> [x \in {s1, s2} |-> FALSE],
         abac |-> [x \in {s1, s2} |-> "none"]]

\* Everyone is denied; or s1 holds ra globally and so is granted; or s1
\* holds ra while an ABAC deny policy covers it.
MCInitStores ==
    {Base,
     [Base EXCEPT !.asgG[s1] = {ra}],
     [Base EXCEPT !.asgG[s1] = {ra}, !.abac[s1] = "deny"]}

\* s1 holds ra, which has no permission yet.
MCRoleWithoutPerms == {[Base EXCEPT !.asgG[s1] = {ra}, !.perms[ra] = {}]}

\* Goroutines are interchangeable.
MCSymmetry == Permutations({q1, q2})
=============================================================================
