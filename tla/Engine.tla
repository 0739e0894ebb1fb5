------------------------------- MODULE Engine -------------------------------
(***************************************************************************)
(* The check pipeline of the warden engine (Engine.Check, evaluateRBAC,   *)
(* evaluateReBAC, evaluateABAC and mergeDecisions), run by concurrent     *)
(* goroutines against a store that an administrator mutates and a result *)
(* cache that callers invalidate.                                          *)
(*                                                                         *)
(* The model is about one tenant, one resource and one action; a check is *)
(* the check of one subject, and the cache key of a check is its subject  *)
(* (the Cache module models the string keys).  A check may suspend at     *)
(* every store and cache call, so each is a step of its own:              *)
(* ListRolesForSubject, ListRolesForSubjectOnResource, each GetRole of    *)
(* the parent walk, each ListRolePermissions and GetPermission, then      *)
(* CheckDirectRelation, the graph walk, and ListActivePolicies.  The      *)
(* store keeps what those calls read: the roles assigned to each subject  *)
(* (globally and on the resource), each role's parent and permission ids, *)
(* whether each permission exists and matches the request, whether each   *)
(* subject has a direct tuple and a path in the relation graph, and the   *)
(* verdict of the active policies.  The graph walk and the ABAC policy    *)
(* match are modelled in their own modules (GraphWalker, and Rbac for the *)
(* depth cap of the parent walk).  A cached entry may expire at any time. *)
(*                                                                         *)
(* History: the store keeps a version counter and the state of every      *)
(* version, each check records the versions it read, each subject the     *)
(* version at its last invalidation, and the set of subjects an           *)
(* evaluator has allowed.  They are read by the properties only.           *)
(***************************************************************************)
EXTENDS Naturals, Sequences, FiniteSets

CONSTANTS
    Subjects,     \* the subjects of the checks
    Roles,        \* the role ids
    Perms,        \* the permission ids
    Procs,        \* the goroutines running Check
    RbacOn,       \* Config.rbacEnabled()
    RebacOn,      \* Config.rebacEnabled()
    AbacOn,       \* Config.abacEnabled()
    CacheOn,      \* e.cache != nil
    StoreErrors,  \* whether a store call may fail
    InitStores,   \* the possible stores when the checks begin
    MaxVersion    \* bound on the number of store mutations

ASSUME ConfigAssumption ==
    {RbacOn, RebacOn, AbacOn, CacheOn, StoreErrors} \subseteq BOOLEAN
ASSUME MaxVersionAssumption == MaxVersion \in Nat
\* Check is called for some subject: the set of subjects is not empty.
ASSUME SubjectsAssumption == Subjects # {}
\* A parent chain of distinct roles is never deeper than walkRoleParents'
\* limit of 20, so the limit never stops this model's walks (the Rbac
\* module models it).
ASSUME RolesAssumption == IsFiniteSet(Roles) /\ Cardinality(Roles) <= 21

NoRole == "none"   \* Role.ParentID == nil, or no role being walked
AbacVerdicts == {"none", "allow", "deny"}
StoreState ==
    [asgG : [Subjects -> SUBSET Roles],      \* ListRolesForSubject
     asgR : [Subjects -> SUBSET Roles],      \* ListRolesForSubjectOnResource
     parent : [Roles -> Roles \cup {NoRole}], \* GetRole(...).ParentID
     perms : [Roles -> SUBSET Perms],        \* ListRolePermissions
     permOK : [Perms -> BOOLEAN],            \* GetPermission finds it, and it matches
     direct : [Subjects -> BOOLEAN],         \* CheckDirectRelation
     path : [Subjects -> BOOLEAN],           \* graphWalker.Walk allows
     abac : [Subjects -> AbacVerdicts]]      \* evaluator.Evaluate on the active policies

\* The Decision constants of the Go type Decision.
Decisions == {"allow", "deny", "deny_explicit", "deny_default", "deny_no_roles",
              "deny_no_perms", "deny_condition", "deny_relation"}

\* The Reason texts the evaluators and mergeDecisions set ("" is unset; the
\* policy name ABAC formats into its deny reason is left out, since only
\* whether a reason is empty matters to the merge).
Reasons == {"", "subject has no roles", "no role grants required permission",
            "no relation found", "denied by policy", "no matching allow rule"}

\* A CheckResult: Allowed, Decision and Reason (only whether it is empty
\* matters to the merge).  Nil is a nil *CheckResult.
Result == [allowed : BOOLEAN, decision : Decisions, reason : Reasons]
Nil == [nil |-> TRUE]
Err == [err |-> TRUE]   \* Check returned an error
Mk(a, d, r) == [allowed |-> a, decision |-> d, reason |-> r]

ASSUME InitStoresAssumption == InitStores \subseteq StoreState

\* The locals of evaluateRBAC: the global and resource-scoped roles still
\* to walk, the role walkRoleParents is at, the seen set and the result
\* list of resolveInheritedRoles, the index of the role whose permissions
\* are checked, and its permission ids still to get.
Walk == [gl : SUBSET Roles, rl : SUBSET Roles, cur : Roles \cup {NoRole},
         seen : SUBSET Roles, list : Seq(Roles), idx : Nat \ {0}, todo : SUBSET Perms]
NoWalk == [gl |-> {}, rl |-> {}, cur |-> NoRole, seen |-> {}, list |-> <<>>,
           idx |-> 1, todo |-> {}]

VARIABLES
    st,        \* the store
    ver,       \* history: the store version
    hist,      \* history: the store state of every version
    cache,     \* the cache: subject -> result
    invVer,    \* history: the store version at the last invalidation
    pc,        \* per goroutine: its place in Check
    subj,      \* per goroutine: the subject checked
    walk,      \* per goroutine: the locals of evaluateRBAC
    res,       \* per goroutine: the RBAC, ReBAC and ABAC results
    reads,     \* history, per goroutine: the versions its store reads saw
    out,       \* per goroutine: what Check returned, and whether from cache
    allowedFor \* history: the subjects some evaluator has allowed

storeVars == <<st, ver, hist>>
procVars == <<pc, subj, walk, res, reads, out>>
vars == <<st, ver, hist, cache, invVer, pc, subj, walk, res, reads, out, allowedFor>>

-----------------------------------------------------------------------------
(* The results the evaluators build.                                       *)

AllowResult == Mk(TRUE, "allow", "")
NoRolesResult == Mk(FALSE, "deny_no_roles", "subject has no roles")
NoPermsResult == Mk(FALSE, "deny_no_perms", "no role grants required permission")
NoRelationResult == Mk(FALSE, "deny_relation", "no relation found")
DefaultDeny == Mk(FALSE, "deny_default", "no matching allow rule")

\* conditionEvaluator.Evaluate: nil when no policy applies.
AbacResult(v) ==
    CASE v = "none"  -> Nil
      [] v = "allow" -> AllowResult
      [] v = "deny"  -> Mk(FALSE, "deny_explicit", "denied by policy")

FirstOf(S) == CHOOSE i \in S : \A j \in S : i <= j
LastOf(S) == CHOOSE i \in S : \A j \in S : j <= i

\* Mutant: any allow is returned before the explicit deny is looked at.
MergeAllowFirst(rb, re, ab) ==
    LET rs == <<rb, re, ab>>
        allowing == {i \in 1..3 : rs[i] # Nil /\ rs[i].allowed}
        reasoned == {i \in 1..3 : rs[i] # Nil /\ rs[i].reason # ""}
    IN IF allowing # {} THEN rs[FirstOf(allowing)]
       ELSE IF ab # Nil /\ ab.decision = "deny_explicit" THEN ab
       ELSE IF reasoned # {} THEN rs[FirstOf(reasoned)]
       ELSE DefaultDeny

\* mergeDecisions: explicit deny from ABAC, else the first allow, else the
\* first result with a reason, else the default deny (an if chain: the
\* first test that holds decides).
MergeDecisions(rb, re, ab) ==
    LET rs == <<rb, re, ab>>
        allowing == {i \in 1..3 : rs[i] # Nil /\ rs[i].allowed}
        reasoned == {i \in 1..3 : rs[i] # Nil /\ rs[i].reason # ""}
    IN IF ab # Nil /\ ab.decision = "deny_explicit" THEN ab
       ELSE IF allowing # {} THEN rs[FirstOf(allowing)]
       ELSE IF reasoned # {} THEN rs[FirstOf(reasoned)]
       ELSE DefaultDeny

\* Where Check goes after each evaluator: the next enabled one, or the merge.
AfterRebac == IF AbacOn THEN "abac" ELSE "merge"
AfterRbac == IF RebacOn THEN "rebac" ELSE AfterRebac
AfterProbe == IF RbacOn THEN "rbac_list" ELSE AfterRbac

-----------------------------------------------------------------------------
Init ==
    /\ st \in InitStores
    /\ ver = 0
    /\ hist = <<st>>     \* hist[v + 1] is the store at version v
    /\ cache = [x \in {} |-> Nil]
    /\ invVer = [x \in Subjects |-> 0]
    /\ pc = [p \in Procs |-> "idle"]
    /\ subj = [p \in Procs |-> CHOOSE x \in Subjects : TRUE]
    /\ walk = [p \in Procs |-> NoWalk]
    /\ res = [p \in Procs |-> [g \in {"rbac", "rebac", "abac"} |-> Nil]]
    /\ reads = [p \in Procs |-> {}]
    /\ out = [p \in Procs |-> Nil]
    /\ allowedFor = {}

\* Check is called for subject x.
Start(p, x) ==
    /\ pc[p] = "idle"
    /\ pc' = [pc EXCEPT ![p] = "probe"]
    /\ subj' = [subj EXCEPT ![p] = x]
    /\ UNCHANGED <<storeVars, cache, invVer, walk, res, reads, out, allowedFor>>

\* Mutant: the cache key leaves the subject out, so any entry is a hit.
ProbeAnyKey(p) ==
    /\ pc[p] = "probe"
    /\ IF CacheOn /\ DOMAIN cache # {}
       THEN \E x \in DOMAIN cache :
               /\ pc' = [pc EXCEPT ![p] = "done"]
               /\ out' = [out EXCEPT ![p] = [res |-> cache[x], cached |-> TRUE]]
       ELSE /\ pc' = [pc EXCEPT ![p] = AfterProbe]
            /\ UNCHANGED out
    /\ UNCHANGED <<storeVars, cache, invVer, subj, walk, res, reads, allowedFor>>

\* 1. cache.Get: a hit is returned as it is; a miss goes on to the
\* evaluators (after EmitBeforeCheck, which changes no state).
Probe(p) ==
    /\ pc[p] = "probe"
    /\ IF CacheOn /\ subj[p] \in DOMAIN cache
       THEN /\ pc' = [pc EXCEPT ![p] = "done"]
            /\ out' = [out EXCEPT ![p] = [res |-> cache[subj[p]], cached |-> TRUE]]
       ELSE /\ pc' = [pc EXCEPT ![p] = AfterProbe]
            /\ UNCHANGED out
    /\ UNCHANGED <<storeVars, cache, invVer, subj, walk, res, reads, allowedFor>>

\* A store call of evaluateRBAC, evaluateReBAC or evaluateABAC failed:
\* Check returns "warden <model>: err" and caches nothing.
Fail(p) ==
    /\ pc' = [pc EXCEPT ![p] = "done"]
    /\ out' = [out EXCEPT ![p] = [res |-> Err, cached |-> FALSE]]

\* A store call of goroutine p succeeded and read the current version.
Read(p) == reads' = [reads EXCEPT ![p] = @ \cup {ver}]

\* Evaluator g of goroutine p returns r, and Check goes on at nextPc.
Decide(p, g, r, nextPc) ==
    /\ res' = [res EXCEPT ![p][g] = r]
    /\ pc' = [pc EXCEPT ![p] = nextPc]
    /\ allowedFor' = IF r # Nil /\ r.allowed THEN allowedFor \cup {subj[p]} ELSE allowedFor

\* evaluateRBAC 1a: ListRolesForSubject; an error is returned.
RbacListGlobal(p) ==
    /\ pc[p] = "rbac_list"
    /\ \/ /\ StoreErrors
          /\ Fail(p)
          /\ UNCHANGED <<walk, reads>>
       \/ /\ walk' = [walk EXCEPT ![p] = [NoWalk EXCEPT !.gl = st.asgG[subj[p]]]]
          /\ pc' = [pc EXCEPT ![p] = "rbac_listr"]
          /\ Read(p)
          /\ UNCHANGED out
    /\ UNCHANGED <<storeVars, cache, invVer, subj, res, allowedFor>>

\* evaluateRBAC 1b: ListRolesForSubjectOnResource; an error is returned,
\* and with no role in either list the result is deny_no_roles.
RbacListResource(p) ==
    LET rl == st.asgR[subj[p]] IN
    /\ pc[p] = "rbac_listr"
    /\ \/ /\ StoreErrors
          /\ Fail(p)
          /\ UNCHANGED <<walk, reads, res, allowedFor>>
       \/ /\ walk' = [walk EXCEPT ![p].rl = rl]
          /\ Read(p)
          /\ IF walk[p].gl \cup rl = {}
             THEN Decide(p, "rbac", NoRolesResult, AfterRbac)
             ELSE /\ pc' = [pc EXCEPT ![p] = "rbac_walk"]
                  /\ UNCHANGED <<res, allowedFor>>
          /\ UNCHANGED out
    /\ UNCHANGED <<storeVars, cache, invVer, subj>>

\* resolveInheritedRoles: walkRoleParents from the next role of allRoles
\* (the global roles first, then the resource-scoped ones, each list in
\* the store's order); after the last, the permission loop over result.
RbacNextRoot(p) ==
    LET w == walk[p] IN
    /\ pc[p] = "rbac_walk"
    /\ w.cur = NoRole
    /\ \/ \E r \in w.gl :
             walk' = [walk EXCEPT ![p].gl = w.gl \ {r}, ![p].cur = r]
       \/ /\ w.gl = {}
          /\ \E r \in w.rl :
                walk' = [walk EXCEPT ![p].rl = w.rl \ {r}, ![p].cur = r]
       \/ /\ w.gl = {} /\ w.rl = {}
          /\ UNCHANGED walk
    /\ pc' = [pc EXCEPT ![p] = IF w.gl = {} /\ w.rl = {} THEN "rbac_perms" ELSE "rbac_walk"]
    /\ UNCHANGED <<storeVars, cache, invVer, subj, res, reads, out, allowedFor>>

\* walkRoleParents at role cur: a seen role ends the walk; otherwise it is
\* marked seen, appended to result, and GetRole reads its parent, where
\* the walk goes on (an error, a missing role or no parent ends it).  The
\* depth limit of 20 never bites here (RolesAssumption).
RbacGetRole(p) ==
    LET w == walk[p]
        marked == [w EXCEPT !.seen = w.seen \cup {w.cur}, !.list = Append(w.list, w.cur)]
    IN
    /\ pc[p] = "rbac_walk"
    /\ w.cur # NoRole
    /\ \/ /\ w.cur \in w.seen
          /\ walk' = [walk EXCEPT ![p].cur = NoRole]
          /\ UNCHANGED reads
       \/ /\ w.cur \notin w.seen /\ StoreErrors
          /\ walk' = [walk EXCEPT ![p] = [marked EXCEPT !.cur = NoRole]]
          /\ UNCHANGED reads
       \/ /\ w.cur \notin w.seen
          /\ walk' = [walk EXCEPT ![p] = [marked EXCEPT !.cur = st.parent[w.cur]]]
          /\ Read(p)
    /\ UNCHANGED <<storeVars, cache, invVer, pc, subj, res, out, allowedFor>>

\* evaluateRBAC 3: ListRolePermissions of the idx-th resolved role (an
\* error skips the role); past the last role the result is deny_no_perms.
RbacListPerms(p) ==
    LET w == walk[p] IN
    /\ pc[p] = "rbac_perms"
    /\ \/ /\ w.idx > Len(w.list)
          /\ Decide(p, "rbac", NoPermsResult, AfterRbac)
          /\ UNCHANGED <<walk, reads>>
       \/ /\ w.idx <= Len(w.list) /\ StoreErrors
          /\ walk' = [walk EXCEPT ![p].idx = w.idx + 1]
          /\ UNCHANGED <<pc, res, reads, allowedFor>>
       \/ /\ w.idx <= Len(w.list)
          /\ walk' = [walk EXCEPT ![p].todo = st.perms[w.list[w.idx]]]
          /\ pc' = [pc EXCEPT ![p] = "rbac_perm"]
          /\ Read(p)
          /\ UNCHANGED <<res, allowedFor>>
    /\ UNCHANGED <<storeVars, cache, invVer, subj, out>>

\* evaluateRBAC 3: GetPermission of the role's next permission id; one
\* that exists and matches "resource:action" is an allow, an error, a
\* missing or an unmatched one goes on to the next id, and after the last
\* id to the next role.
RbacGetPerm(p) ==
    LET w == walk[p] IN
    /\ pc[p] = "rbac_perm"
    /\ \/ /\ w.todo = {}
          /\ walk' = [walk EXCEPT ![p].idx = w.idx + 1]
          /\ pc' = [pc EXCEPT ![p] = "rbac_perms"]
          /\ UNCHANGED <<res, reads, allowedFor>>
       \/ \E pm \in w.todo :
             /\ walk' = [walk EXCEPT ![p].todo = w.todo \ {pm}]
             /\ \/ /\ StoreErrors
                   /\ UNCHANGED <<pc, res, reads, allowedFor>>
                \/ /\ Read(p)
                   /\ IF st.permOK[pm]
                      THEN Decide(p, "rbac", AllowResult, AfterRbac)
                      ELSE UNCHANGED <<pc, res, allowedFor>>
    /\ UNCHANGED <<storeVars, cache, invVer, subj, out>>

\* evaluateReBAC: CheckDirectRelation; an error is returned, a direct
\* tuple is an allow, and otherwise the graph walk follows.
RebacDirect(p) ==
    /\ pc[p] = "rebac"
    /\ \/ /\ StoreErrors
          /\ Fail(p)
          /\ UNCHANGED <<res, reads, allowedFor>>
       \/ /\ Read(p)
          /\ IF st.direct[subj[p]]
             THEN Decide(p, "rebac", AllowResult, AfterRebac)
             ELSE /\ pc' = [pc EXCEPT ![p] = "rebac_walk"]
                  /\ UNCHANGED <<res, allowedFor>>
          /\ UNCHANGED out
    /\ UNCHANGED <<storeVars, cache, invVer, subj, walk>>

\* evaluateReBAC: graphWalker.Walk (set by default; its tuple reads are
\* the GraphWalker module's); an error other than ErrGraphDepthExceeded
\* is returned, an allowed walk is an allow, and otherwise deny_relation.
RebacWalk(p) ==
    /\ pc[p] = "rebac_walk"
    /\ \/ /\ StoreErrors
          /\ Fail(p)
          /\ UNCHANGED <<res, reads, allowedFor>>
       \/ /\ Read(p)
          /\ Decide(p, "rebac", IF st.path[subj[p]] THEN AllowResult ELSE NoRelationResult,
                    AfterRebac)
          /\ UNCHANGED out
    /\ UNCHANGED <<storeVars, cache, invVer, subj, walk>>

\* Mutant: an error of ListActivePolicies is kept as the ABAC result.
AbacErrorAsResult(p) ==
    /\ pc[p] = "abac"
    /\ \/ /\ StoreErrors
          /\ res' = [res EXCEPT ![p]["abac"] = Err]
          /\ pc' = [pc EXCEPT ![p] = "merge"]
          /\ UNCHANGED <<out, reads, allowedFor>>
       \/ /\ Read(p)
          /\ Decide(p, "abac", AbacResult(st.abac[subj[p]]), "merge")
          /\ UNCHANGED out
    /\ UNCHANGED <<storeVars, cache, invVer, subj, walk>>

\* evaluateABAC: ListActivePolicies (an error is returned), then the
\* evaluator's verdict on them.
Abac(p) ==
    /\ pc[p] = "abac"
    /\ \/ /\ StoreErrors
          /\ Fail(p)
          /\ UNCHANGED <<res, reads, allowedFor>>
       \/ /\ Read(p)
          /\ Decide(p, "abac", AbacResult(st.abac[subj[p]]), "merge")
          /\ UNCHANGED out
    /\ UNCHANGED <<storeVars, cache, invVer, subj, walk>>

\* 5-7. Merge, cache.Set under the subject's key (EmitAfterCheck changes
\* no state), and return the merged result.
MergeAndSet(p) ==
    LET m == MergeDecisions(res[p]["rbac"], res[p]["rebac"], res[p]["abac"]) IN
    /\ pc[p] = "merge"
    /\ cache' = IF CacheOn
                THEN [x \in DOMAIN cache \cup {subj[p]} |->
                        IF x = subj[p] THEN m ELSE cache[x]]
                ELSE cache
    /\ pc' = [pc EXCEPT ![p] = "done"]
    /\ out' = [out EXCEPT ![p] = [res |-> m, cached |-> FALSE]]
    /\ UNCHANGED <<storeVars, invVer, subj, walk, res, reads, allowedFor>>

Toggle(S, e) == IF e \in S THEN S \ {e} ELSE S \cup {e}

\* The stores one administrative call makes of s: AssignRole or
\* UnassignRole (global or on the resource), UpdateRole of a parent,
\* AttachPermission or DetachPermission, CreatePermission or
\* DeletePermission, CreateRelation or DeleteRelation (direct, or on a
\* path of the graph), and CreatePolicy, UpdatePolicy or DeletePolicy.
Mutations(s) ==
    {[s EXCEPT !.asgG[x] = Toggle(@, r)] : x \in Subjects, r \in Roles}
    \cup {[s EXCEPT !.asgR[x] = Toggle(@, r)] : x \in Subjects, r \in Roles}
    \cup {[s EXCEPT !.parent[r] = q] : r \in Roles, q \in Roles \cup {NoRole}}
    \cup {[s EXCEPT !.perms[r] = Toggle(@, pm)] : r \in Roles, pm \in Perms}
    \cup {[s EXCEPT !.permOK[pm] = ~@] : pm \in Perms}
    \cup {[s EXCEPT !.direct[x] = ~@] : x \in Subjects}
    \cup {[s EXCEPT !.path[x] = ~@] : x \in Subjects}
    \cup {[s EXCEPT !.abac[x] = v] : x \in Subjects, v \in AbacVerdicts}

\* An administrator changes the store.  The engine does not invalidate
\* the cache on mutations.
Mutate ==
    /\ ver < MaxVersion
    /\ \E s \in Mutations(st) \ {st} :
          /\ st' = s
          /\ hist' = Append(hist, s)
    /\ ver' = ver + 1
    /\ UNCHANGED <<cache, invVer, procVars, allowedFor>>

\* A caller runs InvalidateSubject for x (InvalidateTenant removes every
\* key and is the same step for every subject).
Invalidate(x) ==
    /\ CacheOn
    /\ cache' = [y \in DOMAIN cache \ {x} |-> cache[y]]
    /\ invVer' = [invVer EXCEPT ![x] = ver]
    /\ UNCHANGED <<storeVars, procVars, allowedFor>>

\* The TTL of an entry passes; a later Get deletes it or Set evicts it.
Expire(x) ==
    /\ x \in DOMAIN cache
    /\ cache' = [y \in DOMAIN cache \ {x} |-> cache[y]]
    /\ UNCHANGED <<storeVars, invVer, procVars, allowedFor>>

\* The steps of goroutine p inside Check.
Step(p) ==
    \/ Probe(p)
    \/ RbacListGlobal(p) \/ RbacListResource(p) \/ RbacNextRoot(p)
    \/ RbacGetRole(p) \/ RbacListPerms(p) \/ RbacGetPerm(p)
    \/ RebacDirect(p) \/ RebacWalk(p) \/ Abac(p)
    \/ MergeAndSet(p)

Next ==
    \/ \E p \in Procs, x \in Subjects : Start(p, x)
    \/ \E p \in Procs : Step(p)
    \/ Mutate
    \/ \E x \in Subjects : Invalidate(x) \/ Expire(x)

Spec == Init /\ [][Next]_vars

-----------------------------------------------------------------------------
Outcome == [res : Result \cup {Err}, cached : BOOLEAN]
Pcs == {"idle", "probe", "rbac_list", "rbac_listr", "rbac_walk", "rbac_perms",
        "rbac_perm", "rebac", "rebac_walk", "abac", "merge", "done"}

(* Type correctness: in particular no result slot and no cache entry ever *)
(* holds an error, since every failing store call ends Check at once.     *)
TypeOK ==
    /\ st \in StoreState
    /\ ver \in 0..MaxVersion
    /\ hist \in Seq(StoreState) /\ Len(hist) = ver + 1
    /\ \A x \in DOMAIN cache : x \in Subjects /\ cache[x] \in Result
    /\ invVer \in [Subjects -> 0..ver]
    /\ pc \in [Procs -> Pcs]
    /\ subj \in [Procs -> Subjects]
    /\ walk \in [Procs -> Walk]
    /\ \A p \in Procs : \A g \in {"rbac", "rebac", "abac"} : res[p][g] \in Result \cup {Nil}
    /\ reads \in [Procs -> SUBSET (0..ver)]
    /\ \A p \in Procs : out[p] = Nil \/ out[p] \in Outcome
    /\ allowedFor \subseteq Subjects

\* The roles resolveInheritedRoles reaches in store s from x's assigned
\* roles: the least set of roles holding them and closed under parent.
ParentClosed(s, S) == \A r \in S : s.parent[r] # NoRole => s.parent[r] \in S
Resolved(s, x) ==
    {r \in Roles : \A S \in SUBSET Roles :
        (s.asgG[x] \cup s.asgR[x] \subseteq S /\ ParentClosed(s, S)) => r \in S}

\* Store s grants subject x: an enabled model allows it.
Granted(s, x) ==
    \/ RbacOn /\ \E r \in Resolved(s, x) : \E pm \in s.perms[r] : s.permOK[pm]
    \/ RebacOn /\ (s.direct[x] \/ s.path[x])
    \/ AbacOn /\ s.abac[x] = "allow"

\* Store s decides allow for x (spec 4.9 on one state).
DecidesAllow(s, x) == Granted(s, x) /\ ~(AbacOn /\ s.abac[x] = "deny")

Returned(p) == pc[p] = "done" /\ out[p].res # Err

(* Every allow a check returns, computed or served from the cache, was    *)
(* an allow some evaluator computed for that very subject: the cache,     *)
(* keyed by subject, never serves one subject's allow to another, and the *)
(* merge never makes an allow of denies.                                  *)
AllowForSubject ==
    \A p \in Procs :
        Returned(p) /\ out[p].res.allowed => subj[p] \in allowedFor

(* Spec 8: if an ABAC policy denies, the merged decision is not allow.     *)
(* A computed result of a check whose ABAC read saw an explicit deny is   *)
(* that deny, whatever RBAC and ReBAC said.                               *)
ExplicitDenyWins ==
    \A p \in Procs :
        Returned(p) /\ ~out[p].cached /\ res[p]["abac"] # Nil
        /\ res[p]["abac"].decision = "deny_explicit" => ~out[p].res.allowed

(* InvalidateSubject makes later checks see the store: after it, a cached *)
(* allow of the subject is one that some store version at or after the   *)
(* invalidation grants.                                                   *)
CacheFreshAfterInvalidation ==
    \A x \in DOMAIN cache :
        cache[x].allowed => \E v \in (invVer[x] + 1)..Len(hist) : Granted(hist[v], x)

(* A computed allow is the decision of the store at one instant of the    *)
(* check: some version between the first and the last read of the check  *)
(* decides allow.                                                         *)
AllowAtOneInstant ==
    \A p \in Procs :
        Returned(p) /\ ~out[p].cached /\ out[p].res.allowed /\ reads[p] # {} =>
            \E w \in FirstOf(reads[p])..LastOf(reads[p]) : DecidesAllow(hist[w + 1], subj[p])
=============================================================================
