-------------------------------- MODULE Rbac --------------------------------
(***************************************************************************)
(* The RBAC evaluator of the warden engine (Engine.evaluateRBAC with       *)
(* resolveInheritedRoles and walkRoleParents) and the permission matcher   *)
(* it calls (matcher.go: matchPermission, matchGlob).                      *)
(*                                                                         *)
(* The store of the tenant is chosen in Init and fixed during the          *)
(* evaluation: the ordered role lists of the two assignment queries, the   *)
(* parent of every role (or NoParent, or Gone for a role whose record was  *)
(* deleted, so that GetRole fails), the permission ids attached to every   *)
(* role, and the permission records.  walkRoleParents recurses only in     *)
(* tail position, so its recursion is modelled as a loop on (role, depth). *)
(* One step per walkRoleParents call and one per role whose permissions    *)
(* are scanned.  Store errors on GetRole and ListRolePermissions (which    *)
(* the code swallows) are nondeterministic when StoreErrors is TRUE.       *)
(*                                                                         *)
(* Permission names and the required "resource:action" are strings, i.e.  *)
(* sequences of characters, so that the glob matcher is modelled by what   *)
(* it does.                                                                 *)
(***************************************************************************)
EXTENDS Naturals, Sequences, FiniteSets

CONSTANTS
    Chars,        \* characters the strings are made of
    Roles,        \* role ids
    PermIDs,      \* permission ids
    PermTable,    \* GetPermission: id -> [resource, action], or NoPerm
    Requests,     \* the (resource type, action) pairs of the checks
    RoleLists,    \* the possible results of the two assignment queries
    ParentMaps,   \* the possible parent links of the roles
    PermMaps,     \* the possible permission attachments of the roles
    StoreErrors   \* whether GetRole / ListRolePermissions may fail

Str == Seq(Chars)
Star == <<"*">>
Colon == <<":">>

NoParent == "no_parent"   \* role record with ParentID == nil
Gone == "gone"            \* no role record: GetRole returns an error
NoPerm == [noPerm |-> TRUE]  \* no permission record: GetPermission fails
None == [none |-> TRUE]

\* walkRoleParents: if depth > 20 { return } (a literal in the code).
RoleDepthLimit == 20

ASSUME RolesAssumption == IsFiniteSet(Roles) /\ NoParent \notin Roles /\ Gone \notin Roles
ASSUME PermTableAssumption ==
    PermTable \in [PermIDs -> [resource : Str, action : Str] \cup {NoPerm}]
ASSUME RequestsAssumption == Requests \subseteq [rtype : Str, action : Str]
ASSUME StoreAssumption ==
    /\ RoleLists \subseteq Seq(Roles)
    /\ ParentMaps \subseteq [Roles -> Roles \cup {NoParent, Gone}]
    /\ PermMaps \subseteq [Roles -> SUBSET PermIDs]
ASSUME StoreErrorsAssumption == StoreErrors \in BOOLEAN

VARIABLES
    req,            \* the check request (resource type, action)
    globalRoles,    \* ListRolesForSubject, in store order
    resourceRoles,  \* ListRolesForSubjectOnResource, in store order
    parentOf,       \* GetRole(r).ParentID, NoParent or Gone
    rolePerms,      \* ListRolePermissions(r)
    phase,          \* "list", "resolve", "check" or "done"
    todo,           \* roles of allRoles not yet expanded
    cur,            \* the pending walkRoleParents call [role, depth], or None
    seen,           \* the seen set of resolveInheritedRoles
    result,         \* the resolved roles, in order
    idx,            \* the role of result whose permissions are scanned
    outcome         \* "running", "allow", "deny_no_roles", "deny_no_perms", "error"

store == <<req, globalRoles, resourceRoles, parentOf, rolePerms>>
walk == <<phase, todo, cur, seen, result, idx, outcome>>
vars == <<store, walk>>

-----------------------------------------------------------------------------
(* matcher.go                                                              *)

HasPrefix(s, p) == Len(s) >= Len(p) /\ SubSeq(s, 1, Len(p)) = p
HasSuffix(s, p) == Len(s) >= Len(p) /\ SubSeq(s, Len(s) - Len(p) + 1, Len(s)) = p
TrimStar(s) == SubSeq(s, 1, Len(s) - 1)

\* Mutant: the glob "r:*" is trimmed to "r" and so matches "rx:a" too.
MatchGlobLoosePrefix(pattern, value) ==
    \/ pattern = Star
    \/ pattern = value
    \/ /\ HasSuffix(pattern, Star)
       /\ LET pre == IF HasSuffix(pattern, Colon \o Star)
                     THEN SubSeq(pattern, 1, Len(pattern) - 2)
                     ELSE TrimStar(pattern)
          IN HasPrefix(value, pre)

\* matchGlob: "*", equality, or a pattern ending in "*" (the ":*", ".*" and
\* "*" branches of the code all trim the one "*") whose prefix starts value.
MatchGlob(pattern, value) ==
    \/ pattern = Star
    \/ pattern = value
    \/ HasSuffix(pattern, Star) /\ HasPrefix(value, TrimStar(pattern))

\* matchPermission: equality, then the glob.
MatchPermission(permName, required) ==
    permName = required \/ MatchGlob(permName, required)

\* perm.Resource + ":" + perm.Action
PermName(p) == PermTable[p].resource \o Colon \o PermTable[p].action

\* req.Resource.Type + ":" + req.Action.Name
Required(r) == r.rtype \o Colon \o r.action

\* A permission of role g that exists and matches the request.
Grants(g, r) ==
    \E p \in rolePerms[g] : PermTable[p] # NoPerm /\ MatchPermission(PermName(p), Required(r))

-----------------------------------------------------------------------------
Init ==
    /\ req \in Requests
    /\ globalRoles \in RoleLists
    /\ resourceRoles \in RoleLists
    /\ parentOf \in ParentMaps
    /\ rolePerms \in PermMaps
    /\ phase = "list"
    /\ todo = <<>>
    /\ cur = None
    /\ seen = {}
    /\ result = <<>>
    /\ idx = 1
    /\ outcome = "running"

\* The two assignment queries: an error fails the check ("warden rbac");
\* no role at all is deny_no_roles.
ListRoles ==
    /\ phase = "list"
    /\ \/ /\ StoreErrors
          /\ phase' = "done" /\ outcome' = "error" /\ UNCHANGED todo
       \/ /\ globalRoles \o resourceRoles = <<>>
          /\ phase' = "done" /\ outcome' = "deny_no_roles" /\ UNCHANGED todo
       \/ /\ globalRoles \o resourceRoles # <<>>
          /\ phase' = "resolve" /\ todo' = globalRoles \o resourceRoles
          /\ UNCHANGED outcome
    /\ UNCHANGED <<store, cur, seen, result, idx>>

\* resolveInheritedRoles: call walkRoleParents(rid, depth 0) for the next role.
StartRoot ==
    /\ phase = "resolve" /\ cur = None /\ todo # <<>>
    /\ cur' = [role |-> Head(todo), depth |-> 0]
    /\ todo' = Tail(todo)
    /\ UNCHANGED <<store, phase, seen, result, idx, outcome>>

\* walkRoleParents returns at once: the role is seen, or depth > 20.
WalkStop ==
    /\ phase = "resolve" /\ cur # None
    /\ cur.role \in seen \/ cur.depth > RoleDepthLimit
    /\ cur' = None
    /\ UNCHANGED <<store, phase, todo, seen, result, idx, outcome>>

\* Mutant: the ParentID read by GetRole is appended instead of the role.
WalkVisitAppendsParent ==
    /\ phase = "resolve" /\ cur # None
    /\ cur.role \notin seen /\ cur.depth <= RoleDepthLimit
    /\ seen' = seen \cup {cur.role}
    /\ result' = Append(result, parentOf[cur.role])
    /\ \/ /\ parentOf[cur.role] \in Roles
          /\ cur' = [role |-> parentOf[cur.role], depth |-> cur.depth + 1]
       \/ /\ parentOf[cur.role] \notin Roles \/ StoreErrors
          /\ cur' = None
    /\ UNCHANGED <<store, phase, todo, idx, outcome>>

\* walkRoleParents marks and appends the role, then GetRole: it continues
\* with the parent at depth + 1, or returns (no parent, no record, error).
WalkVisit ==
    /\ phase = "resolve" /\ cur # None
    /\ cur.role \notin seen /\ cur.depth <= RoleDepthLimit
    /\ seen' = seen \cup {cur.role}
    /\ result' = Append(result, cur.role)
    /\ \/ /\ parentOf[cur.role] \in Roles
          /\ cur' = [role |-> parentOf[cur.role], depth |-> cur.depth + 1]
       \/ /\ parentOf[cur.role] \notin Roles \/ StoreErrors
          /\ cur' = None
    /\ UNCHANGED <<store, phase, todo, idx, outcome>>

ResolveDone ==
    /\ phase = "resolve" /\ cur = None /\ todo = <<>>
    /\ phase' = "check"
    /\ UNCHANGED <<store, todo, cur, seen, result, idx, outcome>>

\* ListRolePermissions and GetPermission of every id for result[idx]: the
\* first match is an allow; an error or no match moves to the next role.
CheckRole ==
    /\ phase = "check" /\ idx <= Len(result)
    /\ \/ /\ Grants(result[idx], req)
          /\ phase' = "done" /\ outcome' = "allow"
          /\ UNCHANGED idx
       \/ /\ ~Grants(result[idx], req) \/ StoreErrors
          /\ idx' = idx + 1
          /\ UNCHANGED <<phase, outcome>>
    /\ UNCHANGED <<store, todo, cur, seen, result>>

\* No role grants the permission: deny_no_perms.
NoMatch ==
    /\ phase = "check" /\ idx > Len(result)
    /\ phase' = "done" /\ outcome' = "deny_no_perms"
    /\ UNCHANGED <<store, todo, cur, seen, result, idx>>

Next == ListRoles \/ StartRoot \/ WalkStop \/ WalkVisit \/ ResolveDone
        \/ CheckRole \/ NoMatch

Spec == Init /\ [][Next]_vars

-----------------------------------------------------------------------------
TypeOK ==
    /\ req \in Requests
    /\ globalRoles \in RoleLists /\ resourceRoles \in RoleLists
    /\ parentOf \in ParentMaps
    /\ rolePerms \in PermMaps
    /\ phase \in {"list", "resolve", "check", "done"}
    /\ todo \in Seq(Roles)
    /\ cur \in {None} \cup [role : Roles, depth : Nat]
    /\ seen \subseteq Roles
    /\ result \in Seq(Roles)
    /\ idx \in Nat \ {0}
    /\ outcome \in {"running", "allow", "deny_no_roles", "deny_no_perms", "error"}

AssignedRoles == {globalRoles[i] : i \in DOMAIN globalRoles} \cup
                 {resourceRoles[i] : i \in DOMAIN resourceRoles}

\* The roles reached from role a over at most k parent links.
AncestorsWithin[k \in Nat, a \in Roles] ==
    IF k = 0 \/ parentOf[a] \notin Roles THEN {a}
    ELSE {a} \cup AncestorsWithin[k - 1, parentOf[a]]

\* A set of roles that holds the parent of each of its roles.
ParentClosed(S) == \A g \in S : parentOf[g] \in Roles => parentOf[g] \in S

\* The roles reached from role a over any number of parent links: the
\* least parent-closed set of roles that holds a.
Ancestors(a) ==
    {g \in Roles : \A S \in SUBSET Roles : a \in S /\ ParentClosed(S) => g \in S}

\* Spec 4.3, the reference glob: "*", equality, or a pattern whose last
\* character is "*" and whose other characters begin the value.
GlobSpec(pattern, value) ==
    LET n == Len(pattern) - 1 IN
    \/ pattern \in {Star, value}
    \/ /\ pattern # <<>> /\ pattern[Len(pattern)] = "*"
       /\ Len(value) >= n /\ \A i \in 1..n : value[i] = pattern[i]

\* Role g holds an existing permission whose name globs the request.
GrantsSpec(g, r) ==
    \E p \in rolePerms[g] : PermTable[p] # NoPerm /\ GlobSpec(PermName(p), Required(r))

(* Soundness of an RBAC allow: an allow is granted only by a permission   *)
(* record that exists, whose "resource:action" glob matches the request   *)
(* under the matcher's rules, and that is attached to an assigned role or *)
(* to an ancestor of one over the parent links.                            *)
RbacSound ==
    outcome = "allow" =>
        \E a \in AssignedRoles : \E g \in Ancestors(a) : GrantsSpec(g, req)

(* Spec 4.5 (iii): each assigned role is expanded with its ancestors up   *)
(* to the depth cap of 20 (the cap only stops expansion).  Once the       *)
(* resolution is done, every role within 20 parent links of an assigned   *)
(* role is among the resolved roles, whatever the order of the lists.     *)
RoleClosure ==
    phase \in {"check", "done"} /\ outcome # "deny_no_roles" =>
        \A a \in AssignedRoles :
            AncestorsWithin[RoleDepthLimit, a] \subseteq {result[i] : i \in DOMAIN result}
=============================================================================
