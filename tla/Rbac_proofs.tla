---------------------------- MODULE Rbac_proofs ----------------------------
(* Proofs about the RBAC evaluator, for every store and request: the      *)
(* matcher of matcher.go decides exactly the glob rule of spec 4.3, and   *)
(* an allow of evaluateRBAC is granted by an existing permission that     *)
(* globs the request and is attached to an assigned role or to one of    *)
(* its ancestors.                                                          *)
EXTENDS Rbac, SequenceTheorems, TLAPS



-----------------------------------------------------------------------------
(* The matcher.                                                            *)

\* TrimStar drops the last character of a non-empty string.
LEMMA TrimStarLen ==
    ASSUME NEW C, NEW n \in Seq(C), Len(n) >= 1
    PROVE  /\ Len(TrimStar(n)) = Len(n) - 1
           /\ \A i \in 1..Len(n) - 1 : TrimStar(n)[i] = n[i]
<1>1. PICK k \in Nat : k = Len(n)
  OBVIOUS
<1>2. k >= 1 /\ \A i \in 1..k - 1 : n[i] \in C
  BY <1>1
<1>3. /\ Len(SubSeq(n, 1, k - 1)) = IF 1 <= k - 1 THEN (k - 1) - 1 + 1 ELSE 0
      /\ \A i \in 1..(k - 1) - 1 + 1 : SubSeq(n, 1, k - 1)[i] = n[1 + i - 1]
  BY <1>2, SubSeqProperties
<1>4. /\ (IF 1 <= k - 1 THEN (k - 1) - 1 + 1 ELSE 0) = k - 1
      /\ (k - 1) - 1 + 1 = k - 1
      /\ \A i \in 1..k - 1 : 1 + i - 1 = i
  BY <1>2
<1>. QED  BY <1>1, <1>3, <1>4 DEF TrimStar

\* A string whose last character is "*" ends with the one-character
\* string "*".
LEMMA LastStar ==
    ASSUME NEW C, NEW n \in Seq(C), NEW k \in Nat, k = Len(n), k >= 1, n[k] = "*"
    PROVE  SubSeq(n, k, k) = <<"*">>
<1>1. SubSeq(n, k, k) \in Seq(C) /\ Len(SubSeq(n, k, k)) = 1 /\ SubSeq(n, k, k)[1] = "*"
  <2>1. \A i \in k..k : n[i] \in C
    OBVIOUS
  <2>2. /\ SubSeq(n, k, k) \in Seq(C)
        /\ Len(SubSeq(n, k, k)) = IF k <= k THEN k - k + 1 ELSE 0
        /\ \A i \in 1..k - k + 1 : SubSeq(n, k, k)[i] = n[k + i - 1]
    BY <2>1, SubSeqProperties
  <2>. QED  BY <2>2
<1>2. <<"*">> \in Seq(C) /\ Len(<<"*">>) = 1 /\ <<"*">>[1] = "*"
  OBVIOUS
<1>3. \A i \in 1..Len(SubSeq(n, k, k)) : SubSeq(n, k, k)[i] = <<"*">>[i]
  BY <1>1, <1>2
<1>. QED  BY <1>1, <1>2, <1>3, SeqEqual

\* The last character of a pattern that HasSuffix(_, "*") is "*", and the
\* prefix TrimStar leaves is the rest of the pattern.
LEMMA StarSuffix ==
    ASSUME NEW C, NEW n \in Seq(C), HasSuffix(n, Star)
    PROVE  /\ n # <<>> /\ n[Len(n)] = "*"
           /\ Len(TrimStar(n)) = Len(n) - 1
           /\ \A i \in 1..Len(n) - 1 : TrimStar(n)[i] = n[i]
<1>1. Len(n) >= 1
  BY DEF HasSuffix, Star
<1>2. SubSeq(n, Len(n), Len(n))[1] = n[Len(n)]
  BY <1>1
<1>3. SubSeq(n, Len(n), Len(n)) = <<"*">>
  <2>1. Len(Star) = 1 /\ Len(n) \in Nat
    BY DEF Star
  <2>2. Len(n) - Len(Star) + 1 = Len(n)
    BY <2>1
  <2>. QED  BY <2>2 DEF HasSuffix, Star
<1>4. /\ Len(TrimStar(n)) = Len(n) - 1
      /\ \A i \in 1..Len(n) - 1 : TrimStar(n)[i] = n[i]
  BY <1>1, TrimStarLen
<1>5. n # <<>>
  BY <1>1
<1>. QED  BY <1>2, <1>3, <1>4, <1>5 DEF TrimStar

\* Every match of matchPermission is a glob match of the spec.
LEMMA GlobSound ==
    ASSUME NEW C, NEW n \in Seq(C), NEW v \in Seq(C), MatchPermission(n, v)
    PROVE  GlobSpec(n, v)
<1>1. CASE n = v \/ n = Star
  BY <1>1 DEF GlobSpec
<1>2. CASE HasSuffix(n, Star) /\ HasPrefix(v, TrimStar(n))
  <2>1. n # <<>> /\ n[Len(n)] = "*" /\ Len(TrimStar(n)) = Len(n) - 1
        /\ \A i \in 1..Len(n) - 1 : TrimStar(n)[i] = n[i]
    BY <1>2, StarSuffix
  <2>2. Len(v) >= Len(n) - 1 /\ SubSeq(v, 1, Len(n) - 1) = TrimStar(n)
    BY <1>2, <2>1 DEF HasPrefix
  <2>3. \A i \in 1..Len(n) - 1 : v[i] = n[i]
    BY <2>1, <2>2
  <2>. QED  BY <2>1, <2>2, <2>3 DEF GlobSpec
<1>. QED  BY <1>1, <1>2 DEF MatchPermission, MatchGlob

\* Every glob match of the spec is a match of matchPermission.
LEMMA GlobComplete ==
    ASSUME NEW C, NEW n \in Seq(C), NEW v \in Seq(C), GlobSpec(n, v)
    PROVE  MatchPermission(n, v)
<1>1. CASE n \in {Star, v}
  BY <1>1 DEF MatchPermission, MatchGlob
<1>2. CASE n # <<>> /\ n[Len(n)] = "*" /\ Len(v) >= Len(n) - 1
           /\ \A i \in 1..Len(n) - 1 : v[i] = n[i]
  <2>1. Len(n) >= 1 /\ Len(n) \in Nat /\ Len(v) \in Nat
    BY <1>2
  <2>2. HasSuffix(n, Star)
    <3>1. PICK k \in Nat : k = Len(n) /\ k >= 1
      BY <2>1
    <3>2. n[k] = "*"
      BY <1>2, <3>1
    <3>3. SubSeq(n, k - 1 + 1, k) = <<"*">>
      <4>1. k - 1 + 1 = k
        BY <3>1
      <4>. QED  BY <3>1, <3>2, <4>1, LastStar
    <3>4. Len(Star) = 1
      BY DEF Star
    <3>. QED  BY <3>1, <3>3, <3>4 DEF HasSuffix, Star
  <2>3. HasPrefix(v, TrimStar(n))
    <3>1. SubSeq(v, 1, Len(n) - 1) = SubSeq(n, 1, Len(n) - 1)
      BY <1>2, <2>1
    <3>. QED  BY <1>2, <2>1, <3>1 DEF HasPrefix, TrimStar
  <2>. QED  BY <2>2, <2>3 DEF MatchPermission, MatchGlob
<1>. QED  BY <1>1, <1>2 DEF GlobSpec

(* matchPermission of matcher.go decides exactly the glob rule of spec    *)
(* 4.3, for all strings: "*", equality, or a trailing "*" whose other     *)
(* characters begin the required "resource:action".                       *)
THEOREM MatcherMeetsSpec ==
    \A n, v \in Str : MatchPermission(n, v) <=> GlobSpec(n, v)
  BY GlobSound, GlobComplete DEF Str

-----------------------------------------------------------------------------
(* The evaluation.  RbacSound is not inductive: it speaks of the outcome  *)
(* only, while the allow comes from a role of result, which came from the *)
(* pending walkRoleParents call, which came from the queue of assigned    *)
(* roles.  RbacInv records where each of them came from.                  *)

\* Every role still to expand is an assigned role.
TodoAssigned == \A i \in 1..Len(todo) : todo[i] \in AssignedRoles

\* The pending walkRoleParents call is on an ancestor of an assigned role.
CurReached == cur # None => \E a \in AssignedRoles : cur.role \in Ancestors(a)

\* Every resolved role is an ancestor of an assigned role.
ResultReached == \A i \in 1..Len(result) : \E a \in AssignedRoles : result[i] \in Ancestors(a)

\* An allow ends the evaluation and names the resolved role that grants it.
AllowGrounded ==
    outcome = "allow" => phase = "done" /\ idx \in 1..Len(result) /\ Grants(result[idx], req)

RbacInv == TypeOK /\ TodoAssigned /\ CurReached /\ ResultReached /\ AllowGrounded

\* A role is its own ancestor, and the ancestors hold each other's parents.
LEMMA AncSelf == ASSUME NEW a \in Roles PROVE a \in Ancestors(a)
  BY DEF Ancestors

LEMMA AncParent ==
    ASSUME NEW a, NEW g \in Ancestors(a), parentOf[g] \in Roles
    PROVE  parentOf[g] \in Ancestors(a)
  BY DEF Ancestors, ParentClosed

\* Every element of a joined list is an element of one of its parts.
LEMMA ConcatIn ==
    ASSUME NEW S, NEW s \in Seq(S), NEW t \in Seq(S), NEW i \in 1..Len(s \o t)
    PROVE  (s \o t)[i] \in {s[j] : j \in DOMAIN s} \cup {t[j] : j \in DOMAIN t}
<1>1. /\ Len(s \o t) = Len(s) + Len(t)
      /\ \A j \in 1..Len(s) + Len(t) :
            (s \o t)[j] = IF j <= Len(s) THEN s[j] ELSE t[j - Len(s)]
  BY ConcatProperties
<1>. QED  BY <1>1

\* The assigned roles are roles.
LEMMA AssignedType ==
    ASSUME globalRoles \in RoleLists, resourceRoles \in RoleLists
    PROVE  AssignedRoles \subseteq Roles
  BY StoreAssumption DEF AssignedRoles

\* An allow of evaluateRBAC meets the glob rule of the spec: the matching
\* permission of the role exists and globs the required "resource:action".
LEMMA GrantsSound ==
    ASSUME NEW g \in Roles, NEW r \in Requests, rolePerms \in PermMaps, Grants(g, r)
    PROVE  GrantsSpec(g, r)
<1>. DEFINE C == Chars \cup {":"}
<1>1. PICK p \in rolePerms[g] : PermTable[p] # NoPerm /\ MatchPermission(PermName(p), Required(r))
  BY DEF Grants
<1>2. p \in PermIDs
  BY StoreAssumption
<1>3. PermTable[p] \in [resource : Str, action : Str]
  BY <1>1, <1>2, PermTableAssumption
<1>4. \A x, y \in Str : x \o Colon \o y \in Seq(C)
  <2>1. Colon \in Seq(C) /\ Str \subseteq Seq(C)
    BY DEF Colon, Str
  <2>. QED  BY <2>1, ConcatProperties
<1>5. r \in [rtype : Str, action : Str]
  BY RequestsAssumption
<1>6. PermName(p) \in Seq(C) /\ Required(r) \in Seq(C)
  BY <1>3, <1>4, <1>5 DEF PermName, Required
<1>. QED  BY <1>1, <1>6, GlobSound DEF GrantsSpec

LEMMA InitInv == Init => RbacInv
  BY DEF Init, RbacInv, TypeOK, TodoAssigned, CurReached, ResultReached, AllowGrounded

\* No step changes the store of the tenant, so the assigned roles, their
\* ancestors and the grants of every role stay as they were.
LEMMA StoreFixed ==
    ASSUME UNCHANGED store
    PROVE  /\ AssignedRoles' = AssignedRoles
           /\ \A a : Ancestors(a)' = Ancestors(a)
           /\ \A g : Grants(g, req)' = Grants(g, req)
  BY DEF store, AssignedRoles, Ancestors, ParentClosed, Grants

LEMMA NextInv == RbacInv /\ [Next]_vars => RbacInv'
<1> SUFFICES ASSUME RbacInv, [Next]_vars PROVE RbacInv'
  OBVIOUS
<1>0. /\ AssignedRoles \subseteq Roles
      /\ outcome = "allow" => phase = "done"
  BY AssignedType DEF RbacInv, TypeOK, AllowGrounded
<1>s. UNCHANGED store
  BY DEF Next, vars, ListRoles, StartRoot, WalkStop, WalkVisit, ResolveDone, CheckRole, NoMatch
<1>f. /\ AssignedRoles' = AssignedRoles
      /\ \A a : Ancestors(a)' = Ancestors(a)
      /\ \A g : Grants(g, req)' = Grants(g, req)
  BY <1>s, StoreFixed
<1>t. /\ req' \in Requests /\ globalRoles' \in RoleLists /\ resourceRoles' \in RoleLists
      /\ parentOf' \in ParentMaps /\ rolePerms' \in PermMaps
  BY <1>s DEF store, RbacInv, TypeOK
<1>1. CASE ListRoles
  <2>1. globalRoles \in Seq(Roles) /\ resourceRoles \in Seq(Roles)
    BY StoreAssumption DEF RbacInv, TypeOK
  <2>2. globalRoles \o resourceRoles \in Seq(Roles)
    BY <2>1, ConcatProperties
  <2>3. \A i \in 1..Len(globalRoles \o resourceRoles) :
           (globalRoles \o resourceRoles)[i] \in AssignedRoles
    BY <2>1, ConcatIn DEF AssignedRoles
  <2>4. todo' \in Seq(Roles) /\ TodoAssigned'
    BY <1>1, <1>f, <2>2, <2>3 DEF ListRoles, RbacInv, TypeOK, TodoAssigned
  <2>5. outcome' # "allow"
    BY <1>0, <1>1 DEF ListRoles
  <2>6. UNCHANGED <<cur, seen, result, idx>>
    BY <1>1 DEF ListRoles
  <2>7. phase' \in {"list", "resolve", "check", "done"}
        /\ outcome' \in {"running", "allow", "deny_no_roles", "deny_no_perms", "error"}
    BY <1>1 DEF ListRoles, RbacInv, TypeOK
  <2>. QED  BY <1>f, <1>t, <2>4, <2>5, <2>6, <2>7
            DEF RbacInv, TypeOK, CurReached, ResultReached, AllowGrounded
<1>2. CASE StartRoot
  <2>1. todo \in Seq(Roles) /\ todo # <<>>
    BY <1>2 DEF StartRoot, RbacInv, TypeOK
  <2>2. /\ Head(todo) = todo[1] /\ Len(todo) >= 1
        /\ Tail(todo) \in Seq(Roles) /\ Len(Tail(todo)) = Len(todo) - 1
        /\ \A i \in 1..Len(Tail(todo)) : Tail(todo)[i] = todo[i + 1]
    BY <2>1, HeadTailProperties, EmptySeq
  <2>3. Head(todo) \in AssignedRoles
    BY <2>2 DEF RbacInv, TodoAssigned
  <2>4. Head(todo) \in Ancestors(Head(todo)) /\ Head(todo) \in Roles
    BY <1>0, <2>3, AncSelf
  <2>5. TodoAssigned'
    BY <1>2, <1>f, <2>2 DEF StartRoot, RbacInv, TodoAssigned
  <2>6. cur' = [role |-> Head(todo), depth |-> 0]
    BY <1>2 DEF StartRoot
  <2>7. CurReached'
    BY <1>f, <2>3, <2>4, <2>6 DEF CurReached
  <2>8. cur' \in {None} \cup [role : Roles, depth : Nat]
    BY <2>4, <2>6
  <2>9. UNCHANGED <<phase, seen, result, idx, outcome>>
    BY <1>2 DEF StartRoot
  <2>. QED  BY <1>f, <1>t, <2>2, <2>5, <2>7, <2>8, <2>9, <1>2
            DEF StartRoot, RbacInv, TypeOK, ResultReached, AllowGrounded
<1>3. CASE WalkStop
  <2>1. cur' = None /\ UNCHANGED <<phase, todo, seen, result, idx, outcome>>
    BY <1>3 DEF WalkStop
  <2>. QED  BY <1>f, <1>t, <2>1
            DEF RbacInv, TypeOK, TodoAssigned, CurReached, ResultReached, AllowGrounded
<1>4. CASE WalkVisit
  <2>1. cur # None /\ phase = "resolve"
    BY <1>4 DEF WalkVisit
  <2>2. cur \in [role : Roles, depth : Nat]
    BY <2>1 DEF RbacInv, TypeOK
  <2>3. PICK a \in AssignedRoles : cur.role \in Ancestors(a)
    BY <2>1 DEF RbacInv, CurReached
  <2>4. /\ result' = Append(result, cur.role)
        /\ result \in Seq(Roles)
        /\ seen' = seen \cup {cur.role}
        /\ UNCHANGED <<phase, todo, idx, outcome>>
    BY <1>4 DEF WalkVisit, RbacInv, TypeOK
  <2>5. /\ result' \in Seq(Roles) /\ Len(result') = Len(result) + 1
        /\ result'[Len(result) + 1] = cur.role
        /\ \A i \in 1..Len(result) : result'[i] = result[i]
    BY <2>2, <2>4, AppendProperties
  <2>6. ResultReached'
    BY <1>f, <2>3, <2>5 DEF RbacInv, ResultReached
  <2>7. \/ /\ parentOf[cur.role] \in Roles
           /\ cur' = [role |-> parentOf[cur.role], depth |-> cur.depth + 1]
        \/ cur' = None
    BY <1>4 DEF WalkVisit
  <2>8. CurReached' /\ cur' \in {None} \cup [role : Roles, depth : Nat]
    <3>1. CASE cur' = None
      BY <3>1 DEF CurReached
    <3>2. CASE parentOf[cur.role] \in Roles
               /\ cur' = [role |-> parentOf[cur.role], depth |-> cur.depth + 1]
      <4>1. parentOf[cur.role] \in Ancestors(a)
        BY <2>3, <3>2, AncParent
      <4>. QED  BY <1>f, <2>2, <3>2, <4>1 DEF CurReached
    <3>. QED  BY <2>7, <3>1, <3>2
  <2>9. seen' \subseteq Roles
    BY <2>2, <2>4 DEF RbacInv, TypeOK
  <2>10. AllowGrounded'
    BY <1>0, <2>1, <2>4 DEF AllowGrounded
  <2>. QED  BY <1>f, <1>t, <2>4, <2>5, <2>6, <2>8, <2>9, <2>10
            DEF RbacInv, TypeOK, TodoAssigned
<1>5. CASE ResolveDone
  <2>1. phase = "resolve" /\ phase' = "check" /\ UNCHANGED <<todo, cur, seen, result, idx, outcome>>
    BY <1>5 DEF ResolveDone
  <2>. QED  BY <1>0, <1>f, <1>t, <2>1
            DEF RbacInv, TypeOK, TodoAssigned, CurReached, ResultReached, AllowGrounded
<1>6. CASE CheckRole
  <2>1. phase = "check" /\ idx <= Len(result) /\ UNCHANGED <<todo, cur, seen, result>>
    BY <1>6 DEF CheckRole
  <2>2. idx \in 1..Len(result)
    BY <2>1 DEF RbacInv, TypeOK
  <2>3. CASE Grants(result[idx], req) /\ phase' = "done" /\ outcome' = "allow" /\ UNCHANGED idx
    BY <1>f, <1>t, <2>1, <2>2, <2>3
       DEF RbacInv, TypeOK, TodoAssigned, CurReached, ResultReached, AllowGrounded
  <2>4. CASE idx' = idx + 1 /\ UNCHANGED <<phase, outcome>>
    BY <1>0, <1>f, <1>t, <2>1, <2>2, <2>4
       DEF RbacInv, TypeOK, TodoAssigned, CurReached, ResultReached, AllowGrounded
  <2>. QED  BY <1>6, <2>3, <2>4 DEF CheckRole
<1>7. CASE NoMatch
  <2>1. phase' = "done" /\ outcome' = "deny_no_perms"
        /\ UNCHANGED <<todo, cur, seen, result, idx>>
    BY <1>7 DEF NoMatch
  <2>. QED  BY <1>f, <1>t, <2>1
            DEF RbacInv, TypeOK, TodoAssigned, CurReached, ResultReached, AllowGrounded
<1>8. CASE UNCHANGED vars
  <2>1. UNCHANGED <<phase, todo, cur, seen, result, idx, outcome>>
    BY <1>8 DEF vars, walk
  <2>. QED  BY <1>f, <1>t, <2>1
            DEF RbacInv, TypeOK, TodoAssigned, CurReached, ResultReached, AllowGrounded
<1>. QED  BY <1>1, <1>2, <1>3, <1>4, <1>5, <1>6, <1>7, <1>8 DEF Next

(* Every state of an RBAC evaluation is well typed, for every store, set *)
(* of roles and request, cycles and deleted parents included.            *)
THEOREM RbacTypeCorrect == Spec => []TypeOK
<1>1. RbacInv => TypeOK
  BY DEF RbacInv
<1>. QED  BY <1>1, InitInv, NextInv, PTL DEF Spec

(* An allow of evaluateRBAC is sound for every store and request: some    *)
(* assigned role, or an ancestor of one over the parent links, holds an   *)
(* existing permission whose "resource:action" globs the request.  The   *)
(* depth cap and the seen set only ever drop roles.                       *)
THEOREM RbacSoundTheorem == Spec => []RbacSound
<1>1. RbacInv => RbacSound
  <2> SUFFICES ASSUME RbacInv, outcome = "allow"
               PROVE  \E a \in AssignedRoles : \E g \in Ancestors(a) : GrantsSpec(g, req)
    BY DEF RbacSound
  <2>1. idx \in 1..Len(result) /\ Grants(result[idx], req)
    BY DEF RbacInv, AllowGrounded
  <2>2. PICK a \in AssignedRoles : result[idx] \in Ancestors(a)
    BY <2>1 DEF RbacInv, ResultReached
  <2>3. result[idx] \in Roles /\ req \in Requests /\ rolePerms \in PermMaps
    BY <2>1 DEF RbacInv, TypeOK
  <2>4. GrantsSpec(result[idx], req)
    BY <2>1, <2>3, GrantsSound
  <2>. QED  BY <2>2, <2>4
<1>. QED  BY <1>1, InitInv, NextInv, PTL DEF Spec
=============================================================================
