---------------------------- MODULE GraphWalker ----------------------------
(***************************************************************************)
(* The ReBAC graph walker of warden (graph_walker.go, bfsGraphWalker.Walk):*)
(* a breadth-first search from the node (resource type, resource id,      *)
(* action) over relation tuples, looking for a tuple whose subject is the *)
(* requesting subject.                                                     *)
(*                                                                         *)
(* Strings (types, ids, relation names) are sequences of characters, so   *)
(* that the visited-set key, built with fmt.Sprintf("%s:%s#%s", ...), is  *)
(* modelled by what it does: a concatenation.  The empty subject relation *)
(* "" is the empty sequence.                                               *)
(*                                                                         *)
(* The tuples of the tenant are chosen in Init among the candidate tuples *)
(* Universe and stay fixed during one walk.  The walk pops one node per   *)
(* step; the tuples fetched for that node (ListRelationSubjects) are a    *)
(* local snapshot that the loop of the code consumes one tuple at a time, *)
(* in any order (the store returns them by creation time, which the model *)
(* leaves open).                                                           *)
(***************************************************************************)
EXTENDS Naturals, Sequences, FiniteSets

CONSTANTS
    Chars,      \* characters the strings are made of
    Types,      \* object and subject types
    Ids,        \* object and subject ids
    Rels,       \* relation names
    Universe,   \* candidate relation tuples of the tenant
    MaxTuples,  \* bound on the number of tuples stored
    Req,        \* the check request
    MaxDepth    \* bfsGraphWalker.maxDepth

Str == Seq(Chars)
Empty == <<>>  \* the empty string ""

Tuple == [objectType : Types, objectID : Ids, relation : Rels,
          subjectType : Types, subjectID : Ids, subjectRelation : Rels \cup {Empty}]

Node == [objectType : Types, objectID : Ids, relation : Rels, depth : Nat]

ASSUME StrAssumption ==
    /\ Types \cup Ids \cup Rels \subseteq Str
    /\ Empty \notin Rels
    /\ ":" \in Chars /\ "#" \in Chars
ASSUME UniverseAssumption == Universe \subseteq Tuple /\ IsFiniteSet(Universe)
ASSUME ReqAssumption ==
    Req \in [subjectKind : Types, subjectID : Ids, action : Rels,
             resourceType : Types, resourceID : Ids]
\* DefaultGraphWalker replaces maxDepth <= 0 by 10, so the depth is positive.
ASSUME MaxDepthAssumption == MaxDepth \in Nat \ {0}
ASSUME MaxTuplesAssumption == MaxTuples \in Nat

VARIABLES
    tuples,   \* the relation tuples of the tenant (the store)
    queue,    \* the BFS queue of walkNodes
    visited,  \* the set of visit keys
    node,     \* the node whose tuples are being scanned
    pending,  \* the fetched tuples of node not yet scanned
    outcome   \* "running", "allowed", "denied" or "depth_exceeded"

vars == <<tuples, queue, visited, node, pending, outcome>>

-----------------------------------------------------------------------------
(* The operations of the walk, as operators on their inputs so that the   *)
(* engine model can reuse them.                                            *)

\* Mutant: the query drops its tenant filter and returns candidate tuples
\* that are not stored for this tenant.
ListRelationSubjectsAnyTenant(T, n) ==
    {t \in Universe : /\ t.objectType = n.objectType
                      /\ t.objectID = n.objectID
                      /\ t.relation = n.relation}

\* relation.Store.ListRelationSubjects(tenant, type, id, rel)
ListRelationSubjects(T, n) ==
    {t \in T : /\ t.objectType = n.objectType
               /\ t.objectID = n.objectID
               /\ t.relation = n.relation}

\* fmt.Sprintf("%s:%s#%s", node.objectType, node.objectID, node.relation)
VisitKey(n) == n.objectType \o <<":">> \o n.objectID \o <<"#">> \o n.relation

\* Mutant: the subject is recognised by its id alone.
IsTargetIdOnly(t, r) == t.subjectID = r.subjectID

\* t.SubjectType == targetSubjectType && t.SubjectID == targetSubjectID
IsTarget(t, r) == t.subjectType = r.subjectKind /\ t.subjectID = r.subjectID

\* The node enqueued for a tuple that is not the target: the subject set
\* (subject, subjectRelation) or, without one, the subject under the
\* relation of the current node.
ChildNode(n, t) ==
    [objectType |-> t.subjectType,
     objectID   |-> t.subjectID,
     relation   |-> IF t.subjectRelation # Empty THEN t.subjectRelation
                                             ELSE n.relation,
     depth      |-> n.depth + 1]

\* The node the queue is seeded with.
RootNode(r) ==
    [objectType |-> r.resourceType, objectID |-> r.resourceID,
     relation |-> r.action, depth |-> 0]

-----------------------------------------------------------------------------
Init ==
    /\ tuples \in {T \in SUBSET Universe : Cardinality(T) <= MaxTuples}
    /\ queue = <<RootNode(Req)>>
    /\ visited = {}
    /\ node = RootNode(Req)
    /\ pending = {}
    /\ outcome = "running"

\* Mutant: the depth test is off by one.
ExceedsAtBound(n) == n.depth >= MaxDepth

\* node.depth > w.maxDepth
Exceeds(n) == n.depth > MaxDepth

\* A pop is possible when the loop over the previous node's tuples is done.
CanPop == outcome = "running" /\ pending = {} /\ queue # <<>>

\* node.depth > w.maxDepth: the walk fails with ErrGraphDepthExceeded.
DepthExceeded ==
    /\ CanPop
    /\ Exceeds(Head(queue))
    /\ queue' = Tail(queue)
    /\ outcome' = "depth_exceeded"
    /\ UNCHANGED <<tuples, visited, node, pending>>

\* Mutant: a visited node is skipped without being popped.
SkipVisitedNoPop ==
    /\ CanPop
    /\ ~Exceeds(Head(queue))
    /\ VisitKey(Head(queue)) \in visited
    /\ UNCHANGED vars

\* The visit key is already in visited: continue.
SkipVisited ==
    /\ CanPop
    /\ ~Exceeds(Head(queue))
    /\ VisitKey(Head(queue)) \in visited
    /\ queue' = Tail(queue)
    /\ UNCHANGED <<tuples, visited, node, pending, outcome>>

\* Record the visit and fetch the node's tuples from the store.
Fetch ==
    /\ CanPop
    /\ ~Exceeds(Head(queue))
    /\ VisitKey(Head(queue)) \notin visited
    /\ queue' = Tail(queue)
    /\ visited' = visited \cup {VisitKey(Head(queue))}
    /\ node' = Head(queue)
    /\ pending' = ListRelationSubjects(tuples, Head(queue))
    /\ UNCHANGED <<tuples, outcome>>

\* A fetched tuple names the requesting subject: return allowed.
Match ==
    /\ outcome = "running"
    /\ \E t \in pending : IsTarget(t, Req)
    /\ outcome' = "allowed"
    /\ UNCHANGED <<tuples, queue, visited, node, pending>>

\* A fetched tuple that is not the subject: enqueue its child node.
Follow ==
    /\ outcome = "running"
    /\ \E t \in pending :
          /\ ~IsTarget(t, Req)
          /\ queue' = Append(queue, ChildNode(node, t))
          /\ pending' = pending \ {t}
    /\ UNCHANGED <<tuples, visited, node, outcome>>

\* The queue is empty: return not allowed, no error.
Drain ==
    /\ outcome = "running"
    /\ pending = {}
    /\ queue = <<>>
    /\ outcome' = "denied"
    /\ UNCHANGED <<tuples, queue, visited, node, pending>>

Next == DepthExceeded \/ SkipVisited \/ Fetch \/ Match \/ Follow \/ Drain

\* The walk runs on the calling goroutine and never waits on another actor.
Spec == Init /\ [][Next]_vars /\ WF_vars(Next)

-----------------------------------------------------------------------------
TypeOK ==
    /\ tuples \subseteq Universe
    /\ queue \in Seq(Node)
    /\ visited \subseteq Str
    /\ node \in Node
    /\ pending \subseteq tuples
    /\ outcome \in {"running", "allowed", "denied", "depth_exceeded"}

(* The relation graph.  A graph node is (type, id, relation); tuple t     *)
(* leaves node x when it is one of ListRelationSubjects of x, and leads   *)
(* to the node the walker enqueues for it.                                 *)
Triple(n) == <<n.objectType, n.objectID, n.relation>>
Leaves(x, t) == t.objectType = x[1] /\ t.objectID = x[2] /\ t.relation = x[3]
Succ(x, t) == <<t.subjectType, t.subjectID,
                IF t.subjectRelation # Empty THEN t.subjectRelation ELSE x[3]>>
\* The root and every node a stored tuple can lead to.
GraphNodes == {Triple(RootNode(Req))} \cup
              {<<t.subjectType, t.subjectID, r>> : t \in tuples, r \in Rels}
Closed(S) ==
    /\ Triple(RootNode(Req)) \in S
    /\ \A x \in S, t \in tuples : Leaves(x, t) => Succ(x, t) \in S
\* The nodes reachable from the root, whatever the depth.
Reach == {x \in GraphNodes : \A S \in SUBSET GraphNodes : Closed(S) => x \in S}
\* The nodes reachable from the root over at most k tuples.
Within[k \in Nat] ==
    IF k = 0 THEN {Triple(RootNode(Req))}
    ELSE Within[k - 1] \cup
         UNION {{Succ(x, t) : t \in {u \in tuples : Leaves(x, u)}} : x \in Within[k - 1]}
\* Some node of S has a tuple naming the requesting subject (kind and id).
SubjectIn(S) ==
    \E x \in S, t \in tuples :
        /\ Leaves(x, t)
        /\ t.subjectType = Req.subjectKind
        /\ t.subjectID = Req.subjectID

(* Soundness of a ReBAC allow: the walker answers allowed only if a chain *)
(* of stored tuples really leads from the resource to the subject (the    *)
(* subject comparison of Walk on type and id, and the subject-set and     *)
(* same-relation follow rules).                                            *)
AllowedSound == outcome = "allowed" => SubjectIn(Reach)

(* The walker decides exactly "the subject is reached over at most        *)
(* maxDepth + 1 tuples": allowed iff so; a drained queue means the        *)
(* subject is not reachable at all; depth_exceeded means it is not        *)
(* reachable within the bound.  Checks the BFS order, the depth test      *)
(* before the visited test, and the visited-key deduplication together.  *)
WalkOutcome ==
    /\ outcome = "allowed" => SubjectIn(Within[MaxDepth])
    /\ outcome \in {"denied", "depth_exceeded"} => ~SubjectIn(Within[MaxDepth])
    /\ outcome = "denied" => ~SubjectIn(Reach)

(* Every walk ends: the visited set and the depth bound stop it on every  *)
(* graph, cycles included.                                                 *)
Terminates == <>(outcome # "running")
=============================================================================
