------------------------ MODULE GraphWalker_proofs ------------------------
(* Proofs about the graph walker for every value of the constants: the    *)
(* walker keeps its variables in their types, and it answers allowed only *)
(* when a chain of stored tuples leads from the resource to the subject.  *)
EXTENDS GraphWalker, SequenceTheorems, TLAPS

USE StrAssumption, UniverseAssumption, ReqAssumption, MaxDepthAssumption

-----------------------------------------------------------------------------
(* Facts about the reachable set.                                          *)

LEMMA RootReached == Triple(RootNode(Req)) \in Reach
BY DEF Reach, Closed, GraphNodes

\* Every node of the graph is a triple of a type, an id and a relation.
LEMMA GraphNodesTyped ==
    ASSUME tuples \subseteq Universe
    PROVE  GraphNodes \subseteq Types \X Ids \X Rels
BY DEF GraphNodes, Triple, RootNode, Tuple

\* The reachable set is closed under the edges of the stored tuples.
LEMMA ReachClosed ==
    ASSUME tuples \subseteq Universe,
           NEW x \in Reach, NEW t \in tuples, Leaves(x, t)
    PROVE  Succ(x, t) \in Reach
<1>1. x \in Types \X Ids \X Rels
  BY GraphNodesTyped DEF Reach
<1>2. t \in Tuple
  OBVIOUS
<1>3. Succ(x, t) \in GraphNodes
  BY <1>1, <1>2 DEF Succ, GraphNodes, Tuple
<1>4. \A S \in SUBSET GraphNodes : Closed(S) => Succ(x, t) \in S
  BY DEF Reach, Closed
<1>. QED  BY <1>3, <1>4 DEF Reach

\* The node enqueued for a tuple is the tuple's successor in the graph.
LEMMA ChildIsSucc ==
    ASSUME NEW n, NEW t
    PROVE  Triple(ChildNode(n, t)) = Succ(Triple(n), t)
BY DEF Triple, ChildNode, Succ

-----------------------------------------------------------------------------
(* The inductive invariant: everything in the queue, the node being       *)
(* scanned, and so every fetched tuple, lies in the reachable graph.      *)
IInv ==
    /\ TypeOK
    /\ \A i \in 1..Len(queue) : Triple(queue[i]) \in Reach
    /\ Triple(node) \in Reach
    /\ \A t \in pending : Leaves(Triple(node), t)
    /\ AllowedSound

LEMMA InitIInv == Init => IInv
<1> SUFFICES ASSUME Init PROVE IInv
  OBVIOUS
<1>1. TypeOK
  <2>1. RootNode(Req) \in Node
    BY DEF RootNode, Node
  <2>. QED  BY <2>1 DEF Init, TypeOK
<1>2. \A i \in 1..Len(queue) : Triple(queue[i]) \in Reach
  BY RootReached DEF Init
<1>3. Triple(node) \in Reach
  BY RootReached DEF Init
<1>. QED  BY <1>1, <1>2, <1>3 DEF Init, IInv, AllowedSound

\* A visit key is a string.
LEMMA VisitKeyStr ==
    ASSUME NEW n \in Node
    PROVE  VisitKey(n) \in Str
<1>1. n.objectType \in Seq(Chars) /\ n.objectID \in Seq(Chars)
      /\ n.relation \in Seq(Chars)
  BY DEF Node, Str
<1>2. <<":">> \in Seq(Chars) /\ <<"#">> \in Seq(Chars)
  OBVIOUS
<1>. QED  BY <1>1, <1>2, ConcatProperties DEF VisitKey, Str

LEMMA NextIInv == IInv /\ [Next]_vars => IInv'
<1> SUFFICES ASSUME IInv, [Next]_vars PROVE IInv'
  OBVIOUS
<1>. USE DEF IInv, TypeOK
<1>0. tuples' = tuples
  BY DEF Next, vars, DepthExceeded, SkipVisited, Fetch, Match, Follow, Drain
<1>r. Reach' = Reach /\ SubjectIn(Reach)' = SubjectIn(Reach)
  BY <1>0 DEF Reach, Closed, GraphNodes, SubjectIn
<1>s. AllowedSound' = (outcome' = "allowed" => SubjectIn(Reach))
  BY <1>r DEF AllowedSound
<1>1. CASE DepthExceeded
  <2>1. queue # <<>> /\ queue' = Tail(queue) /\ outcome' # "allowed"
    BY <1>1 DEF DepthExceeded, CanPop
  <2>2. queue' \in Seq(Node) /\ \A i \in 1..Len(queue') : Triple(queue'[i]) \in Reach
    BY <2>1
  <2>. QED  BY <1>1, <1>r, <1>s, <2>1, <2>2 DEF DepthExceeded
<1>2. CASE SkipVisited
  <2>1. queue # <<>> /\ queue' = Tail(queue) /\ outcome' = outcome
    BY <1>2 DEF SkipVisited, CanPop
  <2>2. queue' \in Seq(Node) /\ \A i \in 1..Len(queue') : Triple(queue'[i]) \in Reach
    BY <2>1
  <2>. QED  BY <1>2, <1>r, <1>s, <2>1, <2>2 DEF SkipVisited, AllowedSound
<1>3. CASE Fetch
  <2>1. queue # <<>> /\ Head(queue) \in Node /\ Triple(Head(queue)) \in Reach
    BY <1>3 DEF Fetch, CanPop
  <2>2. queue' \in Seq(Node) /\ \A i \in 1..Len(queue') : Triple(queue'[i]) \in Reach
    BY <1>3, <2>1 DEF Fetch
  <2>3. visited' \subseteq Str
    BY <1>3, <2>1, VisitKeyStr DEF Fetch
  <2>4. pending' \subseteq tuples' /\ \A t \in pending' : Leaves(Triple(node'), t)
    BY <1>3, <1>0 DEF Fetch, ListRelationSubjects, Leaves, Triple
  <2>. QED  BY <1>3, <1>0, <1>r, <1>s, <2>1, <2>2, <2>3, <2>4 DEF Fetch, AllowedSound
<1>4. CASE Match
  <2>1. PICK t \in pending : IsTarget(t, Req)
    BY <1>4 DEF Match
  <2>2. SubjectIn(Reach)
    BY <2>1 DEF SubjectIn, IsTarget
  <2>. QED  BY <1>4, <1>r, <1>s, <2>2 DEF Match
<1>5. CASE Follow
  <2>1. PICK t \in pending :
          /\ ~IsTarget(t, Req)
          /\ queue' = Append(queue, ChildNode(node, t))
          /\ pending' = pending \ {t}
    BY <1>5 DEF Follow
  <2>2. ChildNode(node, t) \in Node
    BY DEF ChildNode, Node, Tuple
  <2>3. Triple(ChildNode(node, t)) \in Reach
    BY <2>1, ReachClosed, ChildIsSucc
  <2>4. queue' \in Seq(Node) /\ \A i \in 1..Len(queue') : Triple(queue'[i]) \in Reach
    BY <2>1, <2>2, <2>3
  <2>. QED  BY <1>5, <1>r, <1>s, <2>1, <2>4 DEF Follow, AllowedSound
<1>6. CASE Drain
  BY <1>6, <1>r, <1>s DEF Drain, AllowedSound
<1>7. CASE UNCHANGED vars
  BY <1>7, <1>r, <1>s DEF vars, AllowedSound
<1>. QED  BY <1>1, <1>2, <1>3, <1>4, <1>5, <1>6, <1>7 DEF Next

(* The walker's variables keep their types in every reachable state.      *)
THEOREM TypeCorrect == Spec => []TypeOK
<1>1. IInv => TypeOK
  BY DEF IInv
<1>. QED  BY <1>1, InitIInv, NextIInv, PTL DEF Spec

(* Soundness of a ReBAC allow (Walk in graph_walker.go): in every         *)
(* reachable state, an allowed outcome means a chain of stored tuples     *)
(* leads from the resource to the requesting subject.                     *)
THEOREM WalkerSound == Spec => []AllowedSound
<1>1. IInv => AllowedSound
  BY DEF IInv
<1>. QED  BY <1>1, InitIInv, NextIInv, PTL DEF Spec
=============================================================================
