---------------------------- MODULE Engine_proofs ----------------------------
(* Proofs, for every set of subjects, roles, permissions and goroutines,  *)
(* every configuration of the evaluators and the cache, and every number  *)
(* of store mutations, that the check pipeline is well typed (TypeOK),    *)
(* that every allow it returns was computed by an evaluator for that very *)
(* subject (AllowForSubject), and that a computed result whose ABAC read  *)
(* saw an explicit deny is a deny (ExplicitDenyWins).                     *)
EXTENDS Engine, SequenceTheorems, TLAPS

USE ConfigAssumption, MaxVersionAssumption, InitStoresAssumption, SubjectsAssumption

StageSet == {"rbac", "rebac", "abac"}

\* The results the evaluators and mergeDecisions build.
ExplicitDeny == AbacResult("deny")
Built == {AllowResult, NoRolesResult, NoPermsResult, NoRelationResult, DefaultDeny,
          ExplicitDeny}

\* The typing the proofs carry: TypeOK with every result one that is built.
TypeInv ==
    /\ st \in StoreState
    /\ ver \in 0..MaxVersion
    /\ hist \in Seq(StoreState) /\ Len(hist) = ver + 1
    /\ \A x \in DOMAIN cache : x \in Subjects /\ cache[x] \in Built
    /\ invVer \in [Subjects -> 0..ver]
    /\ pc \in [Procs -> Pcs]
    /\ subj \in [Procs -> Subjects]
    /\ walk \in [Procs -> Walk]
    /\ res \in [Procs -> [StageSet -> Built \cup {Nil}]]
    /\ reads \in [Procs -> SUBSET (0..ver)]
    /\ out \in [Procs -> {Nil} \cup [res : Built \cup {Err}, cached : BOOLEAN]]
    /\ allowedFor \subseteq Subjects

\* A goroutine that has not started holds no result.
IdleClean == \A p \in Procs : pc[p] = "idle" => res[p] = [g \in StageSet |-> Nil]

\* A goroutine that is not done has returned nothing.
OutNil == \A p \in Procs : pc[p] # "done" => out[p] = Nil

\* Every allow held in a goroutine's slots or in the cache is one some
\* evaluator computed for its subject.
SlotsAllowed ==
    \A p \in Procs : \A g \in StageSet :
        res[p][g] # Nil /\ res[p][g].allowed => subj[p] \in allowedFor
CacheAllowed == \A x \in DOMAIN cache : cache[x].allowed => x \in allowedFor

\* A returned result that was neither served from the cache nor an error
\* is the merge of the goroutine's slots.
OutMerged ==
    \A p \in Procs :
        Returned(p) /\ ~out[p].cached =>
            out[p].res = MergeDecisions(res[p]["rbac"], res[p]["rebac"], res[p]["abac"])

\* The inductive invariant of the three theorems.
EngineInv ==
    /\ TypeInv /\ IdleClean /\ OutNil /\ SlotsAllowed /\ CacheAllowed
    /\ AllowForSubject /\ OutMerged

-----------------------------------------------------------------------------
(* The results and the merge.                                              *)

\* The built results are CheckResults other than Nil and Err; only the
\* allow allows, and the explicit deny is the one deny_explicit.
LEMMA BuiltFacts ==
    /\ Nil \notin Built /\ Err \notin Built
    /\ Built \subseteq Result
    /\ \A b \in Built : b.allowed \in BOOLEAN
    /\ \A b \in Built : b.decision = "deny_explicit" => ~b.allowed
    /\ \A v \in AbacVerdicts : AbacResult(v) \in Built \cup {Nil}
<1>1. AllowResult \in Result /\ NoRolesResult \in Result /\ NoPermsResult \in Result
  BY DEF AllowResult, NoRolesResult, NoPermsResult, Mk, Result, Decisions, Reasons
<1>2. NoRelationResult \in Result /\ DefaultDeny \in Result /\ ExplicitDeny \in Result
  BY DEF NoRelationResult, DefaultDeny, ExplicitDeny, AbacResult, Mk, Result,
         Decisions, Reasons
<1>3. Built \subseteq Result
  BY <1>1, <1>2 DEF Built
<1>4. Nil \notin Result /\ Err \notin Result
  BY DEF Nil, Err, Result
<1>5. \A b \in Built : b.decision = "deny_explicit" => ~b.allowed
  <2>1. ExplicitDeny = Mk(FALSE, "deny_explicit", "denied by policy")
    BY DEF ExplicitDeny, AbacResult
  <2>2. /\ AllowResult.decision = "allow"
        /\ NoRolesResult.allowed = FALSE /\ NoPermsResult.allowed = FALSE
        /\ NoRelationResult.allowed = FALSE /\ DefaultDeny.allowed = FALSE
        /\ ExplicitDeny.allowed = FALSE
    BY <2>1 DEF Mk, AllowResult, NoRolesResult, NoPermsResult, NoRelationResult,
                DefaultDeny
  <2>. QED  BY <2>2, Zenon DEF Built
<1>6. \A v \in AbacVerdicts : AbacResult(v) \in Built \cup {Nil}
  BY DEF AbacVerdicts, AbacResult, Built, ExplicitDeny, AllowResult
<1>. QED  BY <1>3, <1>4, <1>5, <1>6 DEF Result

\* The first index of a non-empty set of evaluators.
LEMMA FirstOfIn ==
    ASSUME NEW S \in SUBSET (1..3), S # {}
    PROVE  FirstOf(S) \in S
<1>1. PICK i \in S : TRUE
  OBVIOUS
<1>2. i = 1 \/ i = 2 \/ i = 3
  BY <1>1
<1>3. \E k \in S : \A j \in S : k <= j
  <2>1. CASE 1 \in S  BY <2>1
  <2>2. CASE 1 \notin S /\ 2 \in S  BY <2>2
  <2>3. CASE 1 \notin S /\ 2 \notin S  BY <2>3, <1>1, <1>2
  <2>. QED  BY <2>1, <2>2, <2>3
<1>. QED  BY <1>3 DEF FirstOf

\* mergeDecisions returns a built result, and an allow only when one of
\* the three results it was given is that allow.
LEMMA MergeFromSlots ==
    ASSUME NEW b1 \in Built \cup {Nil}, NEW b2 \in Built \cup {Nil},
           NEW b3 \in Built \cup {Nil}
    PROVE  LET m == MergeDecisions(b1, b2, b3) IN
           /\ m \in Built
           /\ m.allowed => \/ m = b1 /\ b1 # Nil
                           \/ m = b2 /\ b2 # Nil
                           \/ m = b3 /\ b3 # Nil
<1>. DEFINE rs == <<b1, b2, b3>>
            allowing == {i \in 1..3 : rs[i] # Nil /\ rs[i].allowed}
            reasoned == {i \in 1..3 : rs[i] # Nil /\ rs[i].reason # ""}
            deny == b3 # Nil /\ b3.decision = "deny_explicit"
<1>0. MergeDecisions(b1, b2, b3) =
        IF deny THEN b3
        ELSE IF allowing # {} THEN rs[FirstOf(allowing)]
        ELSE IF reasoned # {} THEN rs[FirstOf(reasoned)]
        ELSE DefaultDeny
  BY DEF MergeDecisions
<1>1. Nil \notin Built
  BY BuiltFacts
<1>2. \A i \in 1..3 : rs[i] = b1 \/ rs[i] = b2 \/ rs[i] = b3
  OBVIOUS
<1>3. CASE deny
  BY <1>0, <1>1, <1>3
<1>4. CASE ~deny /\ allowing # {}
  <2>1. FirstOf(allowing) \in allowing
    BY <1>4, FirstOfIn
  <2>2. MergeDecisions(b1, b2, b3) = rs[FirstOf(allowing)]
    BY <1>0, <1>4
  <2>. QED  BY <1>1, <1>2, <2>1, <2>2
<1>5. CASE ~deny /\ allowing = {} /\ reasoned # {}
  <2>1. FirstOf(reasoned) \in reasoned
    BY <1>5, FirstOfIn
  <2>2. MergeDecisions(b1, b2, b3) = rs[FirstOf(reasoned)]
    BY <1>0, <1>5
  <2>. QED  BY <1>1, <1>2, <2>1, <2>2
<1>6. CASE ~deny /\ allowing = {} /\ reasoned = {}
  <2>1. MergeDecisions(b1, b2, b3) = DefaultDeny
    BY <1>0, <1>6
  <2>2. DefaultDeny \in Built /\ ~DefaultDeny.allowed
    BY DEF Built, DefaultDeny, Mk
  <2>. QED  BY <2>1, <2>2
<1>. QED  BY <1>3, <1>4, <1>5, <1>6

\* The merge of a goroutine's slots, for the slots as a function.
LEMMA MergeSlots ==
    ASSUME NEW r \in [StageSet -> Built \cup {Nil}]
    PROVE  LET m == MergeDecisions(r["rbac"], r["rebac"], r["abac"]) IN
           /\ m \in Built
           /\ m.allowed => \E g \in StageSet : m = r[g] /\ r[g] # Nil
<1>1. r["rbac"] \in Built \cup {Nil} /\ r["rebac"] \in Built \cup {Nil}
      /\ r["abac"] \in Built \cup {Nil}
  BY DEF StageSet
<1>. QED  BY <1>1, MergeFromSlots DEF StageSet

-----------------------------------------------------------------------------
(* The initial state.                                                      *)

LEMMA InitInv == Init => EngineInv
<1> SUFFICES ASSUME Init PROVE EngineInv
  OBVIOUS
<1>1. st \in StoreState /\ ver = 0 /\ hist = <<st>>
  BY DEF Init
<1>2. NoWalk \in Walk
  BY DEF NoWalk, Walk, NoRole
<1>3. TypeInv
  BY <1>1, <1>2 DEF Init, TypeInv, Pcs, StageSet
<1>. QED  BY <1>3 DEF Init, EngineInv, IdleClean, OutNil, SlotsAllowed, CacheAllowed,
                      AllowForSubject, OutMerged, Returned, StageSet

-----------------------------------------------------------------------------
(* The steps of a goroutine inside the evaluators.  Each changes only the *)
(* goroutine's own place, locals, one result slot, its reads, the set of  *)
(* allowed subjects, and, when a store call fails, its return value.      *)

LocalStep(p) ==
    /\ UNCHANGED <<st, ver, hist, cache, invVer, subj>>
    /\ pc[p] \notin {"idle", "done"}
    /\ \E v \in Pcs \ {"idle"} : pc' = [pc EXCEPT ![p] = v]
    /\ walk' = walk \/ \E w \in Walk : walk' = [walk EXCEPT ![p] = w]
    /\ \/ res' = res /\ allowedFor' = allowedFor
       \/ \E g \in StageSet, r \in Built \cup {Nil} :
             /\ res' = [res EXCEPT ![p][g] = r]
             /\ allowedFor' = IF r # Nil /\ r.allowed THEN allowedFor \cup {subj[p]}
                              ELSE allowedFor
    /\ reads' = reads \/ reads' = [reads EXCEPT ![p] = @ \cup {ver}]
    /\ \/ out' = out /\ pc'[p] # "done"
       \/ out' = [out EXCEPT ![p] = [res |-> Err, cached |-> FALSE]] /\ pc'[p] = "done"

\* Such a step keeps the invariant.
LEMMA LocalInv ==
    ASSUME EngineInv, NEW p \in Procs, LocalStep(p)
    PROVE  EngineInv'
<1>0. TypeInv /\ Err \notin Built /\ Nil \notin Built
  BY BuiltFacts DEF EngineInv
<1>1. PICK v \in Pcs \ {"idle"} : pc' = [pc EXCEPT ![p] = v]
  BY DEF LocalStep
<1>2. /\ pc'[p] = v /\ \A q \in Procs \ {p} : pc'[q] = pc[q]
      /\ pc' \in [Procs -> Pcs]
  BY <1>0, <1>1 DEF TypeInv
<1>3. allowedFor \subseteq allowedFor' /\ allowedFor' \subseteq Subjects
  BY <1>0 DEF LocalStep, TypeInv
<1>4. \A q \in Procs \ {p} : res'[q] = res[q] /\ out'[q] = out[q]
  BY <1>0 DEF LocalStep, TypeInv
<1>5. Returned(p)' => FALSE
  BY <1>0, <1>2 DEF LocalStep, Returned, TypeInv
<1>6. TypeInv'
  <2>1. walk' \in [Procs -> Walk]
    <3>1. CASE walk' = walk
      BY <1>0, <3>1 DEF TypeInv
    <3>2. CASE \E w \in Walk : walk' = [walk EXCEPT ![p] = w]
      BY <1>0, <3>2 DEF TypeInv
    <3>. QED  BY <3>1, <3>2 DEF LocalStep
  <2>2. res' \in [Procs -> [StageSet -> Built \cup {Nil}]]
    <3>1. CASE res' = res
      BY <1>0, <3>1 DEF TypeInv
    <3>2. CASE \E g \in StageSet, r \in Built \cup {Nil} : res' = [res EXCEPT ![p][g] = r]
      <4>1. PICK g \in StageSet, r \in Built \cup {Nil} : res' = [res EXCEPT ![p][g] = r]
        BY <3>2
      <4>2. res[p] \in [StageSet -> Built \cup {Nil}]
        BY <1>0 DEF TypeInv
      <4>3. [res[p] EXCEPT ![g] = r] \in [StageSet -> Built \cup {Nil}]
        BY <4>2
      <4>. QED  BY <1>0, <4>1, <4>3 DEF TypeInv
    <3>. QED  BY <3>1, <3>2 DEF LocalStep
  <2>3. reads' \in [Procs -> SUBSET (0..ver)]
    <3>1. CASE reads' = reads
      BY <1>0, <3>1 DEF LocalStep, TypeInv
    <3>2. CASE reads' = [reads EXCEPT ![p] = @ \cup {ver}]
      BY <1>0, <3>2 DEF LocalStep, TypeInv
    <3>. QED  BY <3>1, <3>2 DEF LocalStep
  <2>4. out' \in [Procs -> {Nil} \cup [res : Built \cup {Err}, cached : BOOLEAN]]
    <3>1. CASE out' = out
      BY <1>0, <3>1 DEF TypeInv
    <3>2. CASE out' = [out EXCEPT ![p] = [res |-> Err, cached |-> FALSE]]
      <4>1. [res |-> Err, cached |-> FALSE] \in [res : Built \cup {Err}, cached : BOOLEAN]
        OBVIOUS
      <4>. QED  BY <1>0, <3>2, <4>1 DEF TypeInv
    <3>. QED  BY <3>1, <3>2 DEF LocalStep
  <2>. QED  BY <1>0, <1>2, <1>3, <2>1, <2>2, <2>3, <2>4 DEF LocalStep, TypeInv
<1>7. IdleClean'
  BY <1>2, <1>4 DEF EngineInv, IdleClean
<1>8. OutNil'
  <2>1. out'[p] = Nil \/ pc'[p] = "done"
    <3>1. CASE out' = out /\ pc'[p] # "done"
      BY <1>0, <3>1 DEF LocalStep, EngineInv, OutNil, TypeInv
    <3>2. CASE pc'[p] = "done"
      BY <3>2
    <3>. QED  BY <3>1, <3>2 DEF LocalStep
  <2>. QED  BY <1>2, <1>4, <2>1 DEF EngineInv, OutNil
<1>9. SlotsAllowed'
  <2>1. \A g \in StageSet : res'[p][g] # Nil /\ res'[p][g].allowed => subj[p] \in allowedFor'
    <3>1. CASE res' = res
      BY <1>3, <3>1 DEF LocalStep, EngineInv, SlotsAllowed
    <3>2. CASE \E g \in StageSet, r \in Built \cup {Nil} :
                 /\ res' = [res EXCEPT ![p][g] = r]
                 /\ allowedFor' = IF r # Nil /\ r.allowed THEN allowedFor \cup {subj[p]}
                                  ELSE allowedFor
      <4>1. PICK g \in StageSet, r \in Built \cup {Nil} :
                 /\ res' = [res EXCEPT ![p][g] = r]
                 /\ allowedFor' = IF r # Nil /\ r.allowed THEN allowedFor \cup {subj[p]}
                                  ELSE allowedFor
        BY <3>2
      <4>2. res[p] \in [StageSet -> Built \cup {Nil}]
        BY <1>0 DEF TypeInv
      <4>3. res'[p] = [res[p] EXCEPT ![g] = r]
        BY <1>0, <4>1 DEF TypeInv
      <4>4. r # Nil /\ r.allowed => subj[p] \in allowedFor'
        BY <4>1
      <4>. QED  BY <1>3, <4>2, <4>3, <4>4 DEF LocalStep, EngineInv, SlotsAllowed
    <3>. QED  BY <3>1, <3>2 DEF LocalStep
  <2>. QED  BY <1>3, <1>4, <2>1 DEF LocalStep, EngineInv, SlotsAllowed
<1>10. CacheAllowed'
  BY <1>3 DEF LocalStep, EngineInv, CacheAllowed
<1>11. AllowForSubject' /\ OutMerged'
  BY <1>3, <1>4, <1>5, <1>2 DEF LocalStep, EngineInv, AllowForSubject, OutMerged, Returned
<1>. QED  BY <1>6, <1>7, <1>8, <1>9, <1>10, <1>11 DEF EngineInv

\* Where Check goes after an evaluator is a place inside it.
LEMMA AfterIn ==
    {AfterProbe, AfterRbac, AfterRebac, "merge"} \subseteq Pcs \ {"idle", "done"}
  BY DEF AfterProbe, AfterRbac, AfterRebac, Pcs

\* What an evaluator decides is a built result, with the allowed set
\* grown by the subject when it is an allow.
LEMMA DecideStep ==
    ASSUME NEW p, NEW g, NEW r, NEW n, Decide(p, g, r, n)
    PROVE  /\ res' = [res EXCEPT ![p][g] = r]
           /\ pc' = [pc EXCEPT ![p] = n]
           /\ allowedFor' = IF r # Nil /\ r.allowed THEN allowedFor \cup {subj[p]}
                            ELSE allowedFor
  BY DEF Decide

\* The facts about the current state that every evaluator step uses.
LEMMA StepFacts ==
    ASSUME EngineInv, NEW p \in Procs
    PROVE  /\ st \in StoreState /\ subj[p] \in Subjects /\ walk[p] \in Walk
           /\ pc \in [Procs -> Pcs] /\ out \in [Procs -> {Nil} \cup [res : Built \cup {Err}, cached : BOOLEAN]]
           /\ AllowResult \in Built /\ NoRolesResult \in Built /\ NoPermsResult \in Built
           /\ NoRelationResult \in Built
           /\ \A v \in AbacVerdicts : AbacResult(v) \in Built \cup {Nil}
  BY BuiltFacts DEF EngineInv, TypeInv, Built

\* A step that goes on inside the evaluators is a local step.
LEMMA LocalIntro ==
    ASSUME EngineInv, NEW p \in Procs, pc[p] \notin {"idle", "done"},
           NEW v \in Pcs \ {"idle", "done"}, pc' = [pc EXCEPT ![p] = v],
           walk' = walk \/ \E w \in Walk : walk' = [walk EXCEPT ![p] = w],
           \/ res' = res /\ allowedFor' = allowedFor
           \/ \E g \in StageSet, r \in Built \cup {Nil} :
                 /\ res' = [res EXCEPT ![p][g] = r]
                 /\ allowedFor' = IF r # Nil /\ r.allowed THEN allowedFor \cup {subj[p]}
                                  ELSE allowedFor,
           reads' = reads \/ reads' = [reads EXCEPT ![p] = @ \cup {ver}],
           UNCHANGED <<st, ver, hist, cache, invVer, subj, out>>
    PROVE  LocalStep(p)
<1>1. pc'[p] # "done"
  BY StepFacts
<1>. QED  BY <1>1 DEF LocalStep

\* An evaluator's decision is a local step.
LEMMA LocalDecide ==
    ASSUME EngineInv, NEW p \in Procs, pc[p] \notin {"idle", "done"},
           NEW g \in StageSet, NEW r \in Built \cup {Nil}, NEW n \in Pcs \ {"idle", "done"},
           Decide(p, g, r, n),
           walk' = walk \/ \E w \in Walk : walk' = [walk EXCEPT ![p] = w],
           reads' = reads \/ reads' = [reads EXCEPT ![p] = @ \cup {ver}],
           UNCHANGED <<st, ver, hist, cache, invVer, subj, out>>
    PROVE  LocalStep(p)
<1>1. /\ res' = [res EXCEPT ![p][g] = r]
      /\ pc' = [pc EXCEPT ![p] = n]
      /\ allowedFor' = IF r # Nil /\ r.allowed THEN allowedFor \cup {subj[p]}
                       ELSE allowedFor
  BY DecideStep
<1>2. \E gg \in StageSet, rr \in Built \cup {Nil} :
         /\ res' = [res EXCEPT ![p][gg] = rr]
         /\ allowedFor' = IF rr # Nil /\ rr.allowed THEN allowedFor \cup {subj[p]}
                          ELSE allowedFor
  BY <1>1
<1>. QED  BY <1>1, <1>2, LocalIntro

\* A step that only moves on inside the evaluators is a local step.
LEMMA LocalMove ==
    ASSUME EngineInv, NEW p \in Procs, pc[p] \notin {"idle", "done"},
           NEW n \in Pcs \ {"idle", "done"}, pc' = [pc EXCEPT ![p] = n],
           walk' = walk \/ \E w \in Walk : walk' = [walk EXCEPT ![p] = w],
           reads' = reads \/ reads' = [reads EXCEPT ![p] = @ \cup {ver}],
           UNCHANGED <<st, ver, hist, cache, invVer, subj, res, allowedFor, out>>
    PROVE  LocalStep(p)
  BY LocalIntro

\* The updates the evaluators make of their locals keep them typed.
LEMMA WalkUpdate ==
    ASSUME NEW w \in Walk
    PROVE  /\ \A S \in SUBSET Roles : [w EXCEPT !.rl = S] \in Walk
           /\ \A S \in SUBSET Roles, c \in Roles : [w EXCEPT !.gl = S, !.cur = c] \in Walk
           /\ \A S \in SUBSET Roles, c \in Roles : [w EXCEPT !.rl = S, !.cur = c] \in Walk
           /\ \A c \in Roles \cup {NoRole} : [w EXCEPT !.cur = c] \in Walk
           /\ \A n \in Nat \ {0} : [w EXCEPT !.idx = n] \in Walk
           /\ \A T \in SUBSET Perms : [w EXCEPT !.todo = T] \in Walk
           /\ \A c \in Roles \cup {NoRole} :
                 w.cur \in Roles =>
                    [w EXCEPT !.seen = w.seen \cup {w.cur}, !.list = Append(w.list, w.cur),
                              !.cur = c] \in Walk
           /\ w.gl \subseteq Roles /\ w.rl \subseteq Roles /\ w.cur \in Roles \cup {NoRole}
           /\ w.list \in Seq(Roles) /\ w.idx \in Nat \ {0} /\ w.todo \subseteq Perms
<1>1. w.list \in Seq(Roles) /\ w.seen \subseteq Roles
  BY DEF Walk
<1>2. \A c \in Roles : Append(w.list, c) \in Seq(Roles)
  BY <1>1, AppendProperties
<1>. QED  BY <1>1, <1>2 DEF Walk

\* A failing store call is a local step to "done".
LEMMA FailLocal ==
    ASSUME EngineInv, NEW p \in Procs, pc[p] \notin {"idle", "done"}, Fail(p),
           UNCHANGED <<st, ver, hist, cache, invVer, subj, walk, res, reads, allowedFor>>
    PROVE  LocalStep(p)
  BY StepFacts DEF Fail, LocalStep, Pcs

LEMMA ListGlobalLocal ==
    ASSUME EngineInv, NEW p \in Procs, RbacListGlobal(p)
    PROVE  LocalStep(p)
<1>0. st \in StoreState /\ subj[p] \in Subjects /\ pc[p] = "rbac_list"
  BY StepFacts DEF RbacListGlobal
<1>1. CASE StoreErrors /\ Fail(p) /\ UNCHANGED <<walk, reads>>
  BY <1>0, <1>1, FailLocal DEF RbacListGlobal, storeVars
<1>2. CASE /\ walk' = [walk EXCEPT ![p] = [NoWalk EXCEPT !.gl = st.asgG[subj[p]]]]
           /\ pc' = [pc EXCEPT ![p] = "rbac_listr"]
           /\ Read(p)
           /\ UNCHANGED out
  <2>1. [NoWalk EXCEPT !.gl = st.asgG[subj[p]]] \in Walk
    <3>1. st.asgG[subj[p]] \in SUBSET Roles
      BY <1>0 DEF StoreState
    <3>2. NoWalk \in Walk
      BY DEF NoWalk, Walk, NoRole
    <3>. QED  BY <3>1, <3>2 DEF Walk
  <2>2. "rbac_listr" \in Pcs \ {"idle", "done"}
    BY DEF Pcs
  <2>3. \E w \in Walk : walk' = [walk EXCEPT ![p] = w]
    BY <1>2, <2>1
  <2>4. /\ res' = res /\ allowedFor' = allowedFor
        /\ reads' = [reads EXCEPT ![p] = @ \cup {ver}]
        /\ UNCHANGED <<st, ver, hist, cache, invVer, subj, out>>
    BY <1>2 DEF RbacListGlobal, storeVars, Read
  <2>. QED  BY <1>0, <1>2, <2>2, <2>3, <2>4, LocalIntro
<1>. QED  BY <1>1, <1>2 DEF RbacListGlobal

LEMMA ListResourceLocal ==
    ASSUME EngineInv, NEW p \in Procs, RbacListResource(p)
    PROVE  LocalStep(p)
<1>. DEFINE rl == st.asgR[subj[p]]
<1>0. /\ st \in StoreState /\ subj[p] \in Subjects /\ walk[p] \in Walk
      /\ pc[p] = "rbac_listr" /\ rl \in SUBSET Roles
  BY StepFacts DEF RbacListResource, StoreState
<1>1. CASE StoreErrors /\ Fail(p) /\ UNCHANGED <<walk, reads, res, allowedFor>>
  BY <1>0, <1>1, FailLocal DEF RbacListResource, storeVars
<1>2. CASE /\ walk' = [walk EXCEPT ![p].rl = rl]
           /\ Read(p)
           /\ IF walk[p].gl \cup rl = {}
              THEN Decide(p, "rbac", NoRolesResult, AfterRbac)
              ELSE /\ pc' = [pc EXCEPT ![p] = "rbac_walk"]
                   /\ UNCHANGED <<res, allowedFor>>
           /\ UNCHANGED out
  <2>1. \E w \in Walk : walk' = [walk EXCEPT ![p] = w]
    <3>1. [walk[p] EXCEPT !.rl = rl] \in Walk
      BY <1>0, WalkUpdate
    <3>. QED  BY <1>2, <3>1
  <2>2. /\ reads' = [reads EXCEPT ![p] = @ \cup {ver}]
        /\ UNCHANGED <<st, ver, hist, cache, invVer, subj, out>>
    BY <1>2 DEF RbacListResource, storeVars, Read
  <2>3. CASE walk[p].gl \cup rl = {}
    BY <1>0, <1>2, <2>1, <2>2, <2>3, LocalDecide, AfterIn, StepFacts DEF StageSet
  <2>4. CASE walk[p].gl \cup rl # {}
    <3>1. "rbac_walk" \in Pcs \ {"idle", "done"}
      BY DEF Pcs
    <3>. QED  BY <1>0, <1>2, <2>1, <2>2, <2>4, <3>1, LocalMove
  <2>. QED  BY <2>3, <2>4
<1>. QED  BY <1>1, <1>2 DEF RbacListResource

LEMMA NextRootLocal ==
    ASSUME EngineInv, NEW p \in Procs, RbacNextRoot(p)
    PROVE  LocalStep(p)
<1>. DEFINE w == walk[p]
<1>0. w \in Walk /\ pc[p] = "rbac_walk" /\ w.gl \subseteq Roles /\ w.rl \subseteq Roles
  BY StepFacts, WalkUpdate DEF RbacNextRoot
<1>1. UNCHANGED <<st, ver, hist, cache, invVer, subj, res, reads, out, allowedFor>>
  BY DEF RbacNextRoot, storeVars
<1>2. walk' = walk \/ \E v \in Walk : walk' = [walk EXCEPT ![p] = v]
  <2>1. CASE \E r \in w.gl : walk' = [walk EXCEPT ![p].gl = w.gl \ {r}, ![p].cur = r]
    <3>1. PICK r \in w.gl : walk' = [walk EXCEPT ![p].gl = w.gl \ {r}, ![p].cur = r]
      BY <2>1
    <3>2. [w EXCEPT !.gl = w.gl \ {r}, !.cur = r] \in Walk
      BY <1>0, WalkUpdate
    <3>. QED  BY <3>1, <3>2
  <2>2. CASE \E r \in w.rl : walk' = [walk EXCEPT ![p].rl = w.rl \ {r}, ![p].cur = r]
    <3>1. PICK r \in w.rl : walk' = [walk EXCEPT ![p].rl = w.rl \ {r}, ![p].cur = r]
      BY <2>2
    <3>2. [w EXCEPT !.rl = w.rl \ {r}, !.cur = r] \in Walk
      BY <1>0, WalkUpdate
    <3>. QED  BY <3>1, <3>2
  <2>. QED  BY <2>1, <2>2 DEF RbacNextRoot
<1>3. \E n \in Pcs \ {"idle", "done"} : pc' = [pc EXCEPT ![p] = n]
  BY DEF RbacNextRoot, Pcs
<1>. QED  BY <1>0, <1>1, <1>2, <1>3, LocalMove

LEMMA GetRoleLocal ==
    ASSUME EngineInv, NEW p \in Procs, RbacGetRole(p)
    PROVE  LocalStep(p)
<1>. DEFINE w == walk[p]
<1>0. /\ w \in Walk /\ st \in StoreState /\ pc[p] = "rbac_walk"
      /\ w.cur \in Roles
  BY StepFacts, WalkUpdate DEF RbacGetRole, NoRole
<1>1. UNCHANGED <<st, ver, hist, cache, invVer, pc, subj, res, out, allowedFor>>
  BY DEF RbacGetRole, storeVars
<1>2. \E v \in Walk : walk' = [walk EXCEPT ![p] = v]
  <2>1. st.parent[w.cur] \in Roles \cup {NoRole}
    BY <1>0 DEF StoreState
  <2>2. [w EXCEPT !.cur = NoRole] \in Walk
    BY <1>0, WalkUpdate
  <2>3. \A c \in Roles \cup {NoRole} :
          [[w EXCEPT !.seen = w.seen \cup {w.cur}, !.list = Append(w.list, w.cur)]
              EXCEPT !.cur = c] \in Walk
    BY <1>0, WalkUpdate
  <2>. QED  BY <2>1, <2>2, <2>3 DEF RbacGetRole
<1>3. reads' = reads \/ reads' = [reads EXCEPT ![p] = @ \cup {ver}]
  BY DEF RbacGetRole, Read
<1>4. pc' = [pc EXCEPT ![p] = "rbac_walk"] /\ "rbac_walk" \in Pcs \ {"idle", "done"}
  BY <1>0, <1>1, StepFacts DEF Pcs
<1>. QED  BY <1>0, <1>1, <1>2, <1>3, <1>4, LocalMove

LEMMA ListPermsLocal ==
    ASSUME EngineInv, NEW p \in Procs, RbacListPerms(p)
    PROVE  LocalStep(p)
<1>. DEFINE w == walk[p]
<1>0. /\ w \in Walk /\ st \in StoreState /\ pc[p] = "rbac_perms"
      /\ w.list \in Seq(Roles) /\ w.idx \in Nat \ {0}
  BY StepFacts, WalkUpdate DEF RbacListPerms
<1>1. UNCHANGED <<st, ver, hist, cache, invVer, subj, out>>
  BY DEF RbacListPerms, storeVars
<1>2. CASE w.idx > Len(w.list) /\ Decide(p, "rbac", NoPermsResult, AfterRbac)
           /\ UNCHANGED <<walk, reads>>
  BY <1>0, <1>1, <1>2, LocalDecide, AfterIn, StepFacts DEF StageSet
<1>3. CASE w.idx <= Len(w.list) /\ StoreErrors
           /\ walk' = [walk EXCEPT ![p].idx = w.idx + 1]
           /\ UNCHANGED <<pc, res, reads, allowedFor>>
  <2>1. [w EXCEPT !.idx = w.idx + 1] \in Walk
    <3>1. w.idx + 1 \in Nat \ {0}
      BY <1>0
    <3>. QED  BY <1>0, <3>1, WalkUpdate
  <2>2. pc' = [pc EXCEPT ![p] = "rbac_perms"] /\ "rbac_perms" \in Pcs \ {"idle", "done"}
    BY <1>0, <1>3, StepFacts DEF Pcs
  <2>. QED  BY <1>0, <1>1, <1>3, <2>1, <2>2, LocalMove
<1>4. CASE w.idx <= Len(w.list)
           /\ walk' = [walk EXCEPT ![p].todo = st.perms[w.list[w.idx]]]
           /\ pc' = [pc EXCEPT ![p] = "rbac_perm"]
           /\ Read(p)
           /\ UNCHANGED <<res, allowedFor>>
  <2>1. w.idx \in 1..Len(w.list)
    BY <1>0, <1>4
  <2>2. w.list[w.idx] \in Roles
    BY <1>0, <2>1
  <2>3. [w EXCEPT !.todo = st.perms[w.list[w.idx]]] \in Walk
    BY <1>0, <2>2, WalkUpdate DEF StoreState
  <2>4. "rbac_perm" \in Pcs \ {"idle", "done"}
    BY DEF Pcs
  <2>. QED  BY <1>0, <1>1, <1>4, <2>3, <2>4, LocalMove DEF Read
<1>. QED  BY <1>2, <1>3, <1>4 DEF RbacListPerms

LEMMA GetPermLocal ==
    ASSUME EngineInv, NEW p \in Procs, RbacGetPerm(p)
    PROVE  LocalStep(p)
<1>. DEFINE w == walk[p]
<1>0. /\ w \in Walk /\ st \in StoreState /\ pc[p] = "rbac_perm"
      /\ w.idx \in Nat \ {0} /\ w.todo \subseteq Perms
  BY StepFacts, WalkUpdate DEF RbacGetPerm
<1>1. UNCHANGED <<st, ver, hist, cache, invVer, subj, out>>
  BY DEF RbacGetPerm, storeVars
<1>2. CASE w.todo = {} /\ walk' = [walk EXCEPT ![p].idx = w.idx + 1]
           /\ pc' = [pc EXCEPT ![p] = "rbac_perms"]
           /\ UNCHANGED <<res, reads, allowedFor>>
  <2>1. w.idx + 1 \in Nat \ {0}
    BY <1>0
  <2>2. [w EXCEPT !.idx = w.idx + 1] \in Walk
    BY <1>0, <2>1, WalkUpdate
  <2>3. "rbac_perms" \in Pcs \ {"idle", "done"}
    BY DEF Pcs
  <2>. QED  BY <1>0, <1>1, <1>2, <2>2, <2>3, LocalMove
<1>3. CASE \E pm \in w.todo :
             /\ walk' = [walk EXCEPT ![p].todo = w.todo \ {pm}]
             /\ \/ /\ StoreErrors
                   /\ UNCHANGED <<pc, res, reads, allowedFor>>
                \/ /\ Read(p)
                   /\ IF st.permOK[pm]
                      THEN Decide(p, "rbac", AllowResult, AfterRbac)
                      ELSE UNCHANGED <<pc, res, allowedFor>>
  <2>1. PICK pm \in w.todo :
             /\ walk' = [walk EXCEPT ![p].todo = w.todo \ {pm}]
             /\ \/ /\ StoreErrors
                   /\ UNCHANGED <<pc, res, reads, allowedFor>>
                \/ /\ Read(p)
                   /\ IF st.permOK[pm]
                      THEN Decide(p, "rbac", AllowResult, AfterRbac)
                      ELSE UNCHANGED <<pc, res, allowedFor>>
    BY <1>3
  <2>2. \E v \in Walk : walk' = [walk EXCEPT ![p] = v]
    <3>1. [w EXCEPT !.todo = w.todo \ {pm}] \in Walk
      BY <1>0, WalkUpdate
    <3>. QED  BY <2>1, <3>1
  <2>4. "rbac_perm" \in Pcs \ {"idle", "done"} /\ pc = [pc EXCEPT ![p] = "rbac_perm"]
    BY <1>0, StepFacts DEF Pcs
  <2>5. CASE StoreErrors /\ UNCHANGED <<pc, res, reads, allowedFor>>
    BY <1>0, <1>1, <2>2, <2>4, <2>5, LocalMove
  <2>6. CASE Read(p) /\ st.permOK[pm] /\ Decide(p, "rbac", AllowResult, AfterRbac)
    BY <1>0, <1>1, <2>2, <2>6, LocalDecide, AfterIn, StepFacts DEF StageSet, Read
  <2>7. CASE Read(p) /\ ~st.permOK[pm] /\ UNCHANGED <<pc, res, allowedFor>>
    BY <1>0, <1>1, <2>2, <2>4, <2>7, LocalMove DEF Read
  <2>. QED  BY <2>1, <2>5, <2>6, <2>7
<1>. QED  BY <1>2, <1>3 DEF RbacGetPerm

LEMMA RebacDirectLocal ==
    ASSUME EngineInv, NEW p \in Procs, RebacDirect(p)
    PROVE  LocalStep(p)
<1>0. st \in StoreState /\ subj[p] \in Subjects /\ pc[p] = "rebac"
  BY StepFacts DEF RebacDirect
<1>1. UNCHANGED <<st, ver, hist, cache, invVer, subj, walk>>
  BY DEF RebacDirect, storeVars
<1>2. CASE StoreErrors /\ Fail(p) /\ UNCHANGED <<res, reads, allowedFor>>
  BY <1>0, <1>1, <1>2, FailLocal
<1>3. CASE Read(p) /\ st.direct[subj[p]] /\ Decide(p, "rebac", AllowResult, AfterRebac)
           /\ UNCHANGED out
  BY <1>0, <1>1, <1>3, LocalDecide, AfterIn, StepFacts DEF StageSet, Read
<1>4. CASE Read(p) /\ ~st.direct[subj[p]] /\ pc' = [pc EXCEPT ![p] = "rebac_walk"]
           /\ UNCHANGED <<res, allowedFor, out>>
  <2>1. "rebac_walk" \in Pcs \ {"idle", "done"}
    BY DEF Pcs
  <2>. QED  BY <1>0, <1>1, <1>4, <2>1, LocalMove DEF Read
<1>. QED  BY <1>2, <1>3, <1>4 DEF RebacDirect

LEMMA RebacWalkLocal ==
    ASSUME EngineInv, NEW p \in Procs, RebacWalk(p)
    PROVE  LocalStep(p)
<1>0. st \in StoreState /\ subj[p] \in Subjects /\ pc[p] = "rebac_walk"
  BY StepFacts DEF RebacWalk
<1>1. UNCHANGED <<st, ver, hist, cache, invVer, subj, walk>>
  BY DEF RebacWalk, storeVars
<1>2. CASE StoreErrors /\ Fail(p) /\ UNCHANGED <<res, reads, allowedFor>>
  BY <1>0, <1>1, <1>2, FailLocal
<1>3. CASE Read(p)
           /\ Decide(p, "rebac", IF st.path[subj[p]] THEN AllowResult ELSE NoRelationResult,
                     AfterRebac)
           /\ UNCHANGED out
  <2>1. (IF st.path[subj[p]] THEN AllowResult ELSE NoRelationResult) \in Built \cup {Nil}
    BY StepFacts
  <2>. QED  BY <1>0, <1>1, <1>3, <2>1, LocalDecide, AfterIn DEF StageSet, Read
<1>. QED  BY <1>2, <1>3 DEF RebacWalk

LEMMA AbacLocal ==
    ASSUME EngineInv, NEW p \in Procs, Abac(p)
    PROVE  LocalStep(p)
<1>0. st \in StoreState /\ subj[p] \in Subjects /\ pc[p] = "abac"
  BY StepFacts DEF Abac
<1>1. UNCHANGED <<st, ver, hist, cache, invVer, subj, walk>>
  BY DEF Abac, storeVars
<1>2. CASE StoreErrors /\ Fail(p) /\ UNCHANGED <<res, reads, allowedFor>>
  BY <1>0, <1>1, <1>2, FailLocal
<1>3. CASE Read(p) /\ Decide(p, "abac", AbacResult(st.abac[subj[p]]), "merge")
           /\ UNCHANGED out
  <2>1. AbacResult(st.abac[subj[p]]) \in Built \cup {Nil}
    BY <1>0, StepFacts DEF StoreState
  <2>. QED  BY <1>0, <1>1, <1>3, <2>1, LocalDecide, AfterIn DEF StageSet, Read
<1>. QED  BY <1>2, <1>3 DEF Abac

-----------------------------------------------------------------------------
(* The other steps.                                                        *)

\* Start: the goroutine leaves idle, with no result, for its subject.
LEMMA StartInv ==
    ASSUME EngineInv, NEW p \in Procs, NEW x \in Subjects, Start(p, x)
    PROVE  EngineInv'
<1>1. pc[p] = "idle" /\ res[p] = [g \in StageSet |-> Nil] /\ out[p] = Nil
  BY DEF Start, EngineInv, IdleClean, OutNil
<1>2. /\ pc' = [pc EXCEPT ![p] = "probe"] /\ subj' = [subj EXCEPT ![p] = x]
      /\ UNCHANGED <<st, ver, hist, cache, invVer, walk, res, reads, out, allowedFor>>
  BY DEF Start, storeVars
<1>3. TypeInv'
  BY <1>2 DEF EngineInv, TypeInv, Pcs
<1>4. IdleClean' /\ OutNil'
  BY <1>1, <1>2 DEF EngineInv, TypeInv, IdleClean, OutNil
<1>5. SlotsAllowed'
  BY <1>1, <1>2, BuiltFacts DEF EngineInv, TypeInv, SlotsAllowed, StageSet
<1>6. CacheAllowed' /\ AllowForSubject' /\ OutMerged'
  BY <1>1, <1>2 DEF EngineInv, TypeInv, CacheAllowed, AllowForSubject, OutMerged, Returned
<1>. QED  BY <1>3, <1>4, <1>5, <1>6 DEF EngineInv

\* Probe: a hit returns the entry under the subject's own key.
LEMMA ProbeInv ==
    ASSUME EngineInv, NEW p \in Procs, Probe(p)
    PROVE  EngineInv'
<1>0. /\ pc[p] = "probe"
      /\ UNCHANGED <<st, ver, hist, cache, invVer, subj, walk, res, reads, allowedFor>>
      /\ TypeInv
  BY DEF Probe, storeVars, EngineInv
<1>1. CASE CacheOn /\ subj[p] \in DOMAIN cache
  <2>. DEFINE c == cache[subj[p]]
  <2>1. pc' = [pc EXCEPT ![p] = "done"]
        /\ out' = [out EXCEPT ![p] = [res |-> c, cached |-> TRUE]]
    BY <1>1 DEF Probe
  <2>2. c \in Built /\ (c.allowed => subj[p] \in allowedFor)
    BY <1>0, <1>1 DEF EngineInv, TypeInv, CacheAllowed
  <2>3. TypeInv'
    <3>1. [res |-> c, cached |-> TRUE] \in [res : Built \cup {Err}, cached : BOOLEAN]
      BY <2>2
    <3>. QED  BY <1>0, <2>1, <3>1 DEF TypeInv, Pcs
  <2>4. IdleClean' /\ OutNil' /\ SlotsAllowed' /\ CacheAllowed'
    BY <1>0, <2>1 DEF EngineInv, TypeInv, IdleClean, OutNil, SlotsAllowed, CacheAllowed
  <2>5. AllowForSubject'
    BY <1>0, <2>1, <2>2 DEF EngineInv, TypeInv, AllowForSubject, Returned
  <2>6. OutMerged'
    BY <1>0, <2>1 DEF EngineInv, TypeInv, OutMerged, Returned
  <2>. QED  BY <2>3, <2>4, <2>5, <2>6 DEF EngineInv
<1>2. CASE ~(CacheOn /\ subj[p] \in DOMAIN cache)
  <2>1. pc' = [pc EXCEPT ![p] = AfterProbe] /\ out' = out
    BY <1>2 DEF Probe
  <2>2. AfterProbe \in Pcs \ {"idle", "done"}
    BY AfterIn
  <2>. QED  BY <1>0, <2>1, <2>2
            DEF EngineInv, TypeInv, IdleClean, OutNil, SlotsAllowed, CacheAllowed,
                AllowForSubject, OutMerged, Returned
<1>. QED  BY <1>1, <1>2

\* MergeAndSet: the merge of the slots is cached under the subject's key
\* and returned.
LEMMA MergeInv ==
    ASSUME EngineInv, NEW p \in Procs, MergeAndSet(p)
    PROVE  EngineInv'
<1>. DEFINE rb == res[p]["rbac"]
            re == res[p]["rebac"]
            ab == res[p]["abac"]
            m == MergeDecisions(rb, re, ab)
            x == subj[p]
<1>1. /\ pc[p] = "merge"
      /\ cache' = IF CacheOn
                  THEN [y \in DOMAIN cache \cup {x} |-> IF y = x THEN m ELSE cache[y]]
                  ELSE cache
      /\ pc' = [pc EXCEPT ![p] = "done"]
      /\ out' = [out EXCEPT ![p] = [res |-> m, cached |-> FALSE]]
      /\ UNCHANGED <<st, ver, hist, invVer, subj, walk, res, reads, allowedFor>>
  BY DEF MergeAndSet, storeVars
<1>2. TypeInv /\ x \in Subjects
  BY DEF EngineInv, TypeInv
<1>3. rb \in Built \cup {Nil} /\ re \in Built \cup {Nil} /\ ab \in Built \cup {Nil}
  BY <1>2 DEF TypeInv, StageSet
<1>4. m \in Built /\ (m.allowed => x \in allowedFor)
  <2>1. res[p] \in [StageSet -> Built \cup {Nil}]
    BY <1>2 DEF TypeInv
  <2>2. m \in Built /\ (m.allowed => \E g \in StageSet : m = res[p][g] /\ res[p][g] # Nil)
    BY <2>1, MergeSlots
  <2>3. \A g \in StageSet : res[p][g] # Nil /\ res[p][g].allowed => x \in allowedFor
    BY DEF EngineInv, SlotsAllowed
  <2>. QED  BY <2>2, <2>3
<1>5. \A y \in DOMAIN cache' :
         \/ y = x /\ cache'[y] = m
         \/ y \in DOMAIN cache /\ cache'[y] = cache[y]
  BY <1>1
<1>6. pc'[p] = "done" /\ out'[p] = [res |-> m, cached |-> FALSE]
      /\ \A q \in Procs \ {p} : pc'[q] = pc[q] /\ out'[q] = out[q]
  BY <1>1, <1>2 DEF TypeInv
<1>7. TypeInv'
  <2>1. [res |-> m, cached |-> FALSE] \in [res : Built \cup {Err}, cached : BOOLEAN]
    BY <1>4
  <2>2. \A y \in DOMAIN cache' : y \in Subjects /\ cache'[y] \in Built
    BY <1>2, <1>4, <1>5 DEF TypeInv
  <2>. QED  BY <1>1, <1>2, <2>1, <2>2 DEF TypeInv, Pcs
<1>8. IdleClean' /\ OutNil'
  BY <1>1, <1>6 DEF EngineInv, IdleClean, OutNil
<1>9. SlotsAllowed' /\ CacheAllowed'
  BY <1>1, <1>4, <1>5 DEF EngineInv, SlotsAllowed, CacheAllowed
<1>10. AllowForSubject'
  BY <1>1, <1>4, <1>6 DEF EngineInv, AllowForSubject, Returned
<1>11. OutMerged'
  BY <1>1, <1>6 DEF EngineInv, OutMerged, Returned
<1>. QED  BY <1>7, <1>8, <1>9, <1>10, <1>11 DEF EngineInv

\* Every administrative call leaves a well-typed store.
LEMMA MutationsTyped ==
    ASSUME NEW s \in StoreState
    PROVE  Mutations(s) \subseteq StoreState
<1>1. \A S, T, e : S \subseteq T /\ e \in T => Toggle(S, e) \subseteq T
  BY DEF Toggle
<1>2. ASSUME NEW x \in Subjects, NEW r \in Roles
      PROVE  [s EXCEPT !.asgG[x] = Toggle(@, r)] \in StoreState
  <2>1. Toggle(s.asgG[x], r) \subseteq Roles
    BY <1>1 DEF StoreState
  <2>. QED  BY <2>1 DEF StoreState
<1>15. ASSUME NEW x \in Subjects, NEW r \in Roles
       PROVE  [s EXCEPT !.asgR[x] = Toggle(@, r)] \in StoreState
  <2>1. Toggle(s.asgR[x], r) \subseteq Roles
    BY <1>1 DEF StoreState
  <2>. QED  BY <2>1 DEF StoreState
<1>3. ASSUME NEW r \in Roles, NEW pm \in Perms
      PROVE  [s EXCEPT !.perms[r] = Toggle(@, pm)] \in StoreState
  <2>1. Toggle(s.perms[r], pm) \subseteq Perms
    BY <1>1 DEF StoreState
  <2>. QED  BY <2>1 DEF StoreState
<1>4. \A r \in Roles, q \in Roles \cup {NoRole} : [s EXCEPT !.parent[r] = q] \in StoreState
  BY DEF StoreState
<1>5. \A pm \in Perms : [s EXCEPT !.permOK[pm] = ~@] \in StoreState
  BY DEF StoreState
<1>6. \A x \in Subjects : /\ [s EXCEPT !.direct[x] = ~@] \in StoreState
                         /\ [s EXCEPT !.path[x] = ~@] \in StoreState
  BY DEF StoreState
<1>7. \A x \in Subjects, v \in AbacVerdicts : [s EXCEPT !.abac[x] = v] \in StoreState
  BY DEF StoreState
<1>. SUFFICES ASSUME NEW t \in Mutations(s) PROVE t \in StoreState
  OBVIOUS
<1>8. CASE t \in {[s EXCEPT !.asgG[x] = Toggle(@, r)] : x \in Subjects, r \in Roles}
  BY <1>2, <1>8
<1>9. CASE t \in {[s EXCEPT !.asgR[x] = Toggle(@, r)] : x \in Subjects, r \in Roles}
  BY <1>15, <1>9
<1>10. CASE t \in {[s EXCEPT !.parent[r] = q] : r \in Roles, q \in Roles \cup {NoRole}}
  BY <1>4, <1>10
<1>11. CASE t \in {[s EXCEPT !.perms[r] = Toggle(@, pm)] : r \in Roles, pm \in Perms}
  BY <1>3, <1>11
<1>12. CASE t \in {[s EXCEPT !.permOK[pm] = ~@] : pm \in Perms}
  BY <1>5, <1>12
<1>13. CASE t \in {[s EXCEPT !.direct[x] = ~@] : x \in Subjects}
                  \cup {[s EXCEPT !.path[x] = ~@] : x \in Subjects}
  BY <1>6, <1>13
<1>14. CASE t \in {[s EXCEPT !.abac[x] = v] : x \in Subjects, v \in AbacVerdicts}
  BY <1>7, <1>14
<1>. QED  BY <1>8, <1>9, <1>10, <1>11, <1>12, <1>13, <1>14 DEF Mutations

\* Mutate: the store takes a new, well-typed version.
LEMMA MutateInv ==
    ASSUME EngineInv, Mutate
    PROVE  EngineInv'
<1>1. /\ ver < MaxVersion /\ ver' = ver + 1 /\ st' \in Mutations(st) /\ hist' = Append(hist, st')
      /\ UNCHANGED <<cache, invVer, pc, subj, walk, res, reads, out, allowedFor>>
  BY DEF Mutate, procVars
<1>2. st' \in StoreState
  BY <1>1, MutationsTyped DEF EngineInv, TypeInv
<1>3. hist' \in Seq(StoreState) /\ Len(hist') = ver' + 1
  BY <1>1, <1>2, AppendProperties DEF EngineInv, TypeInv
<1>4. TypeInv'
  <2>1. ver' \in 0..MaxVersion /\ 0..ver \subseteq 0..ver'
    BY <1>1 DEF EngineInv, TypeInv
  <2>2. invVer' \in [Subjects -> 0..ver'] /\ reads' \in [Procs -> SUBSET (0..ver')]
    BY <1>1, <2>1 DEF EngineInv, TypeInv
  <2>. QED  BY <1>1, <1>2, <1>3, <2>1, <2>2 DEF EngineInv, TypeInv
<1>. QED  BY <1>1, <1>4
            DEF EngineInv, IdleClean, OutNil, SlotsAllowed, CacheAllowed,
                AllowForSubject, OutMerged, Returned

\* Invalidate and Expire: a key leaves the cache.
LEMMA RemoveInv ==
    ASSUME EngineInv, NEW x \in Subjects,
           cache' = [y \in DOMAIN cache \ {x} |-> cache[y]],
           invVer' = invVer \/ invVer' = [invVer EXCEPT ![x] = ver],
           UNCHANGED <<st, ver, hist, pc, subj, walk, res, reads, out, allowedFor>>
    PROVE  EngineInv'
<1>1. TypeInv'
  <2>1. \A y \in DOMAIN cache' : y \in Subjects /\ cache'[y] \in Built
    BY DEF EngineInv, TypeInv
  <2>2. invVer' \in [Subjects -> 0..ver]
    <3>1. invVer \in [Subjects -> 0..ver] /\ ver \in 0..ver
      BY DEF EngineInv, TypeInv
    <3>2. CASE invVer' = invVer
      BY <3>1, <3>2
    <3>3. CASE invVer' = [invVer EXCEPT ![x] = ver]
      BY <3>1, <3>3
    <3>. QED  BY <3>2, <3>3
  <2>. QED  BY <2>1, <2>2 DEF EngineInv, TypeInv
<1>2. CacheAllowed'
  BY DEF EngineInv, CacheAllowed
<1>. QED  BY <1>1, <1>2 DEF EngineInv, IdleClean, OutNil, SlotsAllowed,
                           AllowForSubject, OutMerged, Returned

LEMMA NextInv == EngineInv /\ [Next]_vars => EngineInv'
<1> SUFFICES ASSUME EngineInv, [Next]_vars PROVE EngineInv'
  OBVIOUS
<1>1. CASE \E p \in Procs, x \in Subjects : Start(p, x)
  BY <1>1, StartInv
<1>2. CASE \E p \in Procs : Probe(p)
  BY <1>2, ProbeInv
<1>3. CASE \E p \in Procs : MergeAndSet(p)
  BY <1>3, MergeInv
<1>4. CASE \E p \in Procs :
             \/ RbacListGlobal(p) \/ RbacListResource(p) \/ RbacNextRoot(p)
             \/ RbacGetRole(p) \/ RbacListPerms(p) \/ RbacGetPerm(p)
             \/ RebacDirect(p) \/ RebacWalk(p) \/ Abac(p)
  <2>1. PICK p \in Procs :
             \/ RbacListGlobal(p) \/ RbacListResource(p) \/ RbacNextRoot(p)
             \/ RbacGetRole(p) \/ RbacListPerms(p) \/ RbacGetPerm(p)
             \/ RebacDirect(p) \/ RebacWalk(p) \/ Abac(p)
    BY <1>4
  <2>2. LocalStep(p)
    BY <2>1, ListGlobalLocal, ListResourceLocal, NextRootLocal, GetRoleLocal,
       ListPermsLocal, GetPermLocal, RebacDirectLocal, RebacWalkLocal, AbacLocal
  <2>. QED  BY <2>2, LocalInv
<1>5. CASE Mutate
  BY <1>5, MutateInv
<1>6. CASE \E x \in Subjects : Invalidate(x) \/ Expire(x)
  BY <1>6, RemoveInv DEF Invalidate, Expire, storeVars, procVars
<1>7. CASE UNCHANGED vars
  BY <1>7 DEF vars, EngineInv, TypeInv, IdleClean, OutNil, SlotsAllowed, CacheAllowed,
              AllowForSubject, OutMerged, Returned
<1>. QED  BY <1>1, <1>2, <1>3, <1>4, <1>5, <1>6, <1>7 DEF Next, Step

-----------------------------------------------------------------------------
(* The theorems.                                                           *)

(* Type correctness: the store and its history, the cache entries, every  *)
(* goroutine's locals and result slots (never an error, since a failing   *)
(* store call ends Check at once) and what Check returns are well typed,  *)
(* for every configuration.                                               *)
THEOREM EngineTypeCorrect == Spec => []TypeOK
<1>1. EngineInv => TypeOK
  <2> SUFFICES ASSUME EngineInv PROVE TypeOK
    OBVIOUS
  <2>1. Built \subseteq Result
    BY BuiltFacts
  <2>2. \A p \in Procs : \A g \in {"rbac", "rebac", "abac"} : res[p][g] \in Result \cup {Nil}
    BY <2>1 DEF EngineInv, TypeInv, StageSet
  <2>3. \A p \in Procs : out[p] = Nil \/ out[p] \in Outcome
    BY <2>1 DEF EngineInv, TypeInv, Outcome
  <2>. QED  BY <2>1, <2>2, <2>3 DEF EngineInv, TypeInv, TypeOK
<1>. QED  BY <1>1, InitInv, NextInv, PTL DEF Spec

(* Every allow a check returns, computed by the evaluators and merged or  *)
(* served from the cache, is an allow some evaluator computed for that    *)
(* very subject: the cache key and the merge never hand one subject       *)
(* another's allow, nor make an allow of denies.                          *)
THEOREM AllowForSubjectTheorem == Spec => []AllowForSubject
<1>1. EngineInv => AllowForSubject
  BY DEF EngineInv
<1>. QED  BY <1>1, InitInv, NextInv, PTL DEF Spec

(* An explicit deny of ABAC is never overridden: a computed result whose *)
(* ABAC slot holds the deny is that deny, whatever RBAC and ReBAC said.  *)
THEOREM ExplicitDenyTheorem == Spec => []ExplicitDenyWins
<1>1. EngineInv => ExplicitDenyWins
  <2> SUFFICES ASSUME EngineInv, NEW p \in Procs, Returned(p), ~out[p].cached,
                      res[p]["abac"] # Nil, res[p]["abac"].decision = "deny_explicit"
               PROVE  ~out[p].res.allowed
    BY DEF ExplicitDenyWins
  <2>1. out[p].res = res[p]["abac"]
    BY DEF EngineInv, OutMerged, MergeDecisions
  <2>2. res[p]["abac"] \in Built
    BY BuiltFacts DEF EngineInv, TypeInv, StageSet
  <2>. QED  BY <2>1, <2>2, BuiltFacts
<1>. QED  BY <1>1, InitInv, NextInv, PTL DEF Spec
=============================================================================
