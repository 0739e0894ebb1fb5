--------------------------- MODULE Cache_proofs ---------------------------
(* Proofs, for every value of the constants, that the in-memory cache    *)
(* never holds more than maxSize entries (one when maxSize is not         *)
(* positive): Set's evictExpired/evictOne make room before every insert,  *)
(* and every other operation only removes keys; and that InvalidateTenant *)
(* and InvalidateSubject remove every entry of the tenant or subject they *)
(* name, because their prefix tests match every key cacheKey builds.      *)
EXTENDS Cache, FiniteSetTheorems, SequenceTheorems, TLAPS

USE MaxSizeAssumption, RequestsAssumption, TTLAssumption, MaxTimeAssumption

\* The bound of CapacityBound.
Bound == IF MaxSize < 1 THEN 1 ELSE MaxSize

\* The inductive invariant: the key set is finite and within the bound.
IInv == IsFiniteSet(DOMAIN entries) /\ Cardinality(DOMAIN entries) <= Bound

\* Removing keys from a finite map keeps it finite and no larger.
LEMMA WithoutSmaller ==
    ASSUME NEW f, NEW D, IsFiniteSet(DOMAIN f)
    PROVE  /\ DOMAIN Without(f, D) = DOMAIN f \ D
           /\ IsFiniteSet(DOMAIN Without(f, D))
           /\ Cardinality(DOMAIN Without(f, D)) <= Cardinality(DOMAIN f)
<1>1. DOMAIN Without(f, D) = DOMAIN f \ D
  BY DEF Without
<1>. QED  BY <1>1, FS_Subset

\* Every map MakeRoom leaves room for one more key: after the insert the
\* map is within the bound, whichever entry evictOne removed.
LEMMA MakeRoomRoom ==
    ASSUME NEW f, IsFiniteSet(DOMAIN f), Cardinality(DOMAIN f) <= Bound,
           NEW kept \in MakeRoom(f), NEW k
    PROVE  /\ IsFiniteSet(DOMAIN kept \cup {k})
           /\ Cardinality(DOMAIN kept \cup {k}) <= Bound
<1>. DEFINE e == EvictExpired(f)
<1>1. IsFiniteSet(DOMAIN e) /\ Cardinality(DOMAIN e) <= Cardinality(DOMAIN f)
  BY WithoutSmaller DEF EvictExpired
<1>2. Cardinality(DOMAIN f) \in Nat /\ Cardinality(DOMAIN e) \in Nat
  BY <1>1, FS_CardinalityType
\* What is left after the eviction has room for one key.
<1>3. /\ IsFiniteSet(DOMAIN kept)
      /\ Cardinality(DOMAIN kept) \in Nat
      /\ Cardinality(DOMAIN kept) < Bound
  <2>1. CASE Cardinality(DOMAIN f) < MaxSize
    <3>1. kept = f  BY <2>1 DEF MakeRoom
    <3>. QED  BY <3>1, <2>1, <1>2 DEF Bound
  <2>2. CASE ~(Cardinality(DOMAIN f) < MaxSize) /\
             (Cardinality(DOMAIN e) < MaxSize \/ DOMAIN e = {})
    <3>1. kept = e  BY <2>2 DEF MakeRoom
    <3>2. CASE DOMAIN e = {}
      BY <3>1, <3>2, <1>1, <1>2, FS_EmptySet DEF Bound
    <3>3. CASE Cardinality(DOMAIN e) < MaxSize
      BY <3>1, <3>3, <1>1, <1>2 DEF Bound
    <3>. QED  BY <2>2, <3>2, <3>3
  <2>3. CASE ~(Cardinality(DOMAIN f) < MaxSize) /\
             ~(Cardinality(DOMAIN e) < MaxSize \/ DOMAIN e = {})
    <3>1. PICK d \in DOMAIN e : kept = Without(e, {d})
      BY <2>3 DEF MakeRoom
    <3>2. DOMAIN kept = DOMAIN e \ {d}
      BY <3>1 DEF Without
    <3>3. IsFiniteSet(DOMAIN kept) /\
          Cardinality(DOMAIN kept) = Cardinality(DOMAIN e) - 1
      BY <3>2, <1>1, FS_RemoveElement
    <3>4. Cardinality(DOMAIN kept) \in Nat
      BY <3>3, FS_CardinalityType
    <3>. QED  BY <3>3, <3>4, <1>1, <1>2 DEF Bound
  <2>. QED  BY <2>1, <2>2, <2>3
<1>4. /\ IsFiniteSet(DOMAIN kept \cup {k})
      /\ Cardinality(DOMAIN kept \cup {k}) \in Nat
      /\ Cardinality(DOMAIN kept \cup {k}) <= Cardinality(DOMAIN kept) + 1
  <2>1. /\ IsFiniteSet(DOMAIN kept \cup {k})
        /\ Cardinality(DOMAIN kept \cup {k}) =
           IF k \in DOMAIN kept THEN Cardinality(DOMAIN kept)
                                ELSE Cardinality(DOMAIN kept) + 1
    BY <1>3, FS_AddElement
  <2>2. Cardinality(DOMAIN kept \cup {k}) \in Nat
    BY <2>1, FS_CardinalityType
  <2>. QED  BY <2>1, <2>2, <1>3
<1>5. Bound \in Int
  BY DEF Bound
<1>. QED  BY <1>3, <1>4, <1>5

LEMMA InitIInv == Init => IInv
BY FS_EmptySet DEF Init, IInv, Bound

LEMMA NextIInv == IInv /\ [Next]_vars => IInv'
<1> SUFFICES ASSUME IInv, [Next]_vars PROVE IInv'
  OBVIOUS
\* The operations that only remove keys.
<1>1. ASSUME NEW D, entries' = Without(entries, D) PROVE IInv'
  <2>1. Cardinality(DOMAIN entries) \in Nat
    BY FS_CardinalityType DEF IInv
  <2>2. /\ IsFiniteSet(DOMAIN entries')
        /\ Cardinality(DOMAIN entries') <= Cardinality(DOMAIN entries)
    BY <1>1, WithoutSmaller DEF IInv
  <2>3. Cardinality(DOMAIN entries') \in Nat
    BY <2>2, FS_CardinalityType
  <2>4. Bound \in Int
    BY DEF Bound
  <2>. QED  BY <2>1, <2>2, <2>3, <2>4 DEF IInv
<1>2. CASE \E p \in Procs, r \in Requests : GetRead(p, r)
  BY <1>2 DEF GetRead, IInv
<1>3. CASE \E p \in Procs : GetDelete(p)
  BY <1>3, <1>1 DEF GetDelete
<1>4. CASE \E r \in Requests, res \in Results : Set(r, res)
  <2>1. PICK r \in Requests, res \in Results : Set(r, res)
    BY <1>4
  <2>2. PICK kept \in MakeRoom(entries) :
          entries' = [j \in DOMAIN kept \cup {CacheKey(r)} |->
                        IF j = CacheKey(r)
                        THEN [result |-> res, expiresAt |-> ExpiresAt, origin |-> r]
                        ELSE kept[j]]
    BY <2>1 DEF Set
  <2>3. DOMAIN entries' = DOMAIN kept \cup {CacheKey(r)}
    BY <2>2
  <2>. QED  BY <2>3, MakeRoomRoom DEF IInv
<1>5. CASE \E t \in Tenants : InvalidateTenant(t)
  BY <1>5, <1>1 DEF InvalidateTenant
<1>6. CASE \E s \in Subjects : InvalidateSubject(s[1], s[2], s[3])
  BY <1>6, <1>1 DEF InvalidateSubject
<1>7. CASE Tick
  BY <1>7 DEF Tick, IInv
<1>8. CASE UNCHANGED vars
  BY <1>8 DEF vars, IInv
<1>. QED  BY <1>2, <1>3, <1>4, <1>5, <1>6, <1>7, <1>8 DEF Next

(* Set's eviction keeps the cache within maxSize entries on every run:   *)
(* the CapacityBound invariant of the cache_memory run, for every TTL,    *)
(* maxSize, number of goroutines and set of requests.                      *)
THEOREM CapacityTheorem == Spec => []CapacityBound
<1>1. IInv => CapacityBound
  BY DEF IInv, CapacityBound, Bound
<1>. QED  BY <1>1, InitIInv, NextIInv, PTL DEF Spec

-----------------------------------------------------------------------------
(* The invalidations.                                                      *)

\* The strengthening: every entry sits under the key cacheKey builds for
\* the request whose result it holds.
KeyOK == \A k \in DOMAIN entries :
             entries[k].origin \in Requests /\ k = CacheKey(entries[k].origin)

InvInv == KeyOK /\ InvalidationTakesEffect

\* A string is a prefix of itself.
LEMMA PrefixSelf == ASSUME NEW p \in Str PROVE HasPrefix(p, p)
  BY SubSeqFull DEF HasPrefix, Str

\* Appending to a string keeps its prefixes.
LEMMA PrefixExtend ==
    ASSUME NEW a \in Str, NEW u \in Str, NEW p \in Str, HasPrefix(a, p)
    PROVE  HasPrefix(a \o u, p)
<1>1. Len(a \o u) = Len(a) + Len(u) /\ Len(p) <= Len(a) /\ Len(u) \in Nat
  BY ConcatProperties DEF HasPrefix, Str
<1>2. SubSeq(a \o u, 1, Len(p)) = SubSeq(a, 1, Len(p))
  <2>1. CASE Len(p) = 0
    BY <2>1, SubSeqEmpty
  <2>2. CASE Len(p) # 0
    BY <2>2, <1>1, SubSeqOfConcat1 DEF Str
  <2>. QED  BY <2>1, <2>2
<1>. QED  BY <1>1, <1>2 DEF HasPrefix

\* The length of a joined string.
LEMMA LenConcat ==
    ASSUME NEW a \in Str, NEW b \in Str
    PROVE  /\ a \o b \in Str
           /\ Len(a \o b) = Len(a) + Len(b)
           /\ Len(a) \in Nat /\ Len(b) \in Nat
  BY ConcatProperties, LenProperties DEF Str

\* The key of a request starts with "tenant:", followed by more, and with
\* "tenant:kind:id:": both invalidations match it.
LEMMA KeyHits ==
    ASSUME NEW r \in Request
    PROVE  TenantHit(CacheKey(r), r.tenant) /\ SubjectHit(CacheKey(r), r.tenant, r.kind, r.subject)
<1>. DEFINE p1 == r.tenant \o Colon
            q1 == p1 \o r.kind
            p2 == q1 \o Colon
            q2 == p2 \o r.subject
            p3 == q2 \o Colon
            k1 == p3 \o r.action
            k2 == k1 \o Colon
            k3 == k2 \o r.rtype
            k4 == k3 \o Colon
<1>1. Colon \in Str /\ Len(Colon) = 1
  BY DEF Colon, Str
<1>2. /\ r.tenant \in Str /\ r.kind \in Str /\ r.subject \in Str
      /\ r.action \in Str /\ r.rtype \in Str /\ r.rid \in Str
  BY DEF Request
<1>3. /\ p1 \in Str /\ q1 \in Str /\ p2 \in Str /\ q2 \in Str /\ p3 \in Str
      /\ k1 \in Str /\ k2 \in Str /\ k3 \in Str /\ k4 \in Str
  BY <1>1, <1>2, ConcatProperties DEF Str
<1>4. CacheKey(r) = k4 \o r.rid
  BY DEF CacheKey
\* Every step of the key keeps the prefixes before it.
<1>5. ASSUME NEW p \in Str, HasPrefix(p3, p) PROVE HasPrefix(CacheKey(r), p)
  BY <1>1, <1>2, <1>3, <1>4, <1>5, PrefixExtend
<1>6. HasPrefix(CacheKey(r), p3) /\ HasPrefix(CacheKey(r), p2)
  BY <1>1, <1>2, <1>3, <1>5, PrefixSelf, PrefixExtend
<1>7. HasPrefix(CacheKey(r), p1)
  BY <1>1, <1>2, <1>3, <1>5, PrefixSelf, PrefixExtend
<1>8. Len(CacheKey(r)) > Len(p1)
  <2>1. Len(CacheKey(r)) >= Len(p2)
    BY <1>6 DEF HasPrefix
  <2>2. Len(q1) = Len(p1) + Len(r.kind)
    BY <1>2, <1>3, LenConcat
  <2>3. Len(p2) = Len(q1) + Len(Colon)
    BY <1>1, <1>3, LenConcat
  <2>4. Len(r.kind) \in Nat /\ Len(p1) \in Nat
    BY <1>2, <1>3, LenConcat
  <2>5. Len(CacheKey(r)) \in Nat
    BY <1>2, <1>3, <1>4, LenConcat
  <2>. HIDE DEF p1, q1, p2
  <2>. QED  BY <1>1, <2>1, <2>2, <2>3, <2>4, <2>5
<1>. QED  BY <1>6, <1>7, <1>8 DEF TenantHit, SubjectHit

\* The entries an invalidation leaves, of a store whose keys are cacheKey
\* of their origins.
LEMMA KeptByInvalidation ==
    ASSUME KeyOK, NEW k \in DOMAIN entries
    PROVE  /\ TenantHit(k, entries[k].origin.tenant)
           /\ SubjectHit(k, entries[k].origin.tenant, entries[k].origin.kind,
                         entries[k].origin.subject)
  BY KeyHits DEF KeyOK

\* Set's eviction keeps some of the entries, unchanged.
LEMMA MakeRoomKeeps ==
    ASSUME NEW f, NEW kept \in MakeRoom(f)
    PROVE  \A j \in DOMAIN kept : j \in DOMAIN f /\ kept[j] = f[j]
<1>. DEFINE e == EvictExpired(f)
<1>1. \A j \in DOMAIN e : j \in DOMAIN f /\ e[j] = f[j]
  BY DEF EvictExpired, Without
<1>2. \/ kept = f
      \/ kept = e
      \/ \E d \in DOMAIN e : kept = Without(e, {d})
  BY DEF MakeRoom
<1>3. ASSUME NEW d, kept = Without(e, {d})
      PROVE  \A j \in DOMAIN kept : j \in DOMAIN f /\ kept[j] = f[j]
  BY <1>1, <1>3 DEF Without
<1>. QED  BY <1>1, <1>2, <1>3

LEMMA InitInv == Init => InvInv
  BY DEF Init, InvInv, KeyOK, InvalidationTakesEffect

LEMMA NextInv == InvInv /\ [Next]_vars => InvInv'
<1> SUFFICES ASSUME InvInv, [Next]_vars PROVE InvInv'
  OBVIOUS
\* Removing keys keeps the rest as it was.
<1>1. ASSUME NEW D, entries' = Without(entries, D), lastInv' = lastInv PROVE InvInv'
  BY <1>1 DEF Without, InvInv, KeyOK, InvalidationTakesEffect
<1>2. CASE \E p \in Procs, r \in Requests : GetRead(p, r)
  BY <1>2 DEF GetRead, InvInv, KeyOK, InvalidationTakesEffect
<1>3. CASE \E p \in Procs : GetDelete(p)
  BY <1>3, <1>1 DEF GetDelete
\* Set stores the new entry under its key, keeps some old ones, and resets
\* the history of invalidations.
<1>4. CASE \E r \in Requests, res \in Results : Set(r, res)
  <2>1. PICK r \in Requests, res \in Results : Set(r, res)
    BY <1>4
  <2>2. PICK kept \in MakeRoom(entries) :
          entries' = [j \in DOMAIN kept \cup {CacheKey(r)} |->
                        IF j = CacheKey(r)
                        THEN [result |-> res, expiresAt |-> ExpiresAt, origin |-> r]
                        ELSE kept[j]]
    BY <2>1 DEF Set
  <2>3. \A j \in DOMAIN kept : j \in DOMAIN entries /\ kept[j] = entries[j]
    BY MakeRoomKeeps
  <2>4. KeyOK'
    BY <2>2, <2>3 DEF InvInv, KeyOK
  <2>5. lastInv' = None
    BY <2>1 DEF Set
  <2>. QED  BY <2>4, <2>5 DEF InvInv, InvalidationTakesEffect
<1>5. CASE \E t \in Tenants : InvalidateTenant(t)
  <2>1. PICK t \in Tenants : InvalidateTenant(t)
    BY <1>5
  <2>2. /\ DOMAIN entries' = {k \in DOMAIN entries : ~TenantHit(k, t)}
        /\ \A k \in DOMAIN entries' : entries'[k] = entries[k]
        /\ lastInv' = [tenant |-> t]
    BY <2>1 DEF InvalidateTenant, Without
  <2>3. \A k \in DOMAIN entries' : entries'[k].origin.tenant # t
    BY <2>2, KeptByInvalidation DEF InvInv
  <2>. QED  BY <2>2, <2>3 DEF InvInv, KeyOK, InvalidationTakesEffect
<1>6. CASE \E s \in Subjects : InvalidateSubject(s[1], s[2], s[3])
  <2>1. PICK s \in Subjects : InvalidateSubject(s[1], s[2], s[3])
    BY <1>6
  <2>2. /\ DOMAIN entries' = {k \in DOMAIN entries : ~SubjectHit(k, s[1], s[2], s[3])}
        /\ \A k \in DOMAIN entries' : entries'[k] = entries[k]
        /\ lastInv' = [tenant |-> s[1], kind |-> s[2], subject |-> s[3]]
    BY <2>1 DEF InvalidateSubject, Without
  <2>3. \A k \in DOMAIN entries' :
           ~ /\ entries'[k].origin.tenant = s[1]
             /\ entries'[k].origin.kind = s[2]
             /\ entries'[k].origin.subject = s[3]
    BY <2>2, KeptByInvalidation DEF InvInv
  <2>. QED  BY <2>2, <2>3 DEF InvInv, KeyOK, InvalidationTakesEffect
<1>7. CASE Tick \/ UNCHANGED vars
  BY <1>7 DEF Tick, vars, InvInv, KeyOK, InvalidationTakesEffect, Expired
<1>. QED  BY <1>2, <1>3, <1>4, <1>5, <1>6, <1>7 DEF Next

(* InvalidateTenant and InvalidateSubject take effect on every run: until *)
(* the next Set, no entry holds a result of the tenant or subject they    *)
(* named, whatever strings the requests carry and however Gets, their   *)
(* expiry deletions and the clock interleave.                             *)
THEOREM InvalidationTheorem == Spec => []InvalidationTakesEffect
<1>1. InvInv => InvalidationTakesEffect
  BY DEF InvInv
<1>. QED  BY <1>1, InitInv, NextInv, PTL DEF Spec

-----------------------------------------------------------------------------
(* Type correctness.  TypeOK says nothing of the domains of getPc and     *)
(* served, which the EXCEPTs of Get need; CTypeInv adds them.              *)

CTypeInv == TypeOK /\ DOMAIN getPc = Procs /\ DOMAIN served = Procs

\* The key cacheKey builds from a request is a string.
LEMMA KeyInStr ==
    ASSUME NEW r \in Request
    PROVE  CacheKey(r) \in Str
<1>1. Colon \in Str
  BY DEF Colon, Str
<1>2. \A a, b \in Str : a \o b \in Str
  BY LenConcat
<1>. QED  BY <1>1, <1>2 DEF CacheKey, Request

LEMMA InitType == Init => CTypeInv
  BY DEF Init, CTypeInv, TypeOK, None

LEMMA NextType == CTypeInv /\ [Next]_vars => CTypeInv'
<1> SUFFICES ASSUME CTypeInv, [Next]_vars PROVE CTypeInv'
  OBVIOUS
<1>1. CASE \E p \in Procs, r \in Requests : GetRead(p, r)
  <2>1. PICK p \in Procs, r \in Requests : GetRead(p, r)
    BY <1>1
  <2>2. \A k \in DOMAIN entries : entries[k].origin \in Requests
    BY DEF CTypeInv, TypeOK, Entry
  <2>. QED  BY <2>1, <2>2 DEF GetRead, CTypeInv, TypeOK
<1>2. CASE \E p \in Procs : GetDelete(p)
  BY <1>2 DEF GetDelete, Without, CTypeInv, TypeOK
<1>3. CASE \E r \in Requests, res \in Results : Set(r, res)
  <2>1. PICK r \in Requests, res \in Results : Set(r, res)
    BY <1>3
  <2>2. PICK kept \in MakeRoom(entries) :
          entries' = [j \in DOMAIN kept \cup {CacheKey(r)} |->
                        IF j = CacheKey(r)
                        THEN [result |-> res, expiresAt |-> ExpiresAt, origin |-> r]
                        ELSE kept[j]]
    BY <2>1 DEF Set
  <2>3. \A j \in DOMAIN kept : j \in DOMAIN entries /\ kept[j] = entries[j]
    BY MakeRoomKeeps
  <2>4. CacheKey(r) \in Str
    BY KeyInStr
  <2>5. [result |-> res, expiresAt |-> ExpiresAt, origin |-> r] \in Entry
    BY DEF ExpiresAt, Entry, CTypeInv, TypeOK
  <2>. QED  BY <2>1, <2>2, <2>3, <2>4, <2>5 DEF Set, CTypeInv, TypeOK
<1>4. CASE \E t \in Tenants : InvalidateTenant(t)
  BY <1>4 DEF InvalidateTenant, Without, CTypeInv, TypeOK
<1>5. CASE \E s \in Subjects : InvalidateSubject(s[1], s[2], s[3])
  <2>1. PICK s \in Subjects : InvalidateSubject(s[1], s[2], s[3])
    BY <1>5
  <2>2. s[1] \in Tenants
    BY DEF Subjects, Tenants
  <2>. QED  BY <2>1, <2>2 DEF InvalidateSubject, Without, CTypeInv, TypeOK
<1>6. CASE Tick \/ UNCHANGED vars
  BY <1>6 DEF Tick, vars, CTypeInv, TypeOK
<1>. QED  BY <1>1, <1>2, <1>3, <1>4, <1>5, <1>6 DEF Next

(* Every state of the cache is well typed: its keys are strings, each     *)
(* entry holds a result, an expiry and the request it was stored for, and *)
(* a hit serves the recorded request of some entry, for every TTL,        *)
(* maxSize and set of requests.                                           *)
THEOREM CacheTypeCorrect == Spec => []TypeOK
<1>1. CTypeInv => TypeOK
  BY DEF CTypeInv
<1>. QED  BY <1>1, InitType, NextType, PTL DEF Spec
=============================================================================
