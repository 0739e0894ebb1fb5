------------------------------- MODULE Cache -------------------------------
(***************************************************************************)
(* The in-memory check-result cache of warden (package cache, Memory):    *)
(* a map from a string key to (result, expiresAt) guarded by an RWMutex,  *)
(* with TTL expiry, a capacity bound, and invalidation by tenant and by   *)
(* subject.                                                                *)
(*                                                                         *)
(* Get runs in two critical sections: it reads the entry under the read   *)
(* lock, releases it, checks the expiry, and only then takes the write    *)
(* lock to delete an expired entry.  The model splits Get there; Set and  *)
(* the invalidations hold the write lock throughout and are atomic.       *)
(*                                                                         *)
(* Strings are sequences of characters, so the key built by cacheKey      *)
(* (fmt.Sprintf of six fields joined by ':') and the prefix tests of the   *)
(* invalidations are modelled by what they do.  Each entry also records,  *)
(* as a history field, the request whose result it holds.                 *)
(***************************************************************************)
EXTENDS Integers, Sequences, FiniteSets

CONSTANTS
    Chars,      \* characters the strings are made of
    Requests,   \* the check requests of the model, with their tenant
    Results,    \* check results (abstract values)
    Procs,      \* goroutines calling Get
    TTL,        \* Memory.ttl, in clock ticks
    MaxSize,    \* Memory.maxSize
    MaxTime     \* bound on the clock

Str == Seq(Chars)

Request == [tenant : Str, kind : Str, subject : Str, action : Str,
            rtype : Str, rid : Str]

ASSUME RequestsAssumption == Requests \subseteq Request /\ ":" \in Chars
ASSUME TTLAssumption == TTL \in Nat
ASSUME MaxSizeAssumption == MaxSize \in Int
ASSUME MaxTimeAssumption == MaxTime \in Nat

None == [none |-> TRUE]   \* no request / no invalidation

VARIABLES
    entries,   \* Memory.entries: key -> [result, expiresAt, origin]
    now,       \* the wall clock
    getPc,     \* per goroutine: idle, or about to delete an expired key
    served,    \* per goroutine: the last hit, [req, origin] or None
    lastInv    \* the last invalidation, reset by Set (history)

vars == <<entries, now, getPc, served, lastInv>>

-----------------------------------------------------------------------------
Colon == <<":">>

\* cacheKey: fmt.Sprintf("%s:%s:%s:%s:%s:%s", tenant, kind, id, action,
\* resource type, resource id).
CacheKey(r) ==
    r.tenant \o Colon \o r.kind \o Colon \o r.subject \o Colon \o
    r.action \o Colon \o r.rtype \o Colon \o r.rid

\* s starts with prefix p (the k[:len(p)] == p tests).
HasPrefix(s, p) == Len(s) >= Len(p) /\ SubSeq(s, 1, Len(p)) = p

\* InvalidateTenant: prefix tenantID + ":" and len(k) > len(prefix).
TenantHit(k, t) == LET p == t \o Colon IN Len(k) > Len(p) /\ HasPrefix(k, p)

\* Mutant: the subject prefix is built as tenant:id:kind:.
SubjectHitSwapped(k, t, kd, id) ==
    HasPrefix(k, t \o Colon \o id \o Colon \o kd \o Colon)

\* InvalidateSubject: prefix "tenant:kind:id:" and len(k) >= len(prefix).
SubjectHit(k, t, kd, id) ==
    HasPrefix(k, t \o Colon \o kd \o Colon \o id \o Colon)

Expired(k) == now > entries[k].expiresAt

\* Remove the keys in D from the map.
Without(f, D) == [k \in DOMAIN f \ D |-> f[k]]

Tenants == {r.tenant : r \in Requests}
Subjects == {<<r.tenant, r.kind, r.subject>> : r \in Requests}

-----------------------------------------------------------------------------
Init ==
    /\ entries = [k \in {} |-> None]
    /\ now = 0
    /\ getPc = [p \in Procs |-> [st |-> "idle"]]
    /\ served = [p \in Procs |-> None]
    /\ lastInv = None

\* Get, first critical section and the expiry test: a miss, a hit, or an
\* expired entry found (the delete comes in a second critical section).
GetRead(p, r) ==
    LET k == CacheKey(r) IN
    /\ getPc[p].st = "idle"
    /\ \/ /\ k \notin DOMAIN entries
          /\ served' = [served EXCEPT ![p] = None]
          /\ UNCHANGED getPc
       \/ /\ k \in DOMAIN entries
          /\ Expired(k)
          /\ getPc' = [getPc EXCEPT ![p] = [st |-> "expired", key |-> k]]
          /\ served' = [served EXCEPT ![p] = None]
       \/ /\ k \in DOMAIN entries
          /\ ~Expired(k)
          /\ served' = [served EXCEPT ![p] = [req |-> r, origin |-> entries[k].origin]]
          /\ UNCHANGED getPc
    /\ UNCHANGED <<entries, now, lastInv>>

\* Get, second critical section: delete(m.entries, key), whatever the
\* entry under the key is by now.
GetDelete(p) ==
    /\ getPc[p].st = "expired"
    /\ entries' = Without(entries, {getPc[p].key})
    /\ getPc' = [getPc EXCEPT ![p] = [st |-> "idle"]]
    /\ UNCHANGED <<now, served, lastInv>>

\* evictExpired: every entry past its expiry.
EvictExpired(f) == Without(f, {k \in DOMAIN f : now > f[k].expiresAt})

\* Mutant: at capacity only the expired entries are evicted.
MakeRoomNoEvictOne(f) ==
    IF Cardinality(DOMAIN f) < MaxSize THEN {f} ELSE {EvictExpired(f)}

\* The eviction of Set: at capacity (len >= maxSize) evict the expired
\* entries, and if still at capacity evictOne, which removes one arbitrary
\* entry (none when the map is empty).  The possible maps that remain.
MakeRoom(f) ==
    IF Cardinality(DOMAIN f) < MaxSize THEN {f}
    ELSE LET e == EvictExpired(f) IN
         IF Cardinality(DOMAIN e) < MaxSize \/ DOMAIN e = {}
         THEN {e}
         ELSE {Without(e, {d}) : d \in DOMAIN e}

\* Mutant: the expiry is computed as time.Now().Add(-ttl).
ExpiresAtPast == now - TTL

\* time.Now().Add(m.ttl)
ExpiresAt == now + TTL

\* Set: make room, then store the result with expiry now + ttl.
Set(r, res) ==
    LET k == CacheKey(r)
        new == [result |-> res, expiresAt |-> ExpiresAt, origin |-> r]
    IN
    /\ \E kept \in MakeRoom(entries) :
         entries' = [j \in DOMAIN kept \cup {k} |-> IF j = k THEN new ELSE kept[j]]
    /\ lastInv' = None
    /\ UNCHANGED <<now, getPc, served>>

InvalidateTenant(t) ==
    /\ entries' = Without(entries, {k \in DOMAIN entries : TenantHit(k, t)})
    /\ lastInv' = [tenant |-> t]
    /\ UNCHANGED <<now, getPc, served>>

InvalidateSubject(t, kd, id) ==
    /\ entries' = Without(entries, {k \in DOMAIN entries : SubjectHit(k, t, kd, id)})
    /\ lastInv' = [tenant |-> t, kind |-> kd, subject |-> id]
    /\ UNCHANGED <<now, getPc, served>>

Tick ==
    /\ now < MaxTime
    /\ now' = now + 1
    /\ UNCHANGED <<entries, getPc, served, lastInv>>

Next ==
    \/ \E p \in Procs, r \in Requests : GetRead(p, r)
    \/ \E p \in Procs : GetDelete(p)
    \/ \E r \in Requests, res \in Results : Set(r, res)
    \/ \E t \in Tenants : InvalidateTenant(t)
    \/ \E s \in Subjects : InvalidateSubject(s[1], s[2], s[3])
    \/ Tick

Spec == Init /\ [][Next]_vars

-----------------------------------------------------------------------------
Entry == [result : Results, expiresAt : Nat, origin : Requests]

TypeOK ==
    /\ DOMAIN entries \subseteq Str
    /\ \A k \in DOMAIN entries : entries[k] \in Entry
    /\ now \in 0..MaxTime
    /\ \A p \in Procs : getPc[p].st \in {"idle", "expired"}
    /\ \A p \in Procs : served[p] = None \/ served[p].origin \in Requests
    /\ lastInv = None \/ lastInv.tenant \in Tenants

(* The capacity bound of Set: the map never holds more than maxSize       *)
(* entries (one when maxSize is not positive), however Sets, expiries and *)
(* Get deletions interleave.                                               *)
CapacityBound ==
    Cardinality(DOMAIN entries) <= IF MaxSize < 1 THEN 1 ELSE MaxSize

(* The invalidations take effect: right after InvalidateTenant or         *)
(* InvalidateSubject, and until the next Set, no entry holds a result of  *)
(* the invalidated tenant or subject (the string-prefix tests on the keys *)
(* must cover every key cacheKey builds for it).                          *)
InvalidationTakesEffect ==
    lastInv # None =>
        \A k \in DOMAIN entries :
            LET o == entries[k].origin IN
            ~ /\ o.tenant = lastInv.tenant
              /\ "kind" \in DOMAIN lastInv =>
                    o.kind = lastInv.kind /\ o.subject = lastInv.subject

(* A hit serves the result stored for the same request: two requests     *)
(* never share a cache key (spec 4.10 keys the cache by the six fields).  *)
ServedOwnResult ==
    \A p \in Procs : served[p] # None => served[p].origin = served[p].req

=============================================================================
