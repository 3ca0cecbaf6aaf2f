---------------------------- MODULE ShardProofs ----------------------------
(***************************************************************************)
(* What holds of every shard, whatever its budget, its keys, its clients   *)
(* and the interleaving of their calls.                                    *)
(***************************************************************************)
EXTENDS ShardContract, FiniteSetTheorems, TLAPS

Maps == [Key -> Entry \cup {NoEntry}]

-----------------------------------------------------------------------------
(* The operators the accounting is built from.                             *)

LEMMA EntryRamType ==
    ASSUME NEW k \in Key, NEW s \in Size
    PROVE  EntryRam(k, s) \in Nat \ {0} /\ EntryRam(k, s) <= MaxRam
BY KeyAssumption, SizeAssumption, MaxRamAssumption DEF EntryRam

LEMMA SlotsCardinality ==
    ASSUME NEW k \in Key, NEW e \in Entry
    PROVE  /\ IsFiniteSet(Slots(k, e))
           /\ Cardinality(Slots(k, e)) = EntryRam(k, e.size)
<1>1. EntryRam(k, e.size) \in Nat
  BY EntryRamType DEF Entry
<1>2. IsFiniteSet({k}) /\ Cardinality({k}) = 1
  BY FS_Singleton
<1>3. /\ IsFiniteSet(1..EntryRam(k, e.size))
      /\ Cardinality(1..EntryRam(k, e.size)) = EntryRam(k, e.size)
  BY <1>1, FS_Interval
<1> QED
  BY <1>1, <1>2, <1>3, FS_Product DEF Slots

LEMMA LiveFinite ==
    ASSUME NEW m \in Maps
    PROVE  IsFiniteSet(LiveIn(m)) /\ Cardinality(LiveIn(m)) \in Nat
<1>1. LiveIn(m) \in SUBSET Key
  BY DEF LiveIn
<1> QED
  BY <1>1, KeyAssumption, FS_Subset, FS_CardinalityType

LEMMA ResidentFinite ==
    ASSUME NEW m \in Maps
    PROVE  IsFiniteSet(ResidentIn(m)) /\ Cardinality(ResidentIn(m)) \in Nat
<1> DEFINE space == Key \X (1..MaxRam)
<1>1. IsFiniteSet(space)
  <2>1. IsFiniteSet(1..MaxRam)
    BY MaxRamAssumption, FS_Interval
  <2> QED
    BY <2>1, KeyAssumption, FS_Product
<1>2. ResidentIn(m) \in SUBSET space
  <2> SUFFICES ASSUME NEW k \in LiveIn(m), NEW s \in Slots(k, m[k])
               PROVE  s \in space
    BY DEF ResidentIn
  <2>1. k \in Key /\ m[k] \in Entry
    BY DEF LiveIn, Maps
  <2>2. EntryRam(k, m[k].size) \in Nat /\ EntryRam(k, m[k].size) <= MaxRam
    BY <2>1, EntryRamType DEF Entry
  <2> QED
    BY <2>1, <2>2, MaxRamAssumption DEF Slots
<1> QED
  BY <1>1, <1>2, FS_Subset, FS_CardinalityType

(* Emptying slot k takes exactly what k was charged off the total.         *)
LEMMA ResidentSplit ==
    ASSUME NEW m \in Maps, NEW k \in Key
    PROVE  LET rest == [m EXCEPT ![k] = NoEntry]
           IN  /\ Freed(k, m[k]) \in Nat
               /\ Cardinality(ResidentIn(m))
                     = Cardinality(ResidentIn(rest)) + Freed(k, m[k])
<1> DEFINE rest == [m EXCEPT ![k] = NoEntry]
<1>1. CASE m[k] = NoEntry
  <2>1. rest = m
    BY <1>1 DEF Maps
  <2> QED
    BY <1>1, <2>1, ResidentFinite DEF Freed
<1>2. CASE m[k] # NoEntry
  <2>1. rest \in Maps
    BY DEF Maps
  <2>2. m[k] \in Entry
    BY <1>2 DEF Maps
  <2>3. LiveIn(m) = LiveIn(rest) \cup {k} /\ k \notin LiveIn(rest)
    BY <1>2 DEF LiveIn, Maps
  <2>4. \A j \in LiveIn(rest) : rest[j] = m[j]
    BY <2>3 DEF LiveIn, Maps
  <2>5. ResidentIn(m) = ResidentIn(rest) \cup Slots(k, m[k])
    BY <2>3, <2>4 DEF ResidentIn
  <2>6. ResidentIn(rest) \cap Slots(k, m[k]) = {}
    BY <2>3 DEF ResidentIn, Slots
  <2>7. /\ IsFiniteSet(Slots(k, m[k]))
        /\ Cardinality(Slots(k, m[k])) = Freed(k, m[k])
        /\ Freed(k, m[k]) \in Nat
    BY <1>2, <2>2, SlotsCardinality, EntryRamType DEF Freed, Entry
  <2>8. IsFiniteSet(ResidentIn(rest)) /\ Cardinality(ResidentIn(rest)) \in Nat
    BY <2>1, ResidentFinite
  <2>9. Cardinality(ResidentIn(rest) \cap Slots(k, m[k])) = 0
    BY <2>6, FS_EmptySet
  <2>10. Cardinality(ResidentIn(rest) \cup Slots(k, m[k]))
           = Cardinality(ResidentIn(rest)) + Cardinality(Slots(k, m[k]))
               - Cardinality(ResidentIn(rest) \cap Slots(k, m[k]))
    BY <2>7, <2>8, FS_Union
  <2> QED
    BY <2>5, <2>7, <2>8, <2>9, <2>10
<1> QED
  BY <1>1, <1>2

LEMMA ResidentReplace ==
    ASSUME NEW m \in Maps, NEW k \in Key, NEW e \in Entry \cup {NoEntry}
    PROVE  /\ Freed(k, m[k]) \in Nat /\ Freed(k, e) \in Nat
           /\ Freed(k, m[k]) <= Cardinality(ResidentIn(m))
           /\ Cardinality(ResidentIn([m EXCEPT ![k] = e]))
                 = Cardinality(ResidentIn(m)) - Freed(k, m[k]) + Freed(k, e)
<1> DEFINE n == [m EXCEPT ![k] = e]
           rest == [m EXCEPT ![k] = NoEntry]
<1>1. n \in Maps /\ rest \in Maps /\ n[k] = e
  BY DEF Maps
<1>2. [n EXCEPT ![k] = NoEntry] = rest
  BY DEF Maps
<1>3. /\ Freed(k, e) \in Nat
      /\ Cardinality(ResidentIn(n)) = Cardinality(ResidentIn(rest)) + Freed(k, e)
  <2> HIDE DEF n, rest
  <2> QED  BY <1>1, <1>2, ResidentSplit
<1>4. /\ Freed(k, m[k]) \in Nat
      /\ Cardinality(ResidentIn(m)) = Cardinality(ResidentIn(rest)) + Freed(k, m[k])
  BY ResidentSplit
<1>5. Cardinality(ResidentIn(rest)) \in Nat
  BY <1>1, ResidentFinite
<1> HIDE DEF n, rest
<1>6. QED
  BY <1>3, <1>4, <1>5 DEF n

LEMMA ExpiringReplace ==
    ASSUME NEW m \in Maps, NEW k \in Key, NEW e \in Entry \cup {NoEntry}
    PROVE  /\ TtlFreed(m[k]) \in {0, 1} /\ TtlFreed(e) \in {0, 1}
           /\ Cardinality(ExpiringIn(m)) \in Nat
           /\ TtlFreed(m[k]) <= Cardinality(ExpiringIn(m))
           /\ Cardinality(ExpiringIn([m EXCEPT ![k] = e]))
                 = Cardinality(ExpiringIn(m)) - TtlFreed(m[k]) + TtlFreed(e)
<1> DEFINE n == [m EXCEPT ![k] = e]
           rest == ExpiringIn(m) \ {k}
<1>1. /\ IsFiniteSet(ExpiringIn(m)) /\ IsFiniteSet(rest)
      /\ Cardinality(ExpiringIn(m)) \in Nat /\ Cardinality(rest) \in Nat
  <2>1. ExpiringIn(m) \in SUBSET Key /\ rest \in SUBSET Key
    BY DEF ExpiringIn, LiveIn
  <2> QED
    BY <2>1, KeyAssumption, FS_Subset, FS_CardinalityType
<1>2. /\ k \in ExpiringIn(m) <=> TtlFreed(m[k]) = 1
      /\ TtlFreed(m[k]) \in {0, 1} /\ TtlFreed(e) \in {0, 1}
  BY DEF ExpiringIn, LiveIn, TtlFreed, HasTtl
<1>3. Cardinality(rest) = Cardinality(ExpiringIn(m)) - TtlFreed(m[k])
  BY <1>1, <1>2, FS_RemoveElement
<1>4. ExpiringIn(n) = IF TtlFreed(e) = 1 THEN rest \cup {k} ELSE rest
  <2>1. \A j \in Key : n[j] = IF j = k THEN e ELSE m[j]
    BY DEF Maps
  <2>2. k \in ExpiringIn(n) <=> TtlFreed(e) = 1
    BY <2>1 DEF ExpiringIn, LiveIn, TtlFreed, HasTtl
  <2>3. \A j \in Key \ {k} : j \in ExpiringIn(n) <=> j \in rest
    BY <2>1 DEF ExpiringIn, LiveIn
  <2>4. ExpiringIn(n) \subseteq Key /\ rest \subseteq Key
    BY DEF ExpiringIn, LiveIn
  <2> HIDE DEF n
  <2> QED  BY <2>2, <2>3, <2>4
<1>5. Cardinality(ExpiringIn(n)) = Cardinality(rest) + TtlFreed(e)
  <2>1. k \notin rest
    OBVIOUS
  <2>2. Cardinality(rest \cup {k}) = Cardinality(rest) + 1
    BY <1>1, <2>1, FS_AddElement
  <2> QED
    BY <1>1, <1>2, <1>4, <2>2
<1> QED
  BY <1>1, <1>2, <1>3, <1>5

-----------------------------------------------------------------------------
(* The inductive invariant, in named parts.                                *)

Mirror == bytes_hint = bytes /\ ttl_hint = ttl_keys

LockInv ==
    /\ \A t \in Thread : writer = t <=> pc[t] \in {"evict_round", "reap_drop"}
    /\ \A t \in Thread : t \in readers <=> pc[t] = "touch"
    /\ readers # {} => writer = Nobody
    /\ \A t \in Thread : pc[t] = "touch" => map[call[t].key] # NoEntry

Finite == \A t \in Thread : IsFiniteSet(removed[t])

Core == TypeOK /\ Mirror /\ Accounting /\ LockInv /\ Finite

LEMMA NoCallType == NoCall \in Call
BY KeyAssumption, SizeAssumption, TimeAssumption DEF NoCall, Call

LEMMA NowType == TypeOK => now_millis \in Nat
BY TimeAssumption DEF TypeOK, now_millis

(* Taking an entry out keeps the books.                                    *)
LEMMA EntryRemoved ==
    ASSUME TypeOK, Mirror, Accounting,
           NEW k \in Key, map[k] # NoEntry,
           RemoveEntry(k, HasTtl(map[k]))
    PROVE  /\ map' \in Maps
           /\ map' = [map EXCEPT ![k] = NoEntry]
           /\ bytes' \in Nat /\ ttl_keys' \in Nat
           /\ bytes' < bytes
           /\ Mirror' /\ Accounting'
<1>1. map \in Maps /\ map[k] \in Entry /\ map' = [map EXCEPT ![k] = NoEntry]
  BY DEF TypeOK, Maps, RemoveEntry
<1>2. map' \in Maps
  BY <1>1 DEF Maps
<1>3. Freed(k, NoEntry) = 0 /\ TtlFreed(NoEntry) = 0
  BY DEF Freed, TtlFreed
<1>4. /\ Freed(k, map[k]) = EntryRam(k, map[k].size)
      /\ TtlFreed(map[k]) = HasTtl(map[k])
  BY DEF Freed, TtlFreed
<1>5. EntryRam(k, map[k].size) \in Nat \ {0}
  BY <1>1, EntryRamType DEF Entry
<1>6. /\ EntryRam(k, map[k].size) <= bytes
      /\ Cardinality(ResidentIn(map')) = bytes - EntryRam(k, map[k].size)
  <2>1. /\ Freed(k, map[k]) <= Cardinality(ResidentIn(map))
        /\ Cardinality(ResidentIn([map EXCEPT ![k] = NoEntry]))
             = Cardinality(ResidentIn(map)) - Freed(k, map[k]) + Freed(k, NoEntry)
    BY <1>1, ResidentReplace
  <2>2. bytes = Cardinality(ResidentIn(map)) /\ bytes \in Nat
    BY DEF Accounting, Resident, TypeOK
  <2> QED
    BY <1>1, <1>3, <1>4, <1>5, <2>1, <2>2
<1>7. /\ HasTtl(map[k]) \in {0, 1} /\ HasTtl(map[k]) <= ttl_keys
      /\ Cardinality(ExpiringIn(map')) = ttl_keys - HasTtl(map[k])
  <2>1. /\ TtlFreed(map[k]) \in {0, 1}
        /\ TtlFreed(map[k]) <= Cardinality(ExpiringIn(map))
        /\ Cardinality(ExpiringIn([map EXCEPT ![k] = NoEntry]))
             = Cardinality(ExpiringIn(map)) - TtlFreed(map[k]) + TtlFreed(NoEntry)
    BY <1>1, ExpiringReplace
  <2>2. ttl_keys = Cardinality(ExpiringIn(map)) /\ ttl_keys \in Nat
    BY DEF Accounting, Expiring, TypeOK
  <2> QED
    BY <1>1, <1>3, <1>4, <2>1, <2>2
<1>8. /\ bytes' = bytes - EntryRam(k, map[k].size)
      /\ bytes_hint' = bytes'
  BY <1>5, <1>6 DEF RemoveEntry, SetBytes, saturating_sub, TypeOK
<1>9. ttl_keys' = ttl_keys - HasTtl(map[k]) /\ ttl_hint' = ttl_keys'
  BY <1>7 DEF RemoveEntry, AddTtlKeys, saturating_sub, TypeOK, Mirror
<1>10. bytes' \in Nat /\ ttl_keys' \in Nat /\ bytes' < bytes
  BY <1>5, <1>6, <1>7, <1>8, <1>9 DEF TypeOK
<1> QED
  BY <1>1, <1>2, <1>6, <1>7, <1>8, <1>9, <1>10
     DEF Mirror, Accounting, Resident, Expiring

(* So does the locked section of insert, whatever it overwrites.           *)
LEMMA EntryInserted ==
    ASSUME TypeOK, Mirror, Accounting, NEW t \in Thread, InsertLocked(t)
    PROVE  /\ map' \in Maps
           /\ bytes' \in Nat /\ ttl_keys' \in Nat
           /\ bytes' <= bytes + MaxRam
           /\ Mirror' /\ Accounting'
<1> DEFINE c == call[t]
           k == c.key
           e == [id |-> c.id, size |-> c.size, last_access |-> c.stamp,
                 expires_at |-> c.expires_at]
<1>1. c \in Call /\ k \in Key /\ map \in Maps
  BY DEF TypeOK, Call, Maps
<1>2. e \in Entry /\ e # NoEntry
  BY <1>1, NoEntryAssumption DEF Call, Entry
<1>3. map' = [map EXCEPT ![k] = e] /\ map' \in Maps
  BY <1>1, <1>2 DEF InsertLocked, Maps
<1>4. Freed(k, e) = EntryRam(k, c.size) /\ TtlFreed(e) = HasTtl(c)
  BY <1>2 DEF Freed, TtlFreed, HasTtl
<1>5. /\ EntryRam(k, c.size) \in Nat /\ EntryRam(k, c.size) <= MaxRam
      /\ MaxRam \in Nat
  BY <1>1, EntryRamType, MaxRamAssumption DEF Call
<1>6. /\ Freed(k, map[k]) \in Nat /\ Freed(k, map[k]) <= bytes
      /\ Cardinality(ResidentIn(map')) = bytes - Freed(k, map[k]) + EntryRam(k, c.size)
  <2> HIDE DEF e, k
  <2>1. /\ Freed(k, map[k]) \in Nat
        /\ Freed(k, map[k]) <= Cardinality(ResidentIn(map))
        /\ Cardinality(ResidentIn([map EXCEPT ![k] = e]))
             = Cardinality(ResidentIn(map)) - Freed(k, map[k]) + Freed(k, e)
    BY <1>1, <1>2, ResidentReplace
  <2>2. bytes = Cardinality(ResidentIn(map))
    BY DEF Accounting, Resident
  <2> QED
    BY <1>3, <1>4, <2>1, <2>2
<1>7. /\ TtlFreed(map[k]) \in {0, 1} /\ HasTtl(c) \in {0, 1}
      /\ TtlFreed(map[k]) <= ttl_keys
      /\ Cardinality(ExpiringIn(map')) = ttl_keys - TtlFreed(map[k]) + HasTtl(c)
  <2> HIDE DEF e, k
  <2>1. /\ TtlFreed(map[k]) \in {0, 1} /\ TtlFreed(e) \in {0, 1}
        /\ TtlFreed(map[k]) <= Cardinality(ExpiringIn(map))
        /\ Cardinality(ExpiringIn([map EXCEPT ![k] = e]))
             = Cardinality(ExpiringIn(map)) - TtlFreed(map[k]) + TtlFreed(e)
    BY <1>1, <1>2, ExpiringReplace
  <2>2. ttl_keys = Cardinality(ExpiringIn(map))
    BY DEF Accounting, Expiring
  <2> QED
    BY <1>3, <1>4, <2>1, <2>2
<1>8. /\ bytes' = bytes + EntryRam(k, c.size) - Freed(k, map[k])
      /\ bytes_hint' = bytes'
  BY DEF InsertLocked, SetBytes
<1>9. ttl_keys' = ttl_keys + HasTtl(c) - TtlFreed(map[k]) /\ ttl_hint' = ttl_keys'
  <2>1. AddTtlKeys(HasTtl(c) - TtlFreed(map[k]))
    BY DEF InsertLocked
  <2> HIDE DEF c, k
  <2> QED
    BY <2>1, <1>7 DEF AddTtlKeys, saturating_sub, TypeOK, Mirror
<1> HIDE DEF c, k, e
<1> QED
  BY <1>3, <1>5, <1>6, <1>7, <1>8, <1>9
     DEF Mirror, Accounting, Resident, Expiring, TypeOK

(* Storing a newer stamp moves no byte.                                    *)
LEMMA StampStored ==
    ASSUME TypeOK, Mirror, Accounting,
           NEW k \in Key, NEW n \in Nat, map[k] # NoEntry,
           map' = [map EXCEPT ![k].last_access = n],
           UNCHANGED <<bytes, ttl_keys, bytes_hint, ttl_hint>>
    PROVE  map' \in Maps /\ map'[k] # NoEntry /\ Mirror' /\ Accounting'
<1> DEFINE e == [map[k] EXCEPT !.last_access = n]
<1>1. map \in Maps /\ map[k] \in Entry
  BY DEF TypeOK, Maps
<1>2. /\ e \in Entry /\ e # NoEntry
      /\ e.size = map[k].size /\ e.expires_at = map[k].expires_at
  BY <1>1, NoEntryAssumption DEF Entry
<1>3. map' = [map EXCEPT ![k] = e] /\ map' \in Maps /\ map'[k] = e
  BY <1>1, <1>2 DEF Maps
<1>4. Freed(k, e) = Freed(k, map[k]) /\ TtlFreed(e) = TtlFreed(map[k])
  BY <1>2 DEF Freed, TtlFreed, HasTtl
<1> HIDE DEF e
<1>5. Cardinality(ResidentIn(map')) = Cardinality(ResidentIn(map))
  <2>1. /\ Freed(k, map[k]) \in Nat
        /\ Cardinality(ResidentIn([map EXCEPT ![k] = e]))
             = Cardinality(ResidentIn(map)) - Freed(k, map[k]) + Freed(k, e)
    BY <1>1, <1>2, ResidentReplace
  <2>2. Cardinality(ResidentIn(map)) \in Nat
    BY <1>1, ResidentFinite
  <2>3. ResidentIn(map') = ResidentIn([map EXCEPT ![k] = e])
    BY <1>3, Zenon
  <2> QED
    BY <1>4, <2>1, <2>2, <2>3
<1>6. Cardinality(ExpiringIn(map')) = Cardinality(ExpiringIn(map))
  <2>1. /\ TtlFreed(map[k]) \in {0, 1}
        /\ Cardinality(ExpiringIn(map)) \in Nat
        /\ Cardinality(ExpiringIn([map EXCEPT ![k] = e]))
             = Cardinality(ExpiringIn(map)) - TtlFreed(map[k]) + TtlFreed(e)
    BY <1>1, <1>2, ExpiringReplace
  <2>2. ExpiringIn(map') = ExpiringIn([map EXCEPT ![k] = e])
    BY <1>3, Zenon
  <2> QED
    BY <1>4, <2>1, <2>2
<1> QED
  BY <1>2, <1>3, <1>5, <1>6 DEF Mirror, Accounting, Resident, Expiring

-----------------------------------------------------------------------------
(* Core holds initially and every step preserves it.                       *)

LEMMA BooksUntouched ==
    ASSUME Mirror, Accounting, UNCHANGED shardVars
    PROVE  Mirror' /\ Accounting'
BY DEF Mirror, Accounting, shardVars, Resident, Expiring

LEMMA CoreInit == Init => Core
<1> SUFFICES ASSUME Init PROVE Core
  OBVIOUS
<1>1. TypeOK
  BY NoCallType DEF Init, TypeOK
<1>2. LiveIn(map) = {}
  BY DEF Init, LiveIn
<1>3. Resident = {} /\ Expiring = {}
  BY <1>2 DEF Resident, Expiring, ResidentIn, ExpiringIn
<1>4. Accounting
  BY <1>3, FS_EmptySet DEF Accounting, Init
<1>5. LockInv
  BY ThreadAssumption DEF Init, LockInv
<1>6. Finite /\ Mirror
  BY FS_EmptySet DEF Init, Finite, Mirror
<1> QED
  BY <1>1, <1>4, <1>5, <1>6 DEF Core

LEMMA CoreInsertBegin ==
    ASSUME Core, NEW t \in Thread, InsertBegin(t)
    PROVE  Core'
<1>1. UNCHANGED shardVars
  BY DEF InsertBegin
<1>2. TypeOK'
  <2>1. PICK k \in Key, sz \in Size, x \in Expiry :
          call' = [call EXCEPT ![t] =
                     [NoCall EXCEPT !.key = k, !.id = calls + 1, !.size = sz,
                                    !.expires_at = x, !.stamp = clock]]
    BY DEF InsertBegin
  <2>2. [NoCall EXCEPT !.key = k, !.id = calls + 1, !.size = sz,
                       !.expires_at = x, !.stamp = clock] \in Call
    <3>1. calls + 1 \in Nat /\ clock \in Nat
      BY DEF Core, TypeOK
    <3> QED
      BY NoCallType, <3>1 DEF Call
  <2>3. call' \in [Thread -> Call]
    BY <2>1, <2>2 DEF Core, TypeOK
  <2> QED
    BY <1>1, <2>3 DEF Core, TypeOK, shardVars, lockVars, histVars, InsertBegin, TakeStamp, Goto
<1>3. LockInv'
  BY <1>1, ThreadAssumption DEF Core, TypeOK, LockInv, shardVars, lockVars, histVars, InsertBegin, BeginCall, TakeStamp, Goto, Call
<1>4. Finite'
  BY DEF Core, Finite, InsertBegin, TypeOK
<1> QED
  BY <1>1, <1>2, <1>3, <1>4, BooksUntouched DEF Core

LEMMA CoreEvictHint ==
    ASSUME Core, NEW t \in Thread, EvictHint(t)
    PROVE  Core'
<1>1. UNCHANGED shardVars
  BY DEF EvictHint
<1>2. TypeOK'
  BY NoCallType, <1>1 DEF Core, TypeOK, shardVars, lockVars, histVars, EvictHint, Return, Goto
<1>3. LockInv'
  BY <1>1, ThreadAssumption DEF Core, TypeOK, LockInv, shardVars, lockVars, histVars, EvictHint, Return, Goto
<1>4. Finite'
  BY DEF Core, Finite, EvictHint, TypeOK
<1> QED
  BY <1>1, <1>2, <1>3, <1>4, BooksUntouched DEF Core

LEMMA CoreEvictLocked ==
    ASSUME Core, NEW t \in Thread, EvictLocked(t)
    PROVE  Core'
<1>1. UNCHANGED shardVars
  BY DEF EvictLocked
<1>2. TypeOK'
  BY NoCallType, NowType, LiveFinite, BudgetAssumption, <1>1 DEF Core, TypeOK, shardVars, lockVars, histVars, EvictLocked, Return, Goto, CanWrite, Rounds, Call
<1>3. LockInv'
  BY <1>1, ThreadAssumption DEF Core, TypeOK, LockInv, shardVars, lockVars, histVars, EvictLocked, Return, Goto, CanWrite, Rounds, Call
<1>4. Finite'
  BY DEF Core, Finite, EvictLocked, TypeOK
<1> QED
  BY <1>1, <1>2, <1>3, <1>4, BooksUntouched DEF Core

LEMMA CoreEvictUnlock ==
    ASSUME Core, NEW t \in Thread, EvictUnlock(t)
    PROVE  Core'
<1>1. UNCHANGED shardVars
  BY DEF EvictUnlock
<1>2. TypeOK'
  BY <1>1 DEF Core, TypeOK, shardVars, lockVars, histVars, EvictUnlock, Unlock, Goto
<1>3. LockInv'
  BY <1>1, ThreadAssumption DEF Core, TypeOK, LockInv, shardVars, lockVars, histVars, EvictUnlock, Unlock, Goto
<1>4. Finite'
  BY DEF Core, Finite, EvictUnlock, TypeOK
<1> QED
  BY <1>1, <1>2, <1>3, <1>4, BooksUntouched DEF Core

LEMMA CountedType ==
    ASSUME NEW s \in [hits : Nat, misses : Nat, evictions : Nat, expired : Nat],
           NEW f \in {"hits", "misses", "evictions", "expired"}, NEW n \in Nat
    PROVE  Counted(s, f, n) \in [hits : Nat, misses : Nat, evictions : Nat, expired : Nat]
BY DEF Counted

LEMMA CountType ==
    ASSUME Finite, NEW t \in Thread, NEW cause
    PROVE  DropCount(t, cause) \in Nat
<1>1. DropsBy(cause, removed[t]) \in SUBSET removed[t]
  BY DEF DropsBy
<1> QED
  BY <1>1, FS_Subset, FS_CardinalityType DEF Finite, DropCount

LEMMA CoreCountDrops ==
    ASSUME Core, NEW t \in Thread, CountDrops(t)
    PROVE  Core'
<1>1. UNCHANGED shardVars
  BY DEF CountDrops
<1>2. TypeOK'
  <2>1. DropCount(t, "Evicted") \in Nat /\ DropCount(t, "Expired") \in Nat
    BY CountType DEF Core
  <2>2. stats' \in [hits : Nat, misses : Nat, evictions : Nat, expired : Nat]
    BY <2>1, CountedType DEF Core, TypeOK, CountDrops
  <2>3. pc' = [pc EXCEPT ![t] = "idle"] \/ pc' = [pc EXCEPT ![t] = "notify"]
    BY DEF CountDrops, ReportAndReturn, Return, Goto
  <2>4. call' \in [Thread -> Call]
    BY NoCallType DEF Core, TypeOK, CountDrops, ReportAndReturn, Return
  <2> QED
    BY <1>1, <2>2, <2>3, <2>4 DEF Core, TypeOK, shardVars, lockVars, histVars, CountDrops
<1>3. LockInv'
  BY <1>1, ThreadAssumption DEF Core, TypeOK, LockInv, shardVars, lockVars, histVars, CountDrops, ReportAndReturn, Return, Goto
<1>4. Finite'
  BY DEF Core, Finite, CountDrops, TypeOK
<1> QED
  BY <1>1, <1>2, <1>3, <1>4, BooksUntouched DEF Core

LEMMA CoreNotify ==
    ASSUME Core, NEW t \in Thread, Notify(t)
    PROVE  Core'
<1>1. UNCHANGED shardVars
  BY DEF Notify
<1>2. TypeOK'
  BY NoCallType, <1>1 DEF Core, TypeOK, shardVars, lockVars, histVars, Notify, Return, Goto
<1>3. LockInv'
  BY <1>1, ThreadAssumption DEF Core, TypeOK, LockInv, shardVars, lockVars, histVars, Notify, Return, Goto
<1>4. Finite'
  <2>1. PICK d \in removed[t] : removed' = [removed EXCEPT ![t] = @ \ {d}]
    BY DEF Notify
  <2>2. IsFiniteSet(removed[t] \ {d})
    BY FS_RemoveElement DEF Core, Finite
  <2> QED
    BY <2>1, <2>2 DEF Core, Finite, TypeOK
<1> QED
  BY <1>1, <1>2, <1>3, <1>4, BooksUntouched DEF Core

LEMMA CoreLookupBegin ==
    ASSUME Core, NEW t \in Thread, LookupBegin(t)
    PROVE  Core'
<1>1. UNCHANGED shardVars
  BY DEF LookupBegin
<1>2. TypeOK'
  <2>1. PICK k \in Key :
          call' = [call EXCEPT ![t] = [NoCall EXCEPT !.key = k, !.now = now_millis]]
    BY DEF LookupBegin
  <2>2. [NoCall EXCEPT !.key = k, !.now = now_millis] \in Call
    BY NoCallType, NowType DEF Call, Core
  <2>3. call' \in [Thread -> Call]
    BY <2>1, <2>2 DEF Core, TypeOK
  <2> QED
    BY <1>1, <2>3 DEF Core, TypeOK, shardVars, lockVars, histVars, LookupBegin, Goto
<1>3. LockInv'
  BY <1>1, ThreadAssumption DEF Core, TypeOK, LockInv, shardVars, lockVars, histVars, LookupBegin, BeginCall, Goto, Call
<1>4. Finite'
  BY DEF Core, Finite, LookupBegin, TypeOK
<1> QED
  BY <1>1, <1>2, <1>3, <1>4, BooksUntouched DEF Core

LEMMA CoreLookupAbsent ==
    ASSUME Core, NEW t \in Thread, LookupAbsent(t)
    PROVE  Core'
<1>1. UNCHANGED shardVars
  BY DEF LookupAbsent
<1>2. TypeOK'
  BY <1>1 DEF Core, TypeOK, shardVars, lockVars, histVars, LookupAbsent, Goto
<1>3. LockInv'
  BY <1>1, ThreadAssumption DEF Core, TypeOK, LockInv, shardVars, lockVars, histVars, LookupAbsent, Goto
<1>4. Finite'
  BY DEF Core, Finite, LookupAbsent, TypeOK
<1> QED
  BY <1>1, <1>2, <1>3, <1>4, BooksUntouched DEF Core

LEMMA CoreLookupLive ==
    ASSUME Core, NEW t \in Thread, LookupLive(t)
    PROVE  Core'
<1>1. UNCHANGED shardVars
  BY DEF LookupLive
<1>2. TypeOK'
  <2>1. call[t] \in Call /\ map[call[t].key] \in Entry
    BY DEF Core, TypeOK, LookupLive, Call
  <2>2. [call[t] EXCEPT !.id = map[call[t].key].id, !.stamp = clock] \in Call
    BY <2>1 DEF Core, TypeOK, Call, Entry
  <2>3. call' \in [Thread -> Call]
    BY <2>2 DEF Core, TypeOK, LookupLive
  <2> QED
    BY <1>1, <2>3 DEF Core, TypeOK, shardVars, lockVars, histVars, LookupLive, TakeStamp, Goto
<1>3. LockInv'
  BY <1>1, ThreadAssumption DEF Core, TypeOK, LockInv, shardVars, lockVars, histVars, LookupLive, TakeStamp, Goto, CanRead, Call, Entry
<1>4. Finite'
  BY DEF Core, Finite, LookupLive, TypeOK
<1> QED
  BY <1>1, <1>2, <1>3, <1>4, BooksUntouched DEF Core

LEMMA CoreLookupStale ==
    ASSUME Core, NEW t \in Thread, LookupStale(t)
    PROVE  Core'
<1>1. UNCHANGED shardVars
  BY DEF LookupStale
<1>2. TypeOK'
  BY <1>1 DEF Core, TypeOK, shardVars, lockVars, histVars, LookupStale, Goto
<1>3. LockInv'
  BY <1>1, ThreadAssumption DEF Core, TypeOK, LockInv, shardVars, lockVars, histVars, LookupStale, Goto
<1>4. Finite'
  BY DEF Core, Finite, LookupStale, TypeOK
<1> QED
  BY <1>1, <1>2, <1>3, <1>4, BooksUntouched DEF Core

LEMMA CoreSlowGone ==
    ASSUME Core, NEW t \in Thread, SlowGone(t)
    PROVE  Core'
<1>1. UNCHANGED shardVars
  BY DEF SlowGone
<1>2. TypeOK'
  BY <1>1 DEF Core, TypeOK, shardVars, lockVars, histVars, SlowGone, Goto
<1>3. LockInv'
  BY <1>1, ThreadAssumption DEF Core, TypeOK, LockInv, shardVars, lockVars, histVars, SlowGone, Goto
<1>4. Finite'
  BY DEF Core, Finite, SlowGone, TypeOK
<1> QED
  BY <1>1, <1>2, <1>3, <1>4, BooksUntouched DEF Core

LEMMA CoreLookupHit ==
    ASSUME Core, NEW t \in Thread, LookupHit(t)
    PROVE  Core'
<1>1. UNCHANGED shardVars
  BY DEF LookupHit
<1>2. TypeOK'
  BY NoCallType, <1>1 DEF Core, TypeOK, shardVars, lockVars, histVars, LookupHit, Counted, Return, Goto
<1>3. LockInv'
  BY <1>1, ThreadAssumption DEF Core, TypeOK, LockInv, shardVars, lockVars, histVars, LookupHit, Counted, Return, Goto
<1>4. Finite'
  BY DEF Core, Finite, LookupHit, TypeOK
<1> QED
  BY <1>1, <1>2, <1>3, <1>4, BooksUntouched DEF Core

LEMMA CoreLookupMiss ==
    ASSUME Core, NEW t \in Thread, LookupMiss(t)
    PROVE  Core'
<1>1. UNCHANGED shardVars
  BY DEF LookupMiss
<1>2. TypeOK'
  BY NoCallType, <1>1 DEF Core, TypeOK, shardVars, lockVars, histVars, LookupMiss, Counted, Return, Goto
<1>3. LockInv'
  BY <1>1, ThreadAssumption DEF Core, TypeOK, LockInv, shardVars, lockVars, histVars, LookupMiss, Counted, Return, Goto
<1>4. Finite'
  BY DEF Core, Finite, LookupMiss, TypeOK
<1> QED
  BY <1>1, <1>2, <1>3, <1>4, BooksUntouched DEF Core

LEMMA CoreLookupExpired ==
    ASSUME Core, NEW t \in Thread, LookupExpired(t)
    PROVE  Core'
<1>1. UNCHANGED shardVars
  BY DEF LookupExpired
<1>2. TypeOK'
  <2>2. stats' \in [hits : Nat, misses : Nat, evictions : Nat, expired : Nat]
    BY CountedType DEF Core, TypeOK, LookupExpired
  <2>3. pc' = [pc EXCEPT ![t] = "idle"] \/ pc' = [pc EXCEPT ![t] = "notify"]
    BY DEF LookupExpired, ReportAndReturn, Return, Goto
  <2>4. call' \in [Thread -> Call]
    BY NoCallType DEF Core, TypeOK, LookupExpired, ReportAndReturn, Return
  <2> QED
    BY <1>1, <2>2, <2>3, <2>4 DEF Core, TypeOK, shardVars, lockVars, histVars, LookupExpired
<1>3. LockInv'
  BY <1>1, ThreadAssumption DEF Core, TypeOK, LockInv, shardVars, lockVars, histVars, LookupExpired, ReportAndReturn, Return, Goto
<1>4. Finite'
  BY DEF Core, Finite, LookupExpired, TypeOK
<1> QED
  BY <1>1, <1>2, <1>3, <1>4, BooksUntouched DEF Core

LEMMA CoreReapHint ==
    ASSUME Core, NEW t \in Thread, ReapHint(t)
    PROVE  Core'
<1>1. UNCHANGED shardVars
  BY DEF ReapHint
<1>2. TypeOK'
  BY <1>1 DEF Core, TypeOK, shardVars, lockVars, histVars, ReapHint, Goto
<1>3. LockInv'
  BY <1>1, ThreadAssumption DEF Core, TypeOK, LockInv, shardVars, lockVars, histVars, ReapHint, Goto
<1>4. Finite'
  BY DEF Core, Finite, ReapHint, TypeOK
<1> QED
  BY <1>1, <1>2, <1>3, <1>4, BooksUntouched DEF Core

LEMMA CoreReapClock ==
    ASSUME Core, NEW t \in Thread, ReapClock(t)
    PROVE  Core'
<1>1. UNCHANGED shardVars
  BY DEF ReapClock
<1>2. TypeOK'
  BY NowType, <1>1 DEF Core, TypeOK, shardVars, lockVars, histVars, ReapClock, Goto, Call
<1>3. LockInv'
  BY <1>1, ThreadAssumption DEF Core, TypeOK, LockInv, shardVars, lockVars, histVars, ReapClock, Goto, Call
<1>4. Finite'
  BY DEF Core, Finite, ReapClock, TypeOK
<1> QED
  BY <1>1, <1>2, <1>3, <1>4, BooksUntouched DEF Core

LEMMA CoreReapLocked ==
    ASSUME Core, NEW t \in Thread, ReapLocked(t)
    PROVE  Core'
<1>1. UNCHANGED shardVars
  BY DEF ReapLocked
<1>2. TypeOK'
  BY <1>1 DEF Core, TypeOK, shardVars, lockVars, histVars, ReapLocked, Goto, CanWrite
<1>3. LockInv'
  BY <1>1, ThreadAssumption DEF Core, TypeOK, LockInv, shardVars, lockVars, histVars, ReapLocked, Goto, CanWrite
<1>4. Finite'
  BY DEF Core, Finite, ReapLocked, TypeOK
<1> QED
  BY <1>1, <1>2, <1>3, <1>4, BooksUntouched DEF Core

LEMMA CoreReapUnlock ==
    ASSUME Core, NEW t \in Thread, ReapUnlock(t)
    PROVE  Core'
<1>1. UNCHANGED shardVars
  BY DEF ReapUnlock
<1>2. TypeOK'
  BY <1>1 DEF Core, TypeOK, shardVars, lockVars, histVars, ReapUnlock, Unlock, Goto
<1>3. LockInv'
  BY <1>1, ThreadAssumption DEF Core, TypeOK, LockInv, shardVars, lockVars, histVars, ReapUnlock, Unlock, Goto
<1>4. Finite'
  BY DEF Core, Finite, ReapUnlock, TypeOK
<1> QED
  BY <1>1, <1>2, <1>3, <1>4, BooksUntouched DEF Core

LEMMA DropRecorded ==
    ASSUME Core, NEW t \in Thread, NEW k \in Key, map[k] # NoEntry,
           NEW cause \in Causes, RecordDrop(t, k, cause)
    PROVE  /\ removed' \in [Thread -> SUBSET Drop] /\ drops' \subseteq Drop
           /\ Finite'
<1> DEFINE d == [id |-> map[k].id, key |-> k, cause |-> cause]
<1>1. d \in Drop
  BY DEF Core, TypeOK, Entry, Drop
<1>2. removed' = [removed EXCEPT ![t] = @ \cup {d}] /\ drops' = drops \cup {d}
  BY DEF RecordDrop
<1>3. IsFiniteSet(removed[t] \cup {d})
  BY FS_AddElement DEF Core, Finite
<1> HIDE DEF d
<1> QED
  BY <1>1, <1>2, <1>3 DEF Core, TypeOK, Finite

LEMMA CoreInsertLocked ==
    ASSUME Core, NEW t \in Thread, InsertLocked(t)
    PROVE  Core'
<1>1. map' \in Maps /\ bytes' \in Nat /\ ttl_keys' \in Nat /\ Mirror' /\ Accounting'
  BY EntryInserted DEF Core
<1>2. TypeOK'
  BY <1>1 DEF Core, TypeOK, Mirror, Maps, lockVars, histVars, InsertLocked, Goto
<1>3. LockInv'
  BY DEF Core, TypeOK, LockInv, lockVars, InsertLocked, CanWrite, Goto
<1>4. Finite'
  BY DEF Core, Finite, InsertLocked
<1> QED
  BY <1>1, <1>2, <1>3, <1>4 DEF Core

LEMMA CoreEvictRound ==
    ASSUME Core, NEW t \in Thread, EvictRound(t)
    PROVE  Core'
<1>1. PICK w \in Windows :
        LET dead == Dead(w, call[t].now)
        IN  \E k \in IF dead # {} THEN dead ELSE Oldest(w) :
              /\ RemoveEntry(k, HasTtl(map[k]))
              /\ RecordDrop(t, k, IF dead # {} THEN "Expired" ELSE "Evicted")
  BY DEF EvictRound
<1>2. PICK k \in w : /\ RemoveEntry(k, HasTtl(map[k]))
                     /\ \E cause \in Causes : RecordDrop(t, k, cause)
  BY <1>1 DEF Dead, Oldest, Causes
<1>3. k \in Key /\ map[k] # NoEntry
  BY <1>2 DEF Windows, Live, LiveIn
<1>4. map' \in Maps /\ bytes' \in Nat /\ ttl_keys' \in Nat /\ Mirror' /\ Accounting'
  BY <1>2, <1>3, EntryRemoved DEF Core
<1>5. removed' \in [Thread -> SUBSET Drop] /\ drops' \subseteq Drop /\ Finite'
  BY <1>2, <1>3, DropRecorded
<1>6. call' \in [Thread -> Call]
  BY DEF Core, TypeOK, EvictRound, OverBudget, Call
<1>7. TypeOK'
  BY <1>4, <1>5, <1>6 DEF Core, TypeOK, Mirror, Maps, lockVars, EvictRound
<1>8. LockInv'
  BY ThreadAssumption DEF Core, TypeOK, LockInv, lockVars, EvictRound
<1> QED
  BY <1>4, <1>5, <1>7, <1>8 DEF Core

LEMMA CoreLookupTouch ==
    ASSUME Core, NEW t \in Thread, LookupTouch(t)
    PROVE  Core'
<1>1. /\ call[t].key \in Key /\ call[t].stamp \in Nat
      /\ map[call[t].key] # NoEntry
  BY DEF Core, TypeOK, LockInv, Call, LookupTouch
<1>2. map' \in Maps /\ map'[call[t].key] # NoEntry /\ Mirror' /\ Accounting'
  BY <1>1, StampStored DEF Core, LookupTouch
<1>3. TypeOK'
  BY <1>2 DEF Core, TypeOK, Maps, histVars, LookupTouch, Goto
<1>4. \A k \in Key : map[k] # NoEntry => map'[k] # NoEntry
  BY <1>1, <1>2 DEF Core, TypeOK, LookupTouch
<1>5. LockInv'
  BY <1>4 DEF Core, TypeOK, LockInv, Call, LookupTouch, Goto
<1>6. Finite'
  BY DEF Core, Finite, LookupTouch
<1> QED
  BY <1>2, <1>3, <1>5, <1>6 DEF Core

LEMMA CoreSlowReplaced ==
    ASSUME Core, NEW t \in Thread, SlowReplaced(t)
    PROVE  Core'
<1>1. /\ call[t].key \in Key /\ clock \in Nat /\ map[call[t].key] \in Entry
      /\ map[call[t].key] # NoEntry
  BY DEF Core, TypeOK, Call, SlowReplaced
<1>2. map' \in Maps /\ Mirror' /\ Accounting'
  BY <1>1, StampStored DEF Core, SlowReplaced
<1>3. call' \in [Thread -> Call]
  BY <1>1 DEF Core, TypeOK, Call, Entry, SlowReplaced
<1>4. TypeOK'
  BY <1>2, <1>3 DEF Core, TypeOK, Maps, lockVars, histVars, SlowReplaced, TakeStamp, Goto
<1>5. LockInv'
  BY DEF Core, TypeOK, LockInv, lockVars, SlowReplaced, CanWrite, Goto
<1>6. Finite'
  BY DEF Core, Finite, SlowReplaced
<1> QED
  BY <1>2, <1>4, <1>5, <1>6 DEF Core

(* SlowRemove and ReapDrop pass 1 for the TTL of an entry they have seen   *)
(* expired: it has one.                                                    *)
LEMMA ExpiredHasTtl ==
    ASSUME NEW e, NEW now, IsExpired(e, now)
    PROVE  HasTtl(e) = 1
BY DEF IsExpired, HasTtl

LEMMA CoreSlowRemove ==
    ASSUME Core, NEW t \in Thread, SlowRemove(t)
    PROVE  Core'
<1> DEFINE k == call[t].key
<1>1. k \in Key /\ map[k] # NoEntry /\ RecordDrop(t, k, "Expired")
  BY DEF Core, TypeOK, Call, SlowRemove, StillDead
<1>2. RemoveEntry(k, HasTtl(map[k]))
  BY ExpiredHasTtl DEF SlowRemove, StillDead
<1>3. map' \in Maps /\ bytes' \in Nat /\ ttl_keys' \in Nat /\ Mirror' /\ Accounting'
  BY <1>1, <1>2, EntryRemoved DEF Core
<1>4. removed' \in [Thread -> SUBSET Drop] /\ drops' \subseteq Drop /\ Finite'
  BY <1>1, DropRecorded DEF Causes
<1>5. TypeOK'
  BY <1>3, <1>4 DEF Core, TypeOK, Mirror, Maps, lockVars, SlowRemove, Goto
<1>6. LockInv'
  BY DEF Core, TypeOK, LockInv, lockVars, SlowRemove, CanWrite, Goto
<1> QED
  BY <1>3, <1>4, <1>5, <1>6 DEF Core

LEMMA CoreReapDrop ==
    ASSUME Core, NEW t \in Thread, ReapDrop(t)
    PROVE  Core'
<1>1. PICK k \in Dead(Live, call[t].now) :
        RemoveEntry(k, 1) /\ RecordDrop(t, k, "Expired")
  BY DEF ReapDrop
<1>2. k \in Key /\ map[k] # NoEntry /\ RemoveEntry(k, HasTtl(map[k]))
  BY <1>1, ExpiredHasTtl DEF Dead, Live, LiveIn
<1>3. map' \in Maps /\ bytes' \in Nat /\ ttl_keys' \in Nat /\ Mirror' /\ Accounting'
  BY <1>2, EntryRemoved DEF Core
<1>4. removed' \in [Thread -> SUBSET Drop] /\ drops' \subseteq Drop /\ Finite'
  BY <1>1, <1>2, DropRecorded DEF Causes
<1>5. TypeOK'
  BY <1>3, <1>4 DEF Core, TypeOK, Mirror, Maps, lockVars, ReapDrop
<1>6. LockInv'
  BY ThreadAssumption DEF Core, TypeOK, LockInv, lockVars, ReapDrop
<1> QED
  BY <1>3, <1>4, <1>5, <1>6 DEF Core

LEMMA CoreRemove ==
    ASSUME Core, NEW t \in Thread, Remove(t)
    PROVE  Core'
<1>1. PICK k \in Key : IF map[k] = NoEntry THEN UNCHANGED shardVars
                       ELSE RemoveEntry(k, HasTtl(map[k]))
  BY DEF Remove
<1>2. map' \in Maps /\ bytes' \in Nat /\ ttl_keys' \in Nat /\ Mirror' /\ Accounting'
  <2>1. CASE map[k] = NoEntry
    BY <1>1, <2>1, BooksUntouched DEF Core, TypeOK, Maps, shardVars
  <2>2. CASE map[k] # NoEntry
    BY <1>1, <2>2, EntryRemoved DEF Core
  <2> QED
    BY <2>1, <2>2
<1>3. TypeOK'
  BY <1>2 DEF Core, TypeOK, Mirror, Maps, lockVars, Remove
<1>4. LockInv'
  BY DEF Core, TypeOK, LockInv, lockVars, Remove, CanWrite
<1>5. Finite'
  BY DEF Core, Finite, Remove
<1> QED
  BY <1>2, <1>3, <1>4, <1>5 DEF Core

LEMMA CoreTick ==
    ASSUME Core, Tick
    PROVE  Core'
<1>1. UNCHANGED shardVars
  BY DEF Tick
<1>2. TypeOK' /\ LockInv' /\ Finite'
  BY <1>1 DEF Core, TypeOK, LockInv, Finite, shardVars, lockVars, histVars, Tick
<1> QED
  BY <1>1, <1>2, BooksUntouched DEF Core

LEMMA CoreStutter ==
    ASSUME Core, UNCHANGED vars
    PROVE  Core'
<1>1. UNCHANGED shardVars
  BY DEF vars
<1>2. TypeOK' /\ LockInv' /\ Finite'
  BY <1>1 DEF Core, TypeOK, LockInv, Finite, shardVars, lockVars, histVars, vars
<1> QED
  BY <1>1, <1>2, BooksUntouched DEF Core

LEMMA CoreStep == Core /\ [Next]_vars => Core'
<1> SUFFICES ASSUME Core, [Next]_vars PROVE Core'
  OBVIOUS
<1>1. CASE UNCHANGED vars
  BY <1>1, CoreStutter
<1>2. CASE Tick
  BY <1>2, CoreTick
<1>3. ASSUME NEW t \in Thread, NewCall(t) PROVE Core'
  BY <1>3, CoreInsertBegin, CoreLookupBegin, CoreRemove DEF NewCall
<1>4. ASSUME NEW t \in Thread, Continue(t) PROVE Core'
  <2>1. CASE InsertLocked(t) \/ Evict(t) \/ CountDrops(t) \/ Notify(t)
    BY <2>1, CoreInsertLocked, CoreEvictHint, CoreEvictLocked, CoreEvictRound,
       CoreEvictUnlock, CoreCountDrops, CoreNotify DEF Evict
  <2>2. CASE Lookup(t)
    BY <2>2, CoreLookupAbsent, CoreLookupLive, CoreLookupTouch, CoreLookupStale,
       CoreSlowRemove, CoreSlowReplaced, CoreSlowGone, CoreLookupHit,
       CoreLookupMiss, CoreLookupExpired DEF Lookup
  <2>3. CASE Reap(t)
    BY <2>3, CoreReapHint, CoreReapClock, CoreReapLocked, CoreReapDrop,
       CoreReapUnlock DEF Reap
  <2> QED
    BY <1>4, <2>1, <2>2, <2>3 DEF Continue
<1> QED
  BY <1>1, <1>2, <1>3, <1>4 DEF Next

LEMMA CoreAlways == Spec => []Core
<1> QED
  BY CoreInit, CoreStep, PTL DEF Spec

(* Every variable keeps its type.                                          *)
THEOREM TypeCorrect == Spec => []TypeOK
BY CoreAlways, PTL DEF Core

(* The running counts of bytes and of expiring keys are what a walk of the *)
(* map would find, in every state of every shard: set_bytes and            *)
(* add_ttl_keys never drift (cache.rs:247-261).                            *)
THEOREM AccountingCorrect == Spec => []Accounting
BY CoreAlways, PTL DEF Core

-----------------------------------------------------------------------------
(* The budget.  A call that evicts has rounds enough to empty the shard,   *)
(* so it leaves the loop within budget, whatever it sampled.               *)

EvictPlaces == {"evict_hint", "evict_lock", "evict_round"}

RoundsInv ==
    \A t \in Thread : pc[t] = "evict_round" => call[t].rounds >= Cardinality(Live)

(* What every step of t does that is not part of a write: it stays out of  *)
(* evict_shard, charges nothing and disturbs no other thread's eviction.   *)
Elsewhere(t) ==
    /\ pc[t] \notin EvictPlaces /\ pc'[t] \notin EvictPlaces
    /\ \A u \in Thread \ {t} : pc'[u] = pc[u] /\ call'[u] = call[u]
    /\ bytes' <= bytes
    /\ map' = map \/ \A u \in Thread : pc[u] # "evict_round"

LEMMA ElsewhereNewCall ==
    ASSUME Core, NEW t \in Thread, NewCall(t)
    PROVE  Elsewhere(t)
<1>1. CASE InsertBegin(t)
  BY <1>1 DEF Core, TypeOK, shardVars, InsertBegin, BeginCall, Goto, Elsewhere, EvictPlaces
<1>2. CASE LookupBegin(t)
  BY <1>2 DEF Core, TypeOK, shardVars, LookupBegin, BeginCall, Goto, Elsewhere, EvictPlaces
<1>3. CASE Remove(t)
  <2>1. bytes' <= bytes
    <3>1. PICK k \in Key : IF map[k] = NoEntry THEN UNCHANGED shardVars
                           ELSE RemoveEntry(k, HasTtl(map[k]))
      BY <1>3 DEF Remove
    <3>2. CASE map[k] = NoEntry
      BY <3>1, <3>2 DEF Core, TypeOK, shardVars
    <3>3. CASE map[k] # NoEntry
      BY <3>1, <3>3, EntryRemoved DEF Core, TypeOK
    <3> QED
      BY <3>2, <3>3
  <2>2. \A u \in Thread : pc[u] # "evict_round"
    BY <1>3, ThreadAssumption DEF Core, LockInv, Remove, CanWrite
  <2> QED
    BY <1>3, <2>1, <2>2 DEF Remove, BeginCall, Elsewhere, EvictPlaces
<1> QED
  BY <1>1, <1>2, <1>3 DEF NewCall

LEMMA ElsewhereReport ==
    ASSUME Core, NEW t \in Thread, CountDrops(t) \/ Notify(t)
    PROVE  Elsewhere(t)
<1>1. UNCHANGED shardVars
  BY DEF CountDrops, Notify
<1>2. CASE CountDrops(t)
  BY <1>1, <1>2 DEF Core, TypeOK, shardVars, CountDrops, ReportAndReturn, Return,
     Goto, Elsewhere, EvictPlaces
<1>3. CASE Notify(t)
  BY <1>1, <1>3 DEF Core, TypeOK, shardVars, Notify, Return, Goto, Elsewhere, EvictPlaces
<1> QED
  BY <1>2, <1>3

LEMMA ElsewhereLookup ==
    ASSUME Core, NEW t \in Thread, Lookup(t)
    PROVE  Elsewhere(t)
<1> USE DEF Elsewhere, EvictPlaces, Goto
<1>1. CASE LookupAbsent(t) \/ LookupStale(t) \/ SlowGone(t)
  BY <1>1 DEF Core, TypeOK, shardVars, LookupAbsent, LookupStale, SlowGone
<1>2. CASE LookupLive(t)
  BY <1>2 DEF Core, TypeOK, shardVars, LookupLive
<1>3. CASE LookupTouch(t)
  <2>1. \A u \in Thread : pc[u] # "evict_round"
    BY <1>3, ThreadAssumption DEF Core, LockInv, LookupTouch
  <2> QED
    BY <1>3, <2>1 DEF Core, TypeOK, LookupTouch
<1>4. CASE SlowRemove(t)
  <2> DEFINE k == call[t].key
  <2>1. k \in Key /\ map[k] # NoEntry /\ RemoveEntry(k, HasTtl(map[k]))
    BY <1>4, ExpiredHasTtl DEF Core, TypeOK, Call, SlowRemove, StillDead
  <2>2. bytes' < bytes /\ bytes' \in Nat
    BY <2>1, EntryRemoved DEF Core
  <2>3. \A u \in Thread : pc[u] # "evict_round"
    BY <1>4, ThreadAssumption DEF Core, LockInv, SlowRemove, CanWrite
  <2> QED
    BY <1>4, <2>2, <2>3 DEF Core, TypeOK, SlowRemove
<1>5. CASE SlowReplaced(t)
  <2>1. \A u \in Thread : pc[u] # "evict_round"
    BY <1>5, ThreadAssumption DEF Core, LockInv, SlowReplaced, CanWrite
  <2> QED
    BY <1>5, <2>1 DEF Core, TypeOK, SlowReplaced
<1>6. CASE LookupHit(t) \/ LookupMiss(t) \/ LookupExpired(t)
  BY <1>6 DEF Core, TypeOK, shardVars, LookupHit, LookupMiss, LookupExpired,
     ReportAndReturn, Return
<1> QED
  BY <1>1, <1>2, <1>3, <1>4, <1>5, <1>6 DEF Lookup

LEMMA ElsewhereReap ==
    ASSUME Core, NEW t \in Thread, Reap(t)
    PROVE  Elsewhere(t)
<1> USE DEF Elsewhere, EvictPlaces, Goto
<1>1. CASE ReapHint(t) \/ ReapClock(t) \/ ReapLocked(t) \/ ReapUnlock(t)
  BY <1>1 DEF Core, TypeOK, shardVars, ReapHint, ReapClock, ReapLocked, ReapUnlock
<1>2. CASE ReapDrop(t)
  <2>1. PICK k \in Key : map[k] # NoEntry /\ RemoveEntry(k, HasTtl(map[k]))
    BY <1>2, ExpiredHasTtl DEF ReapDrop, Dead, Live, LiveIn
  <2>2. bytes' < bytes /\ bytes' \in Nat
    BY <2>1, EntryRemoved DEF Core
  <2>3. \A u \in Thread : pc[u] # "evict_round"
    BY <1>2, ThreadAssumption DEF Core, LockInv, ReapDrop
  <2> QED
    BY <1>2, <2>2, <2>3 DEF Core, TypeOK, ReapDrop
<1> QED
  BY <1>1, <1>2 DEF Reap

LEMMA WithinBudget ==
    ASSUME Core, RoundsInv, NEW t \in Thread, EvictUnlock(t)
    PROVE  bytes <= Capacity
<1>1. SUFFICES ASSUME bytes > Capacity PROVE FALSE
  BY BudgetAssumption DEF Core, TypeOK
<1>2. Live # {}
  <2> SUFFICES ASSUME Live = {} PROVE FALSE
    OBVIOUS
  <2>1. Resident = {}
    BY DEF Resident, ResidentIn, Live
  <2> QED
    BY <1>1, <2>1, FS_EmptySet, BudgetAssumption DEF Core, Accounting
<1>3. call[t].rounds \in Nat /\ call[t].rounds >= Cardinality(Live)
  BY DEF Core, TypeOK, Call, RoundsInv, EvictUnlock
<1>4. map \in Maps
  BY DEF Core, TypeOK, Maps
<1>5. IsFiniteSet(Live) /\ Cardinality(Live) \in Nat
  BY <1>4, LiveFinite DEF Live
<1>6. Cardinality(Live) # 0
  BY <1>2, <1>5, FS_EmptySet
<1> QED
  BY <1>1, <1>2, <1>3, <1>5, <1>6 DEF EvictUnlock, OverBudget

LEMMA RoundsKept ==
    ASSUME RoundsInv, NEW t \in Thread, Elsewhere(t)
    PROVE  RoundsInv'
BY DEF RoundsInv, Elsewhere, EvictPlaces, Live

LEMMA RoundsEvict ==
    ASSUME Core, RoundsInv, NEW t \in Thread, InsertLocked(t) \/ Evict(t)
    PROVE  RoundsInv'
<1>0. map \in Maps
  BY DEF Core, TypeOK, Maps
<1>1. CASE InsertLocked(t)
  <2>1. \A u \in Thread : pc[u] # "evict_round"
    BY <1>1, ThreadAssumption DEF Core, LockInv, InsertLocked, CanWrite
  <2> QED
    BY <1>1, <2>1 DEF Core, TypeOK, RoundsInv, InsertLocked, Goto
<1>2. CASE EvictHint(t)
  BY <1>2 DEF Core, TypeOK, RoundsInv, shardVars, Live, EvictHint, Return, Goto
<1>3. CASE EvictLocked(t)
  <2>1. Cardinality(Live) \in Nat /\ Live' = Live
    BY <1>0, <1>3, LiveFinite DEF Live, EvictLocked, shardVars
  <2>2. CASE bytes <= Capacity
    BY <1>3, <2>1, <2>2 DEF Core, TypeOK, RoundsInv, EvictLocked, Return, Goto
  <2>3. CASE ~(bytes <= Capacity)
    <3>1. Rounds >= Cardinality(Live)
      BY <2>1, BudgetAssumption DEF Rounds
    <3>2. call'[t].rounds = Rounds
      BY <1>3, <2>3 DEF Core, TypeOK, Call, EvictLocked
    <3>3. \A u \in Thread \ {t} : call'[u] = call[u] /\ pc'[u] = pc[u]
      BY <1>3, <2>3 DEF Core, TypeOK, EvictLocked, Goto
    <3> QED
      BY <2>1, <3>1, <3>2, <3>3 DEF RoundsInv
  <2> QED
    BY <2>2, <2>3
<1>4. CASE EvictRound(t)
  <2>1. PICK k \in Key : map[k] # NoEntry /\ map' = [map EXCEPT ![k] = NoEntry]
    BY <1>4 DEF EvictRound, Windows, Dead, Oldest, Live, LiveIn, RemoveEntry
  <2>2. Live' = Live \ {k} /\ k \in Live
    BY <1>0, <2>1 DEF Live, LiveIn, Maps
  <2>3. /\ IsFiniteSet(Live) /\ Cardinality(Live) \in Nat
        /\ Cardinality(Live') = Cardinality(Live) - 1
    BY <1>0, <2>2, LiveFinite, FS_RemoveElement DEF Live
  <2>4. /\ call[t].rounds \in Nat /\ call'[t].rounds = call[t].rounds - 1
        /\ call[t].rounds >= Cardinality(Live)
    BY <1>4 DEF Core, TypeOK, Call, RoundsInv, EvictRound
  <2>5. \A u \in Thread \ {t} : pc[u] # "evict_round" /\ pc'[u] = pc[u]
    BY <1>4, ThreadAssumption DEF Core, LockInv, EvictRound
  <2> QED
    BY <2>3, <2>4, <2>5 DEF RoundsInv
<1>5. CASE EvictUnlock(t)
  BY <1>5 DEF Core, TypeOK, RoundsInv, shardVars, Live, EvictUnlock, Goto
<1> QED
  BY <1>1, <1>2, <1>3, <1>4, <1>5 DEF Evict

LEMMA ThreadFinite == IsFiniteSet(Thread)
BY FiniteClients, FS_AddElement DEF Thread

LEMMA EvictingFinite ==
    IsFiniteSet(Evicting) /\ Cardinality(Evicting) \in Nat
<1>1. Evicting \in SUBSET Thread
  BY DEF Evicting
<1> QED
  BY <1>1, ThreadFinite, FS_Subset, FS_CardinalityType

LEMMA OverrunWithin ==
    ASSUME bytes' <= Capacity, bytes' \in Nat
    PROVE  BoundedOverrun'
<1>1. Cardinality(Evicting') \in Nat
  <2>1. Evicting' \in SUBSET Thread
    BY DEF Evicting
  <2> QED
    BY <2>1, ThreadFinite, FS_Subset, FS_CardinalityType
<1>2. MaxRam * Cardinality(Evicting') \in Nat
  BY <1>1, MaxRamAssumption
<1> QED
  BY <1>2, BudgetAssumption DEF BoundedOverrun

LEMMA OverrunKept ==
    ASSUME BoundedOverrun, Evicting' = Evicting, bytes' <= bytes,
           bytes \in Nat, bytes' \in Nat
    PROVE  BoundedOverrun'
<1>1. MaxRam * Cardinality(Evicting) \in Nat
  BY EvictingFinite, MaxRamAssumption
<1> QED
  BY <1>1, BudgetAssumption DEF BoundedOverrun

LEMMA OverrunStep ==
    ASSUME Core, Core', RoundsInv, BoundedOverrun, [Next]_vars
    PROVE  BoundedOverrun'
<1>0. bytes \in Nat /\ bytes' \in Nat
  BY DEF Core, TypeOK
<1>1. CASE UNCHANGED vars
  BY <1>0, <1>1, OverrunKept DEF vars, shardVars, Evicting
<1>2. CASE Tick
  BY <1>0, <1>2, OverrunKept DEF Tick, shardVars, Evicting
<1>3. ASSUME NEW t \in Thread, Elsewhere(t) PROVE BoundedOverrun'
  <2>1. Evicting' = Evicting
    BY <1>3 DEF Elsewhere, EvictPlaces, Evicting
  <2> QED
    BY <1>0, <1>3, <2>1, OverrunKept DEF Elsewhere
<1>4. ASSUME NEW t \in Thread, InsertLocked(t) PROVE BoundedOverrun'
  <2>1. Evicting' = Evicting \cup {t} /\ t \notin Evicting
    BY <1>4 DEF Core, TypeOK, InsertLocked, Goto, Evicting
  <2>2. Cardinality(Evicting') = Cardinality(Evicting) + 1
    BY <2>1, EvictingFinite, FS_AddElement
  <2>3. bytes' <= bytes + MaxRam
    BY <1>4, EntryInserted DEF Core
  <2>4. MaxRam * (Cardinality(Evicting) + 1) = MaxRam * Cardinality(Evicting) + MaxRam
    BY EvictingFinite, MaxRamAssumption
  <2>5. MaxRam * Cardinality(Evicting) \in Nat
    BY EvictingFinite, MaxRamAssumption
  <2> QED
    BY <1>0, <2>2, <2>3, <2>4, <2>5, MaxRamAssumption, BudgetAssumption
       DEF BoundedOverrun
<1>5. ASSUME NEW t \in Thread, EvictHint(t) \/ EvictLocked(t) PROVE BoundedOverrun'
  <2>1. bytes' = bytes
    BY <1>5 DEF EvictHint, EvictLocked, shardVars
  <2>2. CASE bytes <= Capacity
    BY <1>0, <2>1, <2>2, OverrunWithin
  <2>3. CASE ~(bytes <= Capacity)
    <3>1. Evicting' = Evicting
      BY <1>5, <2>3 DEF Core, TypeOK, Mirror, EvictHint, EvictLocked, Goto, Evicting
    <3> QED
      BY <1>0, <2>1, <3>1, OverrunKept
  <2> QED
    BY <2>2, <2>3
<1>6. ASSUME NEW t \in Thread, EvictRound(t) PROVE BoundedOverrun'
  <2>1. PICK k \in Key : map[k] # NoEntry /\ RemoveEntry(k, HasTtl(map[k]))
    BY <1>6 DEF EvictRound, Windows, Dead, Oldest, Live, LiveIn
  <2>2. bytes' <= bytes
    BY <1>0, <2>1, EntryRemoved DEF Core
  <2> QED
    BY <1>0, <1>6, <2>2, OverrunKept DEF EvictRound, Evicting
<1>7. ASSUME NEW t \in Thread, EvictUnlock(t) PROVE BoundedOverrun'
  <2>1. bytes' <= Capacity
    BY <1>7, WithinBudget DEF EvictUnlock, shardVars
  <2> QED
    BY <1>0, <2>1, OverrunWithin
<1>8. ASSUME NEW t \in Thread, Continue(t) PROVE BoundedOverrun'
  BY <1>8, <1>3, <1>4, <1>5, <1>6, <1>7, ElsewhereReport, ElsewhereLookup,
     ElsewhereReap DEF Continue, Evict
<1>9. ASSUME NEW t \in Thread, NewCall(t) PROVE BoundedOverrun'
  BY <1>9, <1>3, ElsewhereNewCall
<1> QED
  BY <1>1, <1>2, <1>8, <1>9 DEF Next

LEMMA RoundsStep ==
    ASSUME Core, RoundsInv, [Next]_vars
    PROVE  RoundsInv'
<1>1. CASE UNCHANGED vars
  BY <1>1 DEF vars, shardVars, RoundsInv, Live
<1>2. CASE Tick
  BY <1>2 DEF Tick, shardVars, RoundsInv, Live
<1>3. ASSUME NEW t \in Thread, NewCall(t) PROVE RoundsInv'
  BY <1>3, ElsewhereNewCall, RoundsKept
<1>4. ASSUME NEW t \in Thread, Continue(t) PROVE RoundsInv'
  BY <1>4, RoundsEvict, RoundsKept, ElsewhereReport, ElsewhereLookup,
     ElsewhereReap DEF Continue
<1> QED
  BY <1>1, <1>2, <1>3, <1>4 DEF Next

LEMMA BudgetInit == Init => RoundsInv /\ BoundedOverrun
<1> SUFFICES ASSUME Init PROVE RoundsInv /\ BoundedOverrun
  OBVIOUS
<1>1. RoundsInv
  BY DEF Init, RoundsInv
<1>2. MaxRam * Cardinality(Evicting) \in Nat
  BY EvictingFinite, MaxRamAssumption
<1> QED
  BY <1>1, <1>2, BudgetAssumption DEF Init, BoundedOverrun

LEMMA RoundsAlways == Spec => []RoundsInv
<1>1. Core /\ RoundsInv /\ [Next]_vars => RoundsInv'
  BY RoundsStep
<1> QED
  BY <1>1, BudgetInit, CoreAlways, PTL DEF Spec

(* A shard is over its budget by at most what the inserts now between      *)
(* their locked section and the end of evict_shard have added, for any     *)
(* number of clients, any key and value sizes and any sample; with none in *)
(* flight it is within it.                                                 *)
THEOREM OverrunBounded == Spec => []BoundedOverrun
<1>1. Core /\ Core' /\ RoundsInv /\ BoundedOverrun /\ [Next]_vars => BoundedOverrun'
  BY OverrunStep
<1> QED
  BY <1>1, BudgetInit, CoreAlways, RoundsAlways, PTL DEF Spec

-----------------------------------------------------------------------------
(* Entries, drops and reports: who holds which write, and which stamp.     *)

(* A write is in at most one place: resident, dropped, or still with the   *)
(* put that brings it.                                                     *)
IdInv ==
    /\ \A k \in Live : map[k].id \in 1..calls
    /\ \A j, k \in Live : map[j].id = map[k].id => j = k
    /\ \A d \in drops : d.id \in 1..calls
    /\ \A d \in drops, k \in Live : map[k].id # d.id
    /\ \A c, d \in drops : c.id = d.id => c = d
    /\ \A t \in Thread : pc[t] = "insert" =>
          /\ call[t].id \in 1..calls
          /\ \A k \in Live : map[k].id # call[t].id
          /\ \A d \in drops : d.id # call[t].id
          /\ \A u \in Thread \ {t} : pc[u] = "insert" => call[u].id # call[t].id

(* Where a thread holds a stamp it has taken and not stored yet.           *)
Stamped == {"insert", "touch"}

(* Every stamp, stored or still held, was taken from the counter once.     *)
StampInv ==
    /\ \A k \in Live : map[k].last_access < clock
    /\ DistinctStamps
    /\ \A t \in Thread : pc[t] \in Stamped =>
          /\ call[t].stamp < clock
          /\ \A k \in Live : map[k].last_access # call[t].stamp
          /\ \A u \in Thread \ {t} : pc[u] \in Stamped => call[u].stamp # call[t].stamp

(* Where a thread holds drops it has not added to the counters yet, and    *)
(* where it holds drops it has not reported yet.                           *)
Counting == {"evict_round", "reap_drop", "count", "expired"}
Holding == Counting \cup {"notify"}

(* A drop is with the thread that made it until the listener has it, and a *)
(* lookup that buried an entry holds that one.                             *)
HandoverInv ==
    /\ drops = reported \cup UNION {removed[t] : t \in Thread}
    /\ \A t \in Thread : removed[t] \cap reported = {}
    /\ \A s, t \in Thread : s # t => removed[s] \cap removed[t] = {}
    /\ \A t \in Thread : removed[t] # {} => pc[t] \in Holding
    /\ \A t \in Thread : pc[t] = "expired" =>
          \A c, d \in removed[t] : c = d /\ c.cause = "Expired"

CountInv == IsFiniteSet(drops) /\ CountersCoverDrops

(* A step that neither writes an entry, nor takes or stores a stamp, nor   *)
(* drops or reports anything.                                              *)
Quiet(t) ==
    /\ map' = map /\ clock' = clock
    /\ calls' \in Nat /\ calls <= calls'
    /\ drops' = drops /\ removed' = removed /\ reported' = reported
    /\ \A u \in Thread \ {t} : pc'[u] = pc[u] /\ call'[u] = call[u]
    /\ pc'[t] \notin Stamped
    /\ removed[t] # {} => pc'[t] \in Holding
    /\ pc'[t] = "expired" => removed[t] = {}

LEMMA QuietStep ==
    ASSUME Core, NEW t \in Thread, Quiet(t), IdInv, StampInv, HandoverInv
    PROVE  IdInv' /\ StampInv' /\ HandoverInv'
<1>1. Live' = Live
  BY DEF Quiet, Live, LiveIn
<1>2. IdInv'
  <2>1. calls \in Nat
    BY DEF Core, TypeOK
  <2> QED
    BY <1>1, <2>1 DEF Quiet, IdInv, Stamped
<1>3. StampInv'
  BY <1>1 DEF Quiet, StampInv, DistinctStamps, Stamped
<1>4. HandoverInv'
  BY DEF Quiet, HandoverInv, Holding, Counting
<1> QED
  BY <1>2, <1>3, <1>4

LEMMA QuietEvict ==
    ASSUME Core, HandoverInv, NEW t \in Thread,
           EvictHint(t) \/ EvictLocked(t) \/ EvictUnlock(t)
    PROVE  Quiet(t)
<1> USE DEF Core, TypeOK, HandoverInv, Quiet, Goto, Return, shardVars, histVars, Stamped,
            Holding, Counting
<1>1. CASE EvictHint(t)
  BY <1>1 DEF EvictHint
<1>2. CASE EvictLocked(t)
  BY <1>2 DEF EvictLocked
<1>3. CASE EvictUnlock(t)
  BY <1>3 DEF EvictUnlock
<1> QED
  BY <1>1, <1>2, <1>3

LEMMA QuietLookupBegin ==
    ASSUME Core, HandoverInv, NEW t \in Thread, LookupBegin(t)
    PROVE  Quiet(t)
<1>1. /\ map' = map /\ clock' = clock /\ calls' = calls + 1 /\ calls \in Nat
      /\ drops' = drops /\ removed' = removed /\ reported' = reported
      /\ pc[t] = "idle"
  BY DEF Core, TypeOK, LookupBegin, BeginCall, shardVars
<1>2. \A u \in Thread \ {t} : pc'[u] = pc[u] /\ call'[u] = call[u]
  BY DEF Core, TypeOK, LookupBegin, Goto
<1>3. pc'[t] = "lookup"
  BY DEF Core, TypeOK, LookupBegin, Goto
<1> QED
  BY <1>1, <1>2, <1>3 DEF HandoverInv, Quiet, Stamped, Holding, Counting

LEMMA QuietLookup ==
    ASSUME Core, HandoverInv, NEW t \in Thread,
           \/ LookupAbsent(t) \/ LookupStale(t) \/ SlowGone(t)
           \/ LookupHit(t) \/ LookupMiss(t) \/ LookupExpired(t)
    PROVE  Quiet(t)
<1> USE DEF Core, TypeOK, HandoverInv, Quiet, Goto, shardVars, histVars, Stamped,
            Holding, Counting
<1>2. CASE LookupAbsent(t)
  BY <1>2 DEF LookupAbsent
<1>3. CASE LookupStale(t)
  BY <1>3 DEF LookupStale
<1>4. CASE SlowGone(t)
  BY <1>4 DEF SlowGone
<1>5. CASE LookupHit(t) \/ LookupMiss(t)
  BY <1>5 DEF LookupHit, LookupMiss, Return
<1>6. CASE LookupExpired(t)
  BY <1>6 DEF LookupExpired, ReportAndReturn, Return
<1> QED
  BY <1>2, <1>3, <1>4, <1>5, <1>6

LEMMA QuietReap ==
    ASSUME Core, HandoverInv, NEW t \in Thread,
           ReapHint(t) \/ ReapClock(t) \/ ReapLocked(t) \/ ReapUnlock(t) \/ CountDrops(t)
    PROVE  Quiet(t)
<1> USE DEF Core, TypeOK, HandoverInv, Quiet, Goto, shardVars, histVars, Stamped,
            Holding, Counting
<1>1. CASE ReapHint(t)
  BY <1>1 DEF ReapHint
<1>2. CASE ReapClock(t)
  BY <1>2 DEF ReapClock
<1>3. CASE ReapLocked(t)
  BY <1>3 DEF ReapLocked
<1>4. CASE ReapUnlock(t)
  BY <1>4 DEF ReapUnlock
<1>5. CASE CountDrops(t)
  BY <1>5 DEF CountDrops, ReportAndReturn, Return
<1> QED
  BY <1>1, <1>2, <1>3, <1>4, <1>5

(* A step that drops entry k.                                              *)
Dropping(t, k, cause) ==
    /\ map[k] # NoEntry /\ map' = [map EXCEPT ![k] = NoEntry]
    /\ RecordDrop(t, k, cause)
    /\ clock' = clock /\ calls' = calls /\ reported' = reported
    /\ \A u \in Thread \ {t} : pc'[u] = pc[u] /\ call'[u] = call[u]
    /\ pc'[t] \in Counting
    /\ pc'[t] = "expired" => removed[t] = {} /\ cause = "Expired"

LEMMA DroppingStep ==
    ASSUME Core, NEW t \in Thread, NEW k \in Key, NEW cause \in Causes,
           Dropping(t, k, cause), IdInv, StampInv, HandoverInv
    PROVE  IdInv' /\ StampInv' /\ HandoverInv'
<1> DEFINE d == [id |-> map[k].id, key |-> k, cause |-> cause]
<1>1. map \in Maps /\ k \in Live
  BY DEF Core, TypeOK, Maps, Dropping, Live, LiveIn
<1>2. Live' = Live \ {k} /\ \A j \in Live' : map'[j] = map[j]
  BY <1>1 DEF Dropping, Live, LiveIn, Maps
<1>3. /\ drops' = drops \cup {d}
      /\ removed' = [removed EXCEPT ![t] = @ \cup {d}]
      /\ d.id = map[k].id /\ d.cause = cause
  BY DEF Dropping, RecordDrop
<1>4. \A u \in Thread \ {t} : removed'[u] = removed[u]
  BY <1>3 DEF Core, TypeOK
<1>5. removed'[t] = removed[t] \cup {d}
  BY <1>3 DEF Core, TypeOK
<1>6. d \notin drops
  BY <1>1, <1>3 DEF IdInv
<1> HIDE DEF d
<1>7. IdInv'
  BY <1>1, <1>2, <1>3 DEF IdInv, Dropping, Counting
<1>8. StampInv'
  BY <1>1, <1>2 DEF StampInv, DistinctStamps, Stamped, Dropping, Counting
<1>9. HandoverInv'
  <2>1. \A u \in Thread : d \notin removed[u]
    BY <1>6 DEF HandoverInv
  <2>2. d \notin reported
    BY <1>6 DEF HandoverInv
  <2>3. drops' = reported' \cup UNION {removed'[u] : u \in Thread}
    BY <1>3, <1>4, <1>5 DEF HandoverInv, Dropping
  <2>4. \A u \in Thread : removed'[u] \cap reported' = {}
    BY <1>4, <1>5, <2>2 DEF HandoverInv, Dropping
  <2>5. \A s, u \in Thread : s # u => removed'[s] \cap removed'[u] = {}
    BY <1>4, <1>5, <2>1 DEF HandoverInv
  <2>6. \A u \in Thread : removed'[u] # {} => pc'[u] \in Holding
    BY <1>4 DEF HandoverInv, Dropping, Holding
  <2>7. \A u \in Thread : pc'[u] = "expired" =>
           \A b, c \in removed'[u] : b = c /\ b.cause = "Expired"
    BY <1>3, <1>4, <1>5 DEF HandoverInv, Dropping
  <2> QED
    BY <2>3, <2>4, <2>5, <2>6, <2>7 DEF HandoverInv
<1> QED
  BY <1>7, <1>8, <1>9

LEMMA DroppingEvictRound ==
    ASSUME Core, NEW t \in Thread, EvictRound(t)
    PROVE  \E k \in Key, cause \in Causes : Dropping(t, k, cause)
<1>1. PICK w \in Windows :
        LET dead == Dead(w, call[t].now)
        IN  \E k \in IF dead # {} THEN dead ELSE Oldest(w) :
              /\ RemoveEntry(k, HasTtl(map[k]))
              /\ RecordDrop(t, k, IF dead # {} THEN "Expired" ELSE "Evicted")
  BY DEF EvictRound
<1>2. PICK k \in w, cause \in Causes :
        RemoveEntry(k, HasTtl(map[k])) /\ RecordDrop(t, k, cause)
  BY <1>1 DEF Dead, Oldest, Causes
<1>3. k \in Key /\ map[k] # NoEntry
  BY <1>2 DEF Windows, Live, LiveIn
<1>4. Dropping(t, k, cause)
  BY <1>2, <1>3 DEF Core, TypeOK, EvictRound, RemoveEntry, Dropping, Counting
<1> QED
  BY <1>3, <1>4

LEMMA DroppingSlowRemove ==
    ASSUME Core, HandoverInv, NEW t \in Thread, SlowRemove(t)
    PROVE  \E k \in Key, cause \in Causes : Dropping(t, k, cause)
<1>1. call[t].key \in Key
  BY DEF Core, TypeOK, Call
<1>2. Dropping(t, call[t].key, "Expired")
  BY <1>1 DEF Core, TypeOK, HandoverInv, Holding, SlowRemove, StillDead, RemoveEntry,
     Goto, Dropping, Counting
<1> QED
  BY <1>1, <1>2 DEF Causes

LEMMA DroppingReapDrop ==
    ASSUME Core, NEW t \in Thread, ReapDrop(t)
    PROVE  \E k \in Key, cause \in Causes : Dropping(t, k, cause)
<1>1. PICK k \in Dead(Live, call[t].now) :
        RemoveEntry(k, 1) /\ RecordDrop(t, k, "Expired")
  BY DEF ReapDrop
<1>2. k \in Key /\ map[k] # NoEntry
  BY <1>1 DEF Dead, Live, LiveIn
<1>3. Dropping(t, k, "Expired")
  BY <1>1, <1>2 DEF Core, TypeOK, ReapDrop, RemoveEntry, Dropping, Counting
<1> QED
  BY <1>2, <1>3 DEF Causes

LEMMA HistoryInsertBegin ==
    ASSUME Core, NEW t \in Thread, InsertBegin(t), IdInv, StampInv, HandoverInv
    PROVE  IdInv' /\ StampInv' /\ HandoverInv'
<1>1. /\ map' = map /\ drops' = drops /\ removed' = removed /\ reported' = reported
      /\ clock' = clock + 1 /\ calls' = calls + 1 /\ pc[t] = "idle"
      /\ clock \in Nat /\ calls \in Nat
  BY DEF Core, TypeOK, InsertBegin, BeginCall, TakeStamp, shardVars
<1>2. \A u \in Thread \ {t} : pc'[u] = pc[u] /\ call'[u] = call[u]
  BY DEF Core, TypeOK, InsertBegin, Goto
<1>3. pc'[t] = "insert" /\ call'[t].id = calls + 1 /\ call'[t].stamp = clock
  BY DEF Core, TypeOK, InsertBegin, Goto, NoCall
<1>4. Live' = Live
  BY <1>1 DEF Live, LiveIn
<1>5. IdInv'
  BY <1>1, <1>2, <1>3, <1>4 DEF IdInv, Core, TypeOK
<1>6. StampInv'
  <2>1. map \in Maps /\ \A k \in Live : map[k].last_access \in Nat
    BY DEF Core, TypeOK, Maps, Live, LiveIn, Entry
  <2>2. \A u \in Thread : call[u].stamp \in Nat
    BY DEF Core, TypeOK, Call
  <2> QED
    BY <1>1, <1>2, <1>3, <1>4, <2>1, <2>2 DEF StampInv, DistinctStamps, Stamped
<1>7. HandoverInv'
  BY <1>1, <1>2, <1>3 DEF HandoverInv, Holding, Counting
<1> QED
  BY <1>5, <1>6, <1>7

LEMMA HistoryInsertLocked ==
    ASSUME Core, NEW t \in Thread, InsertLocked(t), IdInv, StampInv, HandoverInv
    PROVE  IdInv' /\ StampInv' /\ HandoverInv'
<1> DEFINE k == call[t].key
<1>1. /\ drops' = drops /\ removed' = removed /\ reported' = reported
      /\ clock' = clock /\ calls' = calls /\ pc[t] = "insert" /\ call' = call
  BY DEF InsertLocked, histVars
<1>2. /\ \A u \in Thread \ {t} : pc'[u] = pc[u]
      /\ pc'[t] = "evict_hint"
  BY DEF Core, TypeOK, InsertLocked, Goto
<1>3. /\ k \in Key
      /\ \A j \in Key \ {k} : map'[j] = map[j]
      /\ map'[k].id = call[t].id /\ map'[k].last_access = call[t].stamp
  BY DEF Core, TypeOK, Call, InsertLocked
<1>4. Live' \subseteq Live \cup {k} /\ \A j \in Live' \ {k} : j \in Live /\ map'[j] = map[j]
  BY <1>3 DEF Live, LiveIn
<1> HIDE DEF k
<1>5. IdInv'
  BY <1>1, <1>2, <1>3, <1>4 DEF IdInv
<1>6. StampInv'
  BY <1>1, <1>2, <1>3, <1>4 DEF StampInv, DistinctStamps, Stamped
<1>7. HandoverInv'
  BY <1>1, <1>2 DEF HandoverInv, Holding, Counting
<1> QED
  BY <1>5, <1>6, <1>7

LEMMA HistoryLookupLive ==
    ASSUME Core, NEW t \in Thread, LookupLive(t), IdInv, StampInv, HandoverInv
    PROVE  IdInv' /\ StampInv' /\ HandoverInv'
<1>1. /\ map' = map /\ drops' = drops /\ removed' = removed /\ reported' = reported
      /\ clock' = clock + 1 /\ calls' = calls /\ pc[t] = "lookup" /\ clock \in Nat
  BY DEF Core, TypeOK, LookupLive, TakeStamp, shardVars, histVars
<1>2. \A u \in Thread \ {t} : pc'[u] = pc[u] /\ call'[u] = call[u]
  BY DEF Core, TypeOK, LookupLive, Goto
<1>3. pc'[t] = "touch" /\ call'[t].stamp = clock
  BY DEF Core, TypeOK, Call, LookupLive, Goto
<1>4. Live' = Live
  BY <1>1 DEF Live, LiveIn
<1>5. IdInv'
  BY <1>1, <1>2, <1>3, <1>4 DEF IdInv
<1>6. StampInv'
  <2>1. map \in Maps /\ \A k \in Live : map[k].last_access \in Nat
    BY DEF Core, TypeOK, Maps, Live, LiveIn, Entry
  <2>2. \A u \in Thread : call[u].stamp \in Nat
    BY DEF Core, TypeOK, Call
  <2> QED
    BY <1>1, <1>2, <1>3, <1>4, <2>1, <2>2 DEF StampInv, DistinctStamps, Stamped
<1>7. HandoverInv'
  BY <1>1, <1>2, <1>3 DEF HandoverInv, Holding, Counting
<1> QED
  BY <1>5, <1>6, <1>7

(* Entry k is used again: its stamp becomes one no other entry has and no  *)
(* other thread holds.                                                     *)
LEMMA Restamped ==
    ASSUME Core, IdInv, HandoverInv, NEW t \in Thread, NEW k \in Key, NEW n \in Nat,
           map[k] # NoEntry, map' = [map EXCEPT ![k].last_access = n],
           drops' = drops, removed' = removed, reported' = reported,
           calls' = calls, \A u \in Thread \ {t} : pc'[u] = pc[u] /\ call'[u] = call[u],
           pc'[t] = "hit", removed[t] = {}
    PROVE  /\ IdInv' /\ HandoverInv'
           /\ Live' = Live
           /\ map'[k].last_access = n
           /\ \A j \in Live \ {k} : map'[j] = map[j]
<1>1. /\ map \in Maps /\ map[k] \in Entry
  BY DEF Core, TypeOK, Maps
<1> DEFINE e == [map[k] EXCEPT !.last_access = n]
<1>2. e \in Entry /\ e # NoEntry /\ e.id = map[k].id /\ e.last_access = n
  BY <1>1, NoEntryAssumption DEF Entry
<1>3. map' = [map EXCEPT ![k] = e]
  BY <1>1 DEF Maps
<1> HIDE DEF e
<1>4. Live' = Live /\ map'[k] = e /\ \A j \in Key \ {k} : map'[j] = map[j]
  BY <1>1, <1>2, <1>3 DEF Live, LiveIn, Maps
<1>5. \A j \in Live : map'[j].id = map[j].id
  BY <1>2, <1>4 DEF Live, LiveIn
<1>6. IdInv'
  BY <1>4, <1>5 DEF IdInv
<1>7. HandoverInv'
  BY DEF HandoverInv, Holding, Counting
<1> QED
  BY <1>2, <1>4, <1>6, <1>7 DEF Live, LiveIn

LEMMA HistoryLookupTouch ==
    ASSUME Core, NEW t \in Thread, LookupTouch(t), IdInv, StampInv, HandoverInv
    PROVE  IdInv' /\ StampInv' /\ HandoverInv'
<1> DEFINE k == call[t].key
           n == call[t].stamp
<1>1. /\ k \in Key /\ n \in Nat /\ map[k] # NoEntry
      /\ map' = [map EXCEPT ![k].last_access = n]
  BY DEF Core, TypeOK, LockInv, Call, LookupTouch
<1>2. /\ drops' = drops /\ removed' = removed /\ reported' = reported
      /\ clock' = clock /\ calls' = calls /\ call' = call
      /\ pc[t] = "touch" /\ pc'[t] = "hit"
      /\ \A u \in Thread \ {t} : pc'[u] = pc[u]
  BY DEF Core, TypeOK, LookupTouch, histVars, Goto
<1>3. removed[t] = {}
  BY <1>2 DEF HandoverInv, Holding, Counting
<1> HIDE DEF k, n
<1>4. /\ IdInv' /\ HandoverInv' /\ Live' = Live
      /\ map'[k].last_access = n
      /\ \A j \in Live \ {k} : map'[j] = map[j]
  BY <1>1, <1>2, <1>3, Restamped
<1>5. StampInv'
  BY <1>2, <1>4 DEF StampInv, DistinctStamps, Stamped, n
<1> QED
  BY <1>4, <1>5

LEMMA HistorySlowReplaced ==
    ASSUME Core, NEW t \in Thread, SlowReplaced(t), IdInv, StampInv, HandoverInv
    PROVE  IdInv' /\ StampInv' /\ HandoverInv'
<1> DEFINE k == call[t].key
<1>1. /\ k \in Key /\ clock \in Nat /\ map[k] # NoEntry
      /\ map' = [map EXCEPT ![k].last_access = clock]
  BY DEF Core, TypeOK, Call, SlowReplaced
<1>2. /\ drops' = drops /\ removed' = removed /\ reported' = reported
      /\ clock' = clock + 1 /\ calls' = calls
      /\ pc[t] = "lookup_slow" /\ pc'[t] = "hit"
      /\ \A u \in Thread \ {t} : pc'[u] = pc[u] /\ call'[u] = call[u]
  BY DEF Core, TypeOK, SlowReplaced, TakeStamp, histVars, Goto
<1>3. removed[t] = {}
  BY <1>2 DEF HandoverInv, Holding, Counting
<1> HIDE DEF k
<1>4. /\ IdInv' /\ HandoverInv' /\ Live' = Live
      /\ map'[k].last_access = clock
      /\ \A j \in Live \ {k} : map'[j] = map[j]
  BY <1>1, <1>2, <1>3, Restamped
<1>5. StampInv'
  <2>1. \A j \in Live : map[j].last_access \in Nat
    BY DEF Core, TypeOK, Live, LiveIn, Entry
  <2>2. \A u \in Thread : call[u].stamp \in Nat
    BY DEF Core, TypeOK, Call
  <2> QED
    BY <1>1, <1>2, <1>4, <2>1, <2>2 DEF StampInv, DistinctStamps, Stamped
<1> QED
  BY <1>4, <1>5

LEMMA HistoryRemove ==
    ASSUME Core, NEW t \in Thread, Remove(t), IdInv, StampInv, HandoverInv
    PROVE  IdInv' /\ StampInv' /\ HandoverInv'
<1>1. /\ drops' = drops /\ removed' = removed /\ reported' = reported
      /\ clock' = clock /\ calls' = calls + 1 /\ calls \in Nat
      /\ pc' = pc /\ call' = call
  BY DEF Core, TypeOK, Remove
<1>2. PICK k \in Key : IF map[k] = NoEntry THEN UNCHANGED shardVars
                       ELSE RemoveEntry(k, HasTtl(map[k]))
  BY DEF Remove
<1>3. Live' \subseteq Live /\ \A j \in Live' : map'[j] = map[j]
  BY <1>2 DEF Core, TypeOK, RemoveEntry, shardVars, Live, LiveIn
<1>4. IdInv'
  BY <1>1, <1>3 DEF IdInv
<1>5. StampInv'
  BY <1>1, <1>3 DEF StampInv, DistinctStamps
<1>6. HandoverInv'
  BY <1>1 DEF HandoverInv
<1> QED
  BY <1>4, <1>5, <1>6

LEMMA HistoryNotify ==
    ASSUME Core, NEW t \in Thread, Notify(t), IdInv, StampInv, HandoverInv
    PROVE  IdInv' /\ StampInv' /\ HandoverInv'
<1>1. /\ map' = map /\ drops' = drops /\ clock' = clock /\ calls' = calls
      /\ pc[t] = "notify"
  BY DEF Notify, shardVars
<1>2. PICK d \in removed[t] :
        /\ reported' = reported \cup {d}
        /\ removed' = [removed EXCEPT ![t] = @ \ {d}]
        /\ IF removed[t] = {d} THEN Return(t) ELSE UNCHANGED <<pc, call>>
  BY DEF Notify
<1>3. /\ \A u \in Thread \ {t} : removed'[u] = removed[u] /\ pc'[u] = pc[u] /\ call'[u] = call[u]
      /\ removed'[t] = removed[t] \ {d}
      /\ pc'[t] \in {"idle", "notify"}
      /\ removed'[t] # {} => pc'[t] = "notify"
  BY <1>1, <1>2 DEF Core, TypeOK, Return, Goto
<1>4. Live' = Live
  BY <1>1 DEF Live, LiveIn
<1>5. IdInv'
  BY <1>1, <1>3, <1>4 DEF IdInv
<1>6. StampInv'
  BY <1>1, <1>3, <1>4 DEF StampInv, DistinctStamps, Stamped
<1>7. HandoverInv'
  <2>1. drops' = reported' \cup UNION {removed'[u] : u \in Thread}
    BY <1>1, <1>2, <1>3 DEF HandoverInv
  <2>2. \A u \in Thread : removed'[u] \cap reported' = {}
    BY <1>2, <1>3 DEF HandoverInv
  <2>3. \A s, u \in Thread : s # u => removed'[s] \cap removed'[u] = {}
    BY <1>3 DEF HandoverInv
  <2>4. \A u \in Thread : removed'[u] # {} => pc'[u] \in Holding
    BY <1>3 DEF HandoverInv, Holding
  <2>5. \A u \in Thread : pc'[u] = "expired" =>
           \A b, c \in removed'[u] : b = c /\ b.cause = "Expired"
    BY <1>3 DEF HandoverInv
  <2> QED
    BY <2>1, <2>2, <2>3, <2>4, <2>5 DEF HandoverInv
<1> QED
  BY <1>5, <1>6, <1>7

LEMMA HistoryInit == Init => IdInv /\ StampInv /\ HandoverInv
<1> SUFFICES ASSUME Init PROVE IdInv /\ StampInv /\ HandoverInv
  OBVIOUS
<1>1. Live = {}
  BY DEF Init, Live, LiveIn
<1> QED
  BY <1>1 DEF Init, IdInv, StampInv, DistinctStamps, Stamped, HandoverInv

LEMMA HistoryStep ==
    ASSUME Core, [Next]_vars, IdInv, StampInv, HandoverInv
    PROVE  IdInv' /\ StampInv' /\ HandoverInv'
<1>1. CASE Tick \/ UNCHANGED vars
  <2>1. UNCHANGED <<map, clock, pc, call, removed, calls, drops, reported>>
    BY <1>1 DEF Tick, vars, shardVars, histVars
  <2>2. Live' = Live
    BY <2>1 DEF Live, LiveIn
  <2> QED
    BY <2>1, <2>2 DEF IdInv, StampInv, DistinctStamps, HandoverInv
<1>2. ASSUME NEW t \in Thread, NewCall(t)
      PROVE  IdInv' /\ StampInv' /\ HandoverInv'
  BY <1>2, HistoryInsertBegin, QuietLookupBegin, QuietStep, HistoryRemove DEF NewCall
<1>3. ASSUME NEW t \in Thread, Continue(t)
      PROVE  IdInv' /\ StampInv' /\ HandoverInv'
  <2>1. CASE InsertLocked(t) \/ Notify(t)
    BY <2>1, HistoryInsertLocked, HistoryNotify
  <2>2. CASE EvictRound(t) \/ SlowRemove(t) \/ ReapDrop(t)
    BY <2>2, DroppingEvictRound, DroppingSlowRemove, DroppingReapDrop, DroppingStep
  <2>3. CASE EvictHint(t) \/ EvictLocked(t) \/ EvictUnlock(t)
    BY <2>3, QuietEvict, QuietStep
  <2>4. CASE \/ LookupAbsent(t) \/ LookupStale(t) \/ SlowGone(t)
             \/ LookupHit(t) \/ LookupMiss(t) \/ LookupExpired(t)
    BY <2>4, QuietLookup, QuietStep
  <2>5. CASE LookupLive(t) \/ LookupTouch(t) \/ SlowReplaced(t)
    BY <2>5, HistoryLookupLive, HistoryLookupTouch, HistorySlowReplaced
  <2>6. CASE \/ ReapHint(t) \/ ReapClock(t) \/ ReapLocked(t) \/ ReapUnlock(t)
             \/ CountDrops(t)
    BY <2>6, QuietReap, QuietStep
  <2> QED
    BY <1>3, <2>1, <2>2, <2>3, <2>4, <2>5, <2>6 DEF Continue, Evict, Lookup, Reap
<1> QED
  BY <1>1, <1>2, <1>3 DEF Next

LEMMA HistoryAlways == Spec => [](IdInv /\ StampInv /\ HandoverInv)
<1>1. Core /\ IdInv /\ StampInv /\ HandoverInv /\ [Next]_vars
        => IdInv' /\ StampInv' /\ HandoverInv'
  BY HistoryStep
<1> QED
  BY <1>1, HistoryInit, CoreAlways, PTL DEF Spec

(* Whatever threads do between taking a stamp and storing it, no two       *)
(* entries carry the same one, so the least recently used entry of a       *)
(* sample is one entry (cache.rs:132-135, 578, 620-627).                   *)
THEOREM StampsDistinct == Spec => []DistinctStamps
<1>1. StampInv => DistinctStamps
  BY DEF StampInv
<1> QED
  BY <1>1, HistoryAlways, PTL

(* Whoever gets to a dead entry first, and however many clients and the    *)
(* sweep race for it, a dropped entry is handed to the listener once and   *)
(* is resident no longer (cache.rs:541-551, 683-711, 836-845).             *)
THEOREM EveryDropReportedOnce == Spec => []EachDropReportedOnce
<1>1. IdInv /\ HandoverInv => EachDropReportedOnce
  BY DEF IdInv, HandoverInv, EachDropReportedOnce, Holding, Counting
<1> QED
  BY <1>1, HistoryAlways, PTL

(* Eviction that looks at two entries or more never takes the entry with   *)
(* the newest stamp while another is resident, whichever window of the map *)
(* it samples (cache.rs:733-744, 772-819).                                 *)
THEOREM NewestAlwaysSurvives == Spec => NewestSurvives
<1> DEFINE Survives ==
      \A d \in drops' \ drops :
          d.cause = "Evicted" /\ EvictSample >= 2 /\ Cardinality(Live) >= 2
          => \E j \in Live : map[j].last_access > map[d.key].last_access
<1>1. ASSUME Core, StampInv, [Next]_vars PROVE Survives
  <2> SUFFICES ASSUME NEW d \in drops' \ drops, d.cause = "Evicted",
                      EvictSample >= 2, Cardinality(Live) >= 2
               PROVE  \E j \in Live : map[j].last_access > map[d.key].last_access
    OBVIOUS
  <2>1. PICK t \in Thread : EvictRound(t) \/ SlowRemove(t) \/ ReapDrop(t)
    BY <1>1 DEF Next, vars, histVars, NewCall, Continue, Evict, Lookup, Reap, Tick,
       InsertBegin, LookupBegin, Remove, InsertLocked, EvictHint, EvictLocked,
       EvictUnlock, CountDrops, Notify, LookupAbsent, LookupLive, LookupTouch,
       LookupStale, SlowReplaced, SlowGone, LookupHit, LookupMiss, LookupExpired,
       ReapHint, ReapClock, ReapLocked, ReapUnlock
  <2>2. CASE SlowRemove(t) \/ ReapDrop(t)
    BY <2>2 DEF SlowRemove, ReapDrop, RecordDrop
  <2>3. CASE EvictRound(t)
    <3>1. PICK w \in Windows :
            LET dead == Dead(w, call[t].now)
            IN  \E k \in IF dead # {} THEN dead ELSE Oldest(w) :
                  /\ RemoveEntry(k, HasTtl(map[k]))
                  /\ RecordDrop(t, k, IF dead # {} THEN "Expired" ELSE "Evicted")
      BY <2>3 DEF EvictRound
    <3>2. PICK k \in Oldest(w) : d.key = k
      BY <3>1 DEF RecordDrop
    <3>3. k \in w /\ w \subseteq Live /\ Cardinality(w) >= 2
      <4>1. IsFiniteSet(Live) /\ Cardinality(Live) \in Nat
        BY <1>1, LiveFinite DEF Core, TypeOK, Maps, Live
      <4> QED
        BY <3>2, <4>1, BudgetAssumption DEF Oldest, Windows
    <3>4. PICK j \in w : j # k
      <4> SUFFICES ASSUME w \subseteq {k} PROVE FALSE
        BY <3>3
      <4>1. w = {k}
        BY <3>3
      <4>2. Cardinality({k}) = 1
        BY FS_Singleton
      <4> QED
        BY <3>3, <4>1, <4>2
    <3>5. map[k].last_access \in Nat /\ map[j].last_access \in Nat
      BY <1>1, <3>3, <3>4 DEF Core, TypeOK, Live, LiveIn, Entry
    <3>6. map[k].last_access <= map[j].last_access
      BY <3>2, <3>4 DEF Oldest
    <3>7. map[k].last_access # map[j].last_access
      BY <1>1, <3>3, <3>4 DEF StampInv, DistinctStamps
    <3> QED
      BY <3>2, <3>3, <3>4, <3>5, <3>6, <3>7
  <2> QED
    BY <2>1, <2>2, <2>3
<1>2. Core /\ StampInv /\ [Next]_vars => [Survives]_vars
  BY <1>1
<1> QED
  BY <1>2, CoreAlways, HistoryAlways, PTL DEF Spec, NewestSurvives

-----------------------------------------------------------------------------
(* The counters a shard publishes never run ahead of its history.          *)

-----------------------------------------------------------------------------
(* The counters.                                                           *)

Unseen == drops \ Uncounted

LEMMA DropsByFinite ==
    ASSUME NEW S, IsFiniteSet(S), NEW cause
    PROVE  /\ IsFiniteSet(DropsBy(cause, S)) /\ Cardinality(DropsBy(cause, S)) \in Nat
<1>1. DropsBy(cause, S) \in SUBSET S
  BY DEF DropsBy
<1> QED
  BY <1>1, FS_Subset, FS_CardinalityType

(* What a thread holds leaves the uncounted drops when its step counts it. *)
LEMMA Released ==
    ASSUME HandoverInv, IsFiniteSet(drops), NEW t \in Thread, NEW cause,
           pc[t] \in Counting, pc'[t] \notin Counting,
           \A u \in Thread \ {t} : pc'[u] = pc[u],
           removed' = removed, drops' = drops
    PROVE  Cardinality(DropsBy(cause, Unseen')) =
             Cardinality(DropsBy(cause, Unseen)) + DropCount(t, cause)
<1>1. removed[t] \subseteq drops
  BY DEF HandoverInv
<1>2. removed[t] \subseteq Uncounted
  BY DEF Uncounted, Counting
<1>3. Uncounted' = Uncounted \ removed[t]
  BY DEF Uncounted, Counting, HandoverInv
<1>4. Unseen' = Unseen \cup removed[t] /\ Unseen \cap removed[t] = {}
  BY <1>1, <1>2, <1>3 DEF Unseen
<1>5. /\ DropsBy(cause, Unseen') = DropsBy(cause, Unseen) \cup DropsBy(cause, removed[t])
      /\ DropsBy(cause, Unseen) \cap DropsBy(cause, removed[t]) = {}
  BY <1>4 DEF DropsBy
<1>6. IsFiniteSet(Unseen) /\ IsFiniteSet(removed[t])
  <2>1. Unseen \in SUBSET drops /\ removed[t] \in SUBSET drops
    BY <1>1 DEF Unseen
  <2> QED
    BY <2>1, FS_Subset
<1>7. /\ IsFiniteSet(DropsBy(cause, Unseen)) /\ Cardinality(DropsBy(cause, Unseen)) \in Nat
      /\ IsFiniteSet(DropsBy(cause, removed[t]))
      /\ Cardinality(DropsBy(cause, removed[t])) \in Nat
  BY <1>6, DropsByFinite
<1>8. Cardinality(DropsBy(cause, Unseen) \cap DropsBy(cause, removed[t])) = 0
  BY <1>5, FS_EmptySet
<1>9. Cardinality(DropsBy(cause, Unseen) \cup DropsBy(cause, removed[t]))
        = Cardinality(DropsBy(cause, Unseen)) + Cardinality(DropsBy(cause, removed[t]))
            - Cardinality(DropsBy(cause, Unseen) \cap DropsBy(cause, removed[t]))
  BY <1>7, FS_Union
<1> QED
  BY <1>5, <1>7, <1>8, <1>9 DEF DropCount

LEMMA CountCountDrops ==
    ASSUME Core, HandoverInv, CountInv, NEW t \in Thread, CountDrops(t)
    PROVE  CountInv'
<1>1. /\ pc[t] \in Counting /\ pc'[t] \notin Counting /\ removed' = removed /\ drops' = drops
      /\ \A u \in Thread \ {t} : pc'[u] = pc[u]
  BY DEF Core, TypeOK, CountDrops, ReportAndReturn, Return, Goto, histVars, Counting
<1>2. IsFiniteSet(drops)
  BY DEF CountInv
<1>3. /\ Cardinality(DropsBy("Evicted", Unseen')) =
            Cardinality(DropsBy("Evicted", Unseen)) + DropCount(t, "Evicted")
      /\ Cardinality(DropsBy("Expired", Unseen')) =
            Cardinality(DropsBy("Expired", Unseen)) + DropCount(t, "Expired")
  BY <1>1, <1>2, Released
<1>4. /\ stats'.evictions = stats.evictions + DropCount(t, "Evicted")
      /\ stats'.expired = stats.expired + DropCount(t, "Expired")
      /\ stats.evictions \in Nat /\ stats.expired \in Nat
  BY DEF Core, TypeOK, CountDrops, Counted
<1>5. DropCount(t, "Expired") \in Nat /\ Cardinality(DropsBy("Expired", Unseen)) \in Nat
  <2>1. Unseen \in SUBSET drops
    BY DEF Unseen
  <2> QED
    BY <1>2, <2>1, FS_Subset, DropsByFinite, CountType DEF Core
<1> QED
  BY <1>1, <1>2, <1>3, <1>4, <1>5 DEF CountInv, CountersCoverDrops, Unseen

LEMMA CountLookupExpired ==
    ASSUME Core, HandoverInv, CountInv, NEW t \in Thread, LookupExpired(t)
    PROVE  CountInv'
<1>1. /\ pc[t] = "expired" /\ pc[t] \in Counting /\ pc'[t] \notin Counting
      /\ removed' = removed /\ drops' = drops
      /\ \A u \in Thread \ {t} : pc'[u] = pc[u]
  BY DEF Core, TypeOK, LookupExpired, ReportAndReturn, Return, Goto, histVars, Counting
<1>2. IsFiniteSet(drops)
  BY DEF CountInv
<1>3. /\ Cardinality(DropsBy("Evicted", Unseen')) =
            Cardinality(DropsBy("Evicted", Unseen)) + DropCount(t, "Evicted")
      /\ Cardinality(DropsBy("Expired", Unseen')) =
            Cardinality(DropsBy("Expired", Unseen)) + DropCount(t, "Expired")
  BY <1>1, <1>2, Released
<1>4. DropCount(t, "Evicted") = 0
  <2>1. DropsBy("Evicted", removed[t]) = {}
    BY <1>1 DEF HandoverInv, DropsBy
  <2> QED
    BY <2>1, FS_EmptySet DEF DropCount
<1>5. DropCount(t, "Expired") \in {0, 1}
  <2>1. CASE removed[t] = {}
    <3>1. DropsBy("Expired", removed[t]) = {}
      BY <2>1 DEF DropsBy
    <3> QED
      BY <3>1, FS_EmptySet DEF DropCount
  <2>2. CASE removed[t] # {}
    <3>1. PICK d : d \in removed[t]
      BY <2>2
    <3>2. DropsBy("Expired", removed[t]) = {d}
      BY <1>1, <3>1 DEF HandoverInv, DropsBy
    <3> QED
      BY <3>2, FS_Singleton DEF DropCount
  <2> QED
    BY <2>1, <2>2
<1>6. /\ stats'.evictions = stats.evictions
      /\ stats'.expired = stats.expired + 1
      /\ stats.evictions \in Nat /\ stats.expired \in Nat
  BY DEF Core, TypeOK, LookupExpired, Counted
<1>7. /\ Cardinality(DropsBy("Expired", Unseen)) \in Nat
      /\ Cardinality(DropsBy("Evicted", Unseen)) \in Nat
  <2>1. Unseen \in SUBSET drops
    BY DEF Unseen
  <2> QED
    BY <1>2, <2>1, FS_Subset, DropsByFinite
<1> QED
  BY <1>1, <1>2, <1>3, <1>4, <1>5, <1>6, <1>7 DEF CountInv, CountersCoverDrops, Unseen

LEMMA CountDropping ==
    ASSUME Core, IdInv, HandoverInv, CountInv, NEW t \in Thread, NEW k \in Key, NEW cause \in Causes,
           Dropping(t, k, cause), pc[t] \in Counting \/ removed[t] = {}, stats' = stats
    PROVE  CountInv'
<1> DEFINE d == [id |-> map[k].id, key |-> k, cause |-> cause]
<1>1. drops' = drops \cup {d} /\ removed' = [removed EXCEPT ![t] = @ \cup {d}]
  BY DEF Dropping, RecordDrop
<1>2. d \notin drops
  BY DEF IdInv, Dropping, Live, LiveIn
<1> HIDE DEF d
<1>3. Uncounted' = Uncounted \cup {d}
  BY <1>1 DEF Core, TypeOK, Dropping, Uncounted, Counting
<1>4. drops' \ Uncounted' = drops \ Uncounted
  BY <1>1, <1>2, <1>3
<1>5. IsFiniteSet(drops')
  BY <1>1, FS_AddElement DEF CountInv
<1> QED
  BY <1>4, <1>5 DEF CountInv, CountersCoverDrops

(* Every other step leaves what is counted and what is not as it is.       *)
CountsKept ==
    /\ stats'.evictions = stats.evictions /\ stats'.expired = stats.expired
    /\ drops' = drops
    /\ \A u \in Thread :
          \/ removed'[u] = removed[u] /\ (pc'[u] \in Counting <=> pc[u] \in Counting)
          \/ pc'[u] \notin Counting /\ pc[u] \notin Counting
          \/ removed'[u] = {} /\ removed[u] = {}

LEMMA CountsKeptStep ==
    ASSUME CountInv, CountsKept
    PROVE  CountInv'
<1>1. Uncounted' = Uncounted
  BY DEF CountsKept, Uncounted, Counting
<1> QED
  BY <1>1 DEF CountsKept, CountInv, CountersCoverDrops

LEMMA CountsKeptNewCall ==
    ASSUME Core, HandoverInv, NEW t \in Thread, NewCall(t)
    PROVE  CountsKept
<1> USE DEF CountsKept, Counting, Goto
<1>1. CASE InsertBegin(t)
  BY <1>1 DEF Core, TypeOK, InsertBegin, BeginCall
<1>2. CASE LookupBegin(t)
  BY <1>2 DEF Core, TypeOK, LookupBegin, BeginCall
<1>3. CASE Remove(t)
  BY <1>3 DEF Remove
<1> QED
  BY <1>1, <1>2, <1>3 DEF NewCall

LEMMA CountsKeptEvict ==
    ASSUME Core, HandoverInv, NEW t \in Thread,
           \/ InsertLocked(t) \/ EvictHint(t) \/ EvictLocked(t) \/ EvictUnlock(t) \/ Notify(t)
    PROVE  CountsKept
<1> USE DEF CountsKept, Counting, Goto
<1>1. CASE InsertLocked(t)
  BY <1>1 DEF Core, TypeOK, InsertLocked, histVars
<1>2. CASE EvictHint(t)
  BY <1>2 DEF Core, TypeOK, EvictHint, histVars, Return
<1>3. CASE EvictLocked(t)
  <2>1. removed[t] = {}
    BY <1>3 DEF EvictLocked, HandoverInv, Holding
  <2> QED
    BY <1>3, <2>1 DEF Core, TypeOK, EvictLocked, histVars, Return
<1>4. CASE EvictUnlock(t)
  BY <1>4 DEF Core, TypeOK, EvictUnlock, histVars
<1>5. CASE Notify(t)
  BY <1>5 DEF Core, TypeOK, Notify, Return
<1> QED
  BY <1>1, <1>2, <1>3, <1>4, <1>5

LEMMA CountsKeptLookup ==
    ASSUME Core, HandoverInv, NEW t \in Thread,
           \/ LookupAbsent(t) \/ LookupLive(t) \/ LookupTouch(t) \/ LookupStale(t)
           \/ SlowReplaced(t) \/ SlowGone(t) \/ LookupHit(t) \/ LookupMiss(t)
    PROVE  CountsKept
<1> USE DEF CountsKept, Counting, Goto
<1>1. CASE LookupAbsent(t) \/ LookupStale(t)
  BY <1>1 DEF Core, TypeOK, LookupAbsent, LookupStale, histVars
<1>2. CASE LookupLive(t)
  BY <1>2 DEF Core, TypeOK, LookupLive, histVars
<1>3. CASE LookupTouch(t)
  BY <1>3 DEF Core, TypeOK, LookupTouch, histVars
<1>4. CASE SlowReplaced(t)
  BY <1>4 DEF Core, TypeOK, SlowReplaced, histVars
<1>5. CASE SlowGone(t)
  <2>1. removed[t] = {}
    BY <1>5 DEF SlowGone, HandoverInv, Holding
  <2> QED
    BY <1>5, <2>1 DEF Core, TypeOK, SlowGone, histVars
<1>6. CASE LookupHit(t)
  BY <1>6 DEF Core, TypeOK, LookupHit, Counted, Return, histVars
<1>7. CASE LookupMiss(t)
  BY <1>7 DEF Core, TypeOK, LookupMiss, Counted, Return, histVars
<1> QED
  BY <1>1, <1>2, <1>3, <1>4, <1>5, <1>6, <1>7

LEMMA CountsKeptReap ==
    ASSUME Core, HandoverInv, NEW t \in Thread,
           ReapHint(t) \/ ReapClock(t) \/ ReapLocked(t) \/ ReapUnlock(t)
    PROVE  CountsKept
<1> USE DEF CountsKept, Counting, Goto
<1>1. CASE ReapHint(t) \/ ReapClock(t)
  BY <1>1 DEF Core, TypeOK, ReapHint, ReapClock, histVars
<1>2. CASE ReapLocked(t)
  <2>1. removed[t] = {}
    BY <1>2 DEF ReapLocked, HandoverInv, Holding
  <2> QED
    BY <1>2, <2>1 DEF Core, TypeOK, ReapLocked, histVars
<1>3. CASE ReapUnlock(t)
  BY <1>3 DEF Core, TypeOK, ReapUnlock, histVars
<1> QED
  BY <1>1, <1>2, <1>3

LEMMA CountStep ==
    ASSUME Core, IdInv, HandoverInv, CountInv, [Next]_vars
    PROVE  CountInv'
<1>1. CASE Tick \/ UNCHANGED vars
  <2>1. CountsKept
    BY <1>1 DEF Tick, vars, histVars, CountsKept
  <2> QED
    BY <2>1, CountsKeptStep
<1>2. ASSUME NEW t \in Thread, NewCall(t) PROVE CountInv'
  BY <1>2, CountsKeptNewCall, CountsKeptStep
<1>3. ASSUME NEW t \in Thread, EvictRound(t) \/ SlowRemove(t) \/ ReapDrop(t)
      PROVE  CountInv'
  <2>1. \E k \in Key, cause \in Causes : Dropping(t, k, cause)
    BY <1>3, DroppingEvictRound, DroppingSlowRemove, DroppingReapDrop
  <2>2. pc[t] \in Counting \/ removed[t] = {}
    BY <1>3 DEF EvictRound, SlowRemove, ReapDrop, Counting, Holding, HandoverInv
  <2>3. stats' = stats
    BY <1>3 DEF EvictRound, SlowRemove, ReapDrop
  <2> QED
    BY <2>1, <2>2, <2>3, CountDropping
<1>4. ASSUME NEW t \in Thread, Continue(t) PROVE CountInv'
  <2>1. CASE CountDrops(t) \/ LookupExpired(t)
    BY <2>1, CountCountDrops, CountLookupExpired
  <2>2. CASE \/ InsertLocked(t) \/ EvictHint(t) \/ EvictLocked(t) \/ EvictUnlock(t) \/ Notify(t)
    BY <2>2, CountsKeptEvict, CountsKeptStep
  <2>3. CASE \/ LookupAbsent(t) \/ LookupLive(t) \/ LookupTouch(t) \/ LookupStale(t)
             \/ SlowReplaced(t) \/ SlowGone(t) \/ LookupHit(t) \/ LookupMiss(t)
    BY <2>3, CountsKeptLookup, CountsKeptStep
  <2>4. CASE ReapHint(t) \/ ReapClock(t) \/ ReapLocked(t) \/ ReapUnlock(t)
    BY <2>4, CountsKeptReap, CountsKeptStep
  <2> QED
    BY <1>3, <1>4, <2>1, <2>2, <2>3, <2>4 DEF Continue, Evict, Lookup, Reap
<1> QED
  BY <1>1, <1>2, <1>4 DEF Next

LEMMA CountInit == Init => CountInv
<1> SUFFICES ASSUME Init PROVE CountInv
  OBVIOUS
<1>1. drops = {} /\ stats.evictions = 0 /\ stats.expired = 0
  BY DEF Init
<1>2. DropsBy("Evicted", drops \ Uncounted) = {} /\ DropsBy("Expired", drops \ Uncounted) = {}
  BY <1>1 DEF DropsBy
<1>3. Cardinality({}) = 0 /\ IsFiniteSet({})
  BY FS_EmptySet
<1> QED
  BY <1>1, <1>2, <1>3 DEF CountInv, CountersCoverDrops

(* The counters a shard publishes are its history, less what some thread   *)
(* still holds uncounted, for any number of threads                        *)
(* (cache.rs:195-199, 836-845, 913-915).                                   *)
THEOREM CountersAlwaysCover == Spec => []CountersCoverDrops
<1>1. Core /\ IdInv /\ HandoverInv /\ CountInv /\ [Next]_vars => CountInv'
  BY CountStep
<1>2. CountInv => CountersCoverDrops
  BY DEF CountInv
<1> QED
  BY <1>1, <1>2, CountInit, CoreAlways, HistoryAlways, PTL DEF Spec

-----------------------------------------------------------------------------
(* The shard implements CacheContract: where a call may stand.             *)

ReapPlaces == {"reap_clock", "reap_lock", "reap_drop"}

(* What thread t may hold where.                                           *)
Legit(t, place, c) ==
    /\ t \in Client =>
          /\ place \notin ReapPlaces
          /\ place \in EvictPlaces \cup {"insert", "count"} => c.id # 0
          /\ place \in {"lookup", "lookup_slow", "miss", "expired"} => c.id = 0
    /\ t = Sweeper => place \in ReapPlaces \cup {"idle", "count", "notify"}
    /\ c.now <= now_millis

PlaceInv == \A t \in Thread : Legit(t, pc[t], call[t])

LEMMA LegitStep ==
    ASSUME Core, PlaceInv, NEW t \in Thread, wall' = wall,
           \A u \in Thread \ {t} : pc'[u] = pc[u] /\ call'[u] = call[u],
           Legit(t, pc'[t], call'[t])
    PROVE  PlaceInv'
<1>1. now_millis' = now_millis
  BY DEF now_millis
<1> QED
  BY <1>1 DEF PlaceInv, Legit

LEMMA PlaceNewCall ==
    ASSUME Core, PlaceInv, NEW t \in Thread, NewCall(t)
    PROVE  PlaceInv'
<1>0. now_millis \in Nat /\ t \in Client /\ t # Sweeper /\ calls \in Nat
  BY NowType, ThreadAssumption DEF Core, TypeOK, NewCall, InsertBegin, LookupBegin, Remove, BeginCall
<1>1. wall' = wall /\ \A u \in Thread \ {t} : pc'[u] = pc[u] /\ call'[u] = call[u]
  BY DEF Core, TypeOK, NewCall, InsertBegin, LookupBegin, Remove, Goto
<1>2. Legit(t, pc'[t], call'[t])
  <2>1. CASE InsertBegin(t)
    <3>1. pc'[t] = "insert" /\ call'[t].id = calls + 1 /\ call'[t].now = 0
      BY <2>1 DEF Core, TypeOK, InsertBegin, Goto, NoCall
    <3> QED
      BY <1>0, <3>1 DEF Legit, ReapPlaces, EvictPlaces
  <2>2. CASE LookupBegin(t)
    <3>1. pc'[t] = "lookup" /\ call'[t].id = 0 /\ call'[t].now = now_millis
      BY <2>2 DEF Core, TypeOK, LookupBegin, Goto, NoCall
    <3> QED
      BY <1>0, <3>1 DEF Legit, ReapPlaces, EvictPlaces
  <2>3. CASE Remove(t)
    BY <2>3 DEF Remove, PlaceInv
  <2> QED
    BY <2>1, <2>2, <2>3 DEF NewCall
<1> QED
  BY <1>1, <1>2, LegitStep

(* A call that returns leaves nothing behind.                              *)
LEMMA LegitReturn ==
    ASSUME Core, NEW t \in Thread, Return(t)
    PROVE  Legit(t, pc'[t], call'[t])
<1>1. pc'[t] = "idle" /\ call'[t].now = 0 /\ now_millis \in Nat
  BY NowType DEF Core, TypeOK, Return, Goto, NoCall
<1> QED
  BY <1>1 DEF Legit, ReapPlaces, EvictPlaces

LEMMA OthersReturn ==
    ASSUME Core, NEW t \in Thread, Return(t)
    PROVE  \A u \in Thread \ {t} : pc'[u] = pc[u] /\ call'[u] = call[u]
BY DEF Core, TypeOK, Return, Goto

LEMMA PlaceEvict ==
    ASSUME Core, PlaceInv, NEW t \in Thread, InsertLocked(t) \/ Evict(t)
    PROVE  PlaceInv'
<1> USE DEF Core, TypeOK, PlaceInv, Legit, ReapPlaces, EvictPlaces, Goto
<1>1. CASE InsertLocked(t)
  BY <1>1, LegitStep DEF InsertLocked
<1>2. CASE EvictHint(t)
  BY <1>2, LegitStep, LegitReturn, OthersReturn DEF EvictHint
<1>3. CASE EvictLocked(t)
  <2>1. CASE bytes <= Capacity
    BY <1>3, <2>1, LegitStep, LegitReturn, OthersReturn DEF EvictLocked
  <2>2. CASE ~(bytes <= Capacity)
    <3>1. /\ call'[t].now = now_millis /\ call'[t].id = call[t].id
          /\ pc'[t] = "evict_round" /\ pc[t] = "evict_lock" /\ wall' = wall
          /\ \A u \in Thread \ {t} : pc'[u] = pc[u] /\ call'[u] = call[u]
      BY <1>3, <2>2 DEF EvictLocked, Call
    <3>2. now_millis \in Nat
      BY NowType
    <3> QED
      BY <3>1, <3>2, LegitStep
  <2> QED
    BY <2>1, <2>2
<1>4. CASE EvictRound(t)
  <2>1. /\ call'[t].now = call[t].now /\ call'[t].id = call[t].id
        /\ pc' = pc /\ pc[t] = "evict_round" /\ wall' = wall
        /\ \A u \in Thread \ {t} : call'[u] = call[u]
    BY <1>4 DEF EvictRound, Call
  <2> QED
    BY <2>1, LegitStep
<1>5. CASE EvictUnlock(t)
  BY <1>5, LegitStep DEF EvictUnlock
<1> QED
  BY <1>1, <1>2, <1>3, <1>4, <1>5 DEF Evict

LEMMA PlaceReport ==
    ASSUME Core, PlaceInv, NEW t \in Thread, CountDrops(t) \/ Notify(t)
    PROVE  PlaceInv'
<1> USE DEF PlaceInv, Legit, ReapPlaces, EvictPlaces
<1>1. CASE CountDrops(t)
  <2>1. CASE Return(t)
    BY <1>1, <2>1, LegitStep, LegitReturn, OthersReturn DEF CountDrops
  <2>2. CASE Goto(t, "notify") /\ UNCHANGED call
    BY <1>1, <2>2, LegitStep DEF CountDrops, Goto, Core, TypeOK
  <2> QED
    BY <1>1, <2>1, <2>2 DEF CountDrops, ReportAndReturn
<1>2. CASE Notify(t)
  <2>1. CASE Return(t)
    BY <1>2, <2>1, LegitStep, LegitReturn, OthersReturn DEF Notify
  <2>2. CASE UNCHANGED <<pc, call>>
    BY <1>2, <2>2, LegitStep DEF Notify
  <2> QED
    BY <1>2, <2>1, <2>2 DEF Notify
<1> QED
  BY <1>1, <1>2

LEMMA PlaceLookup ==
    ASSUME Core, PlaceInv, NEW t \in Thread, Lookup(t)
    PROVE  PlaceInv'
<1> USE DEF PlaceInv, Legit, ReapPlaces, EvictPlaces
<1>1. CASE LookupAbsent(t)
  BY <1>1, LegitStep DEF Core, TypeOK, LookupAbsent, Goto
<1>2. CASE LookupStale(t)
  BY <1>2, LegitStep DEF Core, TypeOK, LookupStale, Goto
<1>3. CASE SlowGone(t)
  BY <1>3, LegitStep DEF Core, TypeOK, SlowGone, Goto
<1>4. CASE SlowRemove(t)
  BY <1>4, LegitStep DEF Core, TypeOK, SlowRemove, Goto
<1>5. CASE LookupTouch(t)
  BY <1>5, LegitStep DEF Core, TypeOK, LookupTouch, Goto
<1>6. CASE LookupLive(t)
  <2>1. /\ call'[t].now = call[t].now /\ pc'[t] = "touch" /\ pc[t] = "lookup" /\ wall' = wall
        /\ \A u \in Thread \ {t} : pc'[u] = pc[u] /\ call'[u] = call[u]
    BY <1>6 DEF Core, TypeOK, LookupLive, Call, Goto
  <2> QED
    BY <2>1, LegitStep
<1>7. CASE SlowReplaced(t)
  <2>1. /\ call'[t].now = call[t].now /\ pc'[t] = "hit" /\ pc[t] = "lookup_slow" /\ wall' = wall
        /\ \A u \in Thread \ {t} : pc'[u] = pc[u] /\ call'[u] = call[u]
    BY <1>7 DEF Core, TypeOK, SlowReplaced, Call, Goto
  <2> QED
    BY <2>1, LegitStep
<1>8. CASE LookupHit(t) \/ LookupMiss(t)
  BY <1>8, LegitStep, LegitReturn, OthersReturn DEF LookupHit, LookupMiss
<1>9. CASE LookupExpired(t)
  <2>1. CASE Return(t)
    BY <1>9, <2>1, LegitStep, LegitReturn, OthersReturn DEF LookupExpired
  <2>2. CASE Goto(t, "notify") /\ UNCHANGED call
    BY <1>9, <2>2, LegitStep DEF LookupExpired, Goto, Core, TypeOK
  <2> QED
    BY <1>9, <2>1, <2>2 DEF LookupExpired, ReportAndReturn
<1> QED
  BY <1>1, <1>2, <1>3, <1>4, <1>5, <1>6, <1>7, <1>8, <1>9 DEF Lookup

LEMMA PlaceReap ==
    ASSUME Core, PlaceInv, NEW t \in Thread, Reap(t)
    PROVE  PlaceInv'
<1> USE DEF PlaceInv, Legit, ReapPlaces, EvictPlaces
<1>0. t = Sweeper /\ t \notin Client
  BY ThreadAssumption DEF Reap, ReapHint, ReapClock, ReapLocked, ReapDrop, ReapUnlock, Thread
<1>1. CASE ReapHint(t)
  BY <1>0, <1>1, LegitStep DEF Core, TypeOK, ReapHint, Goto
<1>2. CASE ReapClock(t)
  <2>1. /\ call'[t].now = now_millis /\ pc'[t] = "reap_lock" /\ wall' = wall
        /\ \A u \in Thread \ {t} : pc'[u] = pc[u] /\ call'[u] = call[u]
    BY <1>2 DEF Core, TypeOK, ReapClock, Call, Goto
  <2>2. now_millis \in Nat
    BY NowType DEF Core
  <2> QED
    BY <1>0, <2>1, <2>2, LegitStep
<1>3. CASE ReapLocked(t) \/ ReapUnlock(t)
  BY <1>0, <1>3, LegitStep DEF Core, TypeOK, ReapLocked, ReapUnlock, Goto
<1>4. CASE ReapDrop(t)
  BY <1>0, <1>4, LegitStep DEF ReapDrop
<1> QED
  BY <1>1, <1>2, <1>3, <1>4 DEF Reap

LEMMA ClockForward ==
    ASSUME Core, Tick
    PROVE  now_millis <= now_millis' /\ now_millis \in Nat /\ now_millis' \in Nat
BY TimeAssumption DEF Core, TypeOK, Tick, now_millis

LEMMA PlaceStep ==
    ASSUME Core, PlaceInv, [Next]_vars
    PROVE  PlaceInv'
<1>1. CASE Tick
  <2>1. pc' = pc /\ call' = call /\ \A t \in Thread : call[t].now \in Nat
    BY <1>1 DEF Tick, Core, TypeOK, Call
  <2> QED
    BY <1>1, <2>1, ClockForward DEF PlaceInv, Legit
<1>2. CASE UNCHANGED vars
  BY <1>2 DEF vars, PlaceInv, Legit, now_millis
<1>3. ASSUME NEW t \in Thread, NewCall(t) PROVE PlaceInv'
  BY <1>3, PlaceNewCall
<1>4. ASSUME NEW t \in Thread, Continue(t) PROVE PlaceInv'
  BY <1>4, PlaceEvict, PlaceReport, PlaceLookup, PlaceReap DEF Continue
<1> QED
  BY <1>1, <1>2, <1>3, <1>4 DEF Next

LEMMA PlaceInit == Init => PlaceInv
<1> SUFFICES ASSUME Init, NEW t \in Thread PROVE Legit(t, pc[t], call[t])
  BY DEF PlaceInv
<1>1. pc[t] = "idle" /\ call[t].now = 0
  BY DEF Init, NoCall
<1>2. now_millis \in Nat
  BY TimeAssumption DEF Init, now_millis
<1> QED
  BY <1>1, <1>2 DEF Legit, ReapPlaces, EvictPlaces

-----------------------------------------------------------------------------
(* The shard implements CacheContract: step by step.                       *)

(* The refinement mapping, place by place.                                 *)
LEMMA AskPlaces ==
    ASSUME NEW c
    PROVE  /\ AskOf("idle", c) = Contract!Idle
           /\ AskOf("insert", c) = Contract!Putting(c.key, StoredValue(c))
           /\ \A p \in {"lookup", "lookup_slow"} :
                 AskOf(p, c) = Contract!Getting(c.key, c.now)
           /\ \A p \in EvictPlaces \cup {"count"} : AskOf(p, c) = Contract!Stored
           /\ \A p \in {"touch", "hit", "miss", "expired"} :
                 AskOf(p, c) = Contract!Answered(c.id)
           /\ AskOf("notify", c) = IF c.id # 0 THEN Contract!Stored
                                   ELSE Contract!Answered(c.id)
BY DEF AskOf, EvictPlaces, Contract!Idle, Contract!Putting, Contract!Getting,
       Contract!Stored, Contract!Answered

LEMMA AskMoves ==
    ASSUME Core, NEW t \in Client,
           \A u \in Thread \ {t} : pc'[u] = pc[u] /\ call'[u] = call[u]
    PROVE  AskView' = [AskView EXCEPT ![t] = AskOf(pc'[t], call'[t])]
BY DEF AskView, Thread

LEMMA AskStays ==
    ASSUME Core, NEW t \in Thread,
           \A u \in Thread \ {t} : pc'[u] = pc[u] /\ call'[u] = call[u],
           t \in Client => AskOf(pc'[t], call'[t]) = AskOf(pc[t], call[t])
    PROVE  AskView' = AskView
BY DEF AskView, Thread

LEMMA StoreAt ==
    ASSUME NEW k \in Key
    PROVE  /\ map[k] = NoEntry => StoreView[k] = NoEntry
           /\ map[k] # NoEntry => StoreView[k] = StoredValue(map[k])
BY DEF StoreView

LEMMA PresentIff ==
    ASSUME Core, NEW k \in Key
    PROVE  Contract!Present(k) <=> map[k] # NoEntry
<1>1. map[k] # NoEntry => StoredValue(map[k]) # NoEntry
  BY NoValueAssumption DEF Core, TypeOK, Entry, StoredValue
<1> QED
  BY <1>1, StoreAt DEF Contract!Present

LEMMA ExpiredIff ==
    ASSUME Core, NEW k \in Key, map[k] # NoEntry, NEW now \in Nat
    PROVE  Contract!Expired(StoreView[k], now) <=> IsExpired(map[k], now)
<1>1. map[k].expires_at \in Nat
  BY TimeAssumption DEF Core, TypeOK, Entry
<1>2. StoreView[k].expires_at = map[k].expires_at
  <2>1. StoreView[k] = StoredValue(map[k])
    BY StoreAt
  <2>2. StoredValue(map[k]).expires_at = map[k].expires_at
    BY DEF StoredValue
  <2> QED
    BY <2>1, <2>2
<1> QED
  BY <1>1, <1>2 DEF Contract!Expired, IsExpired

LEMMA StoreStays ==
    ASSUME map' = map
    PROVE  StoreView' = StoreView
BY DEF StoreView

LEMMA StoreForgets ==
    ASSUME Core, NEW k \in Key, map' = [map EXCEPT ![k] = NoEntry]
    PROVE  Contract!Forget(k)
BY DEF Core, TypeOK, StoreView, Contract!Forget, Contract!Set

LEMMA StoreTouched ==
    ASSUME Core, NEW k \in Key, map[k] # NoEntry, NEW n \in Nat,
           map' = [map EXCEPT ![k].last_access = n]
    PROVE  StoreView' = StoreView
<1>1. /\ map[k] \in Entry /\ map'[k] = [map[k] EXCEPT !.last_access = n]
      /\ \A j \in Key \ {k} : map'[j] = map[j]
  BY DEF Core, TypeOK
<1>2. map'[k] \in Entry /\ map'[k] # NoEntry
  BY <1>1, NoEntryAssumption DEF Entry
<1>3. StoredValue(map'[k]) = StoredValue(map[k])
  BY <1>1 DEF StoredValue, Entry
<1> QED
  BY <1>1, <1>2, <1>3 DEF StoreView

LEMMA ChargedIsResident ==
    ASSUME Core
    PROVE  Contract!Charged = Resident
<1>1. \A k \in Key : Contract!Present(k) <=> map[k] # NoEntry
  BY PresentIff
<1>2. \A k \in Live : StoreView[k].size = map[k].size
  <2> SUFFICES ASSUME NEW k \in Live PROVE StoreView[k].size = map[k].size
    OBVIOUS
  <2>1. StoreView[k] = StoredValue(map[k])
    BY StoreAt DEF Live, LiveIn
  <2>2. StoredValue(map[k]).size = map[k].size
    BY DEF StoredValue
  <2> QED
    BY <2>1, <2>2
<1>3. {j \in Key : Contract!Present(j)} = Live
  BY <1>1 DEF Live, LiveIn
<1>4. \A k \in Live :
         {k} \X (1..(KeyLen[k] + StoreView[k].size + Overhead)) = Slots(k, map[k])
  BY <1>2 DEF Slots, EntryRam
<1>5. Contract!Charged =
        UNION {{k} \X (1..(KeyLen[k] + StoreView[k].size + Overhead)) : k \in Live}
  BY <1>3 DEF Contract!Charged
<1> QED
  BY <1>4, <1>5 DEF Resident, ResidentIn, Live

(* Every step of the shard is a step of the contract or leaves it alone.   *)
ContractStep == Contract!Next \/ UNCHANGED Contract!vars

LEMMA NothingSeen ==
    ASSUME StoreView' = StoreView, AskView' = AskView, wall' = wall
    PROVE  ContractStep
BY DEF ContractStep, Contract!vars

LEMMA ContractReturns ==
    ASSUME Core, NEW t \in Thread, Return(t), map' = map, wall' = wall,
           t \in Client => \/ pc[t] \in EvictPlaces \cup {"count", "notify", "hit", "miss", "expired"}
    PROVE  ContractStep
<1>1. \A u \in Thread \ {t} : pc'[u] = pc[u] /\ call'[u] = call[u]
  BY OthersReturn
<1>2. pc'[t] = "idle" /\ StoreView' = StoreView
  BY StoreStays DEF Core, TypeOK, Return, Goto
<1>3. CASE t \in Client
  <2>1. AskView[t].phase \in {"stored", "answered"}
    <3>1. AskView[t] = AskOf(pc[t], call[t])
      BY <1>3 DEF AskView
    <3>2. AskView[t] \in {Contract!Stored, Contract!Answered(call[t].id)}
      BY <1>3, <3>1, AskPlaces
    <3>3. /\ Contract!Stored.phase = "stored"
          /\ Contract!Answered(call[t].id).phase = "answered"
      BY DEF Contract!Stored, Contract!Answered
    <3> QED
      BY <3>2, <3>3
  <2>2. AskView' = [AskView EXCEPT ![t] = Contract!Idle]
    BY <1>1, <1>2, <1>3, AskMoves, AskPlaces
  <2>3. Contract!Return(t)
    BY <1>2, <2>1, <2>2 DEF Contract!Return, Contract!Now
  <2> QED
    BY <1>3, <2>3 DEF ContractStep, Contract!Next
<1>4. CASE t \notin Client
  BY <1>1, <1>2, <1>4, AskStays, NothingSeen
<1> QED
  BY <1>3, <1>4

LEMMA ContractNewCall ==
    ASSUME Core, NEW t \in Thread, NewCall(t)
    PROVE  ContractStep
<1>0. t \in Client /\ pc[t] = "idle" /\ wall' = wall /\ calls < MaxCalls /\ calls \in Nat
  BY DEF Core, TypeOK, NewCall, InsertBegin, LookupBegin, Remove, BeginCall
<1>1. \A u \in Thread \ {t} : pc'[u] = pc[u] /\ call'[u] = call[u]
  BY DEF Core, TypeOK, NewCall, InsertBegin, LookupBegin, Remove, Goto
<1>2. AskView[t] = Contract!Idle
  BY <1>0, AskPlaces DEF AskView
<1>3. CASE InsertBegin(t)
  <2>1. PICK k \in Key, s \in Size, x \in Expiry :
          call' = [call EXCEPT ![t] =
                     [NoCall EXCEPT !.key = k, !.id = calls + 1, !.size = s,
                                    !.expires_at = x, !.stamp = clock]]
    BY <1>3 DEF InsertBegin
  <2>2. /\ pc'[t] = "insert" /\ call'[t].key = k /\ call'[t].id = calls + 1
        /\ call'[t].size = s /\ call'[t].expires_at = x
    BY <1>3, <2>1 DEF Core, TypeOK, InsertBegin, Goto, NoCall
  <2> DEFINE v == [id |-> calls + 1, size |-> s, expires_at |-> x]
  <2>3. v \in Contract!Value
    BY <1>0, BoundAssumption DEF Contract!Value
  <2>4. StoredValue(call'[t]) = v
    BY <2>2 DEF StoredValue
  <2>5. AskOf(pc'[t], call'[t]) = Contract!Putting(k, v)
    BY <2>2, <2>4, AskPlaces
  <2>6. StoreView' = StoreView
    BY <1>3, StoreStays DEF InsertBegin, shardVars
  <2> HIDE DEF v
  <2>7. Contract!CallPut(t)
    BY <1>0, <1>1, <1>2, <2>3, <2>5, <2>6, AskMoves DEF Contract!CallPut, Contract!Now
  <2> QED
    BY <1>0, <2>7 DEF ContractStep, Contract!Next
<1>4. CASE LookupBegin(t)
  <2>1. PICK k \in Key :
          call' = [call EXCEPT ![t] = [NoCall EXCEPT !.key = k, !.now = now_millis]]
    BY <1>4 DEF LookupBegin
  <2>2. pc'[t] = "lookup" /\ call'[t].key = k /\ call'[t].now = now_millis
    BY <1>4, <2>1 DEF Core, TypeOK, LookupBegin, Goto, NoCall
  <2>3. AskOf(pc'[t], call'[t]) = Contract!Getting(k, now_millis)
    BY <2>2, AskPlaces
  <2>4. StoreView' = StoreView
    BY <1>4, StoreStays DEF LookupBegin, shardVars
  <2>5. Contract!CallGet(t)
    BY <1>0, <1>1, <1>2, <2>3, <2>4, AskMoves
       DEF Contract!CallGet, Contract!Now, Contract!now_millis, now_millis
  <2> QED
    BY <1>0, <2>5 DEF ContractStep, Contract!Next
<1>5. CASE Remove(t)
  <2>1. PICK k \in Key : IF map[k] = NoEntry THEN UNCHANGED shardVars
                         ELSE RemoveEntry(k, HasTtl(map[k]))
    BY <1>5 DEF Remove
  <2>2. AskView' = AskView
    BY <1>5 DEF Remove, AskView
  <2>3. CASE map[k] = NoEntry
    BY <1>0, <2>1, <2>2, <2>3, StoreStays, NothingSeen DEF shardVars
  <2>4. CASE map[k] # NoEntry
    <3>1. Contract!Present(k) /\ Contract!Forget(k)
      BY <2>1, <2>4, PresentIff, StoreForgets DEF RemoveEntry
    <3>2. Contract!Delete(t)
      BY <1>0, <1>2, <2>2, <3>1 DEF Contract!Delete
    <3> QED
      BY <1>0, <3>2 DEF ContractStep, Contract!Next
  <2> QED
    BY <2>3, <2>4
<1> QED
  BY <1>3, <1>4, <1>5 DEF NewCall

LEMMA ContractEvict ==
    ASSUME Core, PlaceInv, NEW t \in Thread, InsertLocked(t) \/ Evict(t)
    PROVE  ContractStep
<1>0. wall' = wall /\ t \in Client
  <2>1. pc[t] \in EvictPlaces \cup {"insert"}
    BY DEF InsertLocked, Evict, EvictHint, EvictLocked, EvictRound, EvictUnlock, EvictPlaces
  <2>2. t # Sweeper
    BY <2>1 DEF PlaceInv, Legit, ReapPlaces, EvictPlaces
  <2> QED
    BY <2>2 DEF Thread, InsertLocked, Evict, EvictHint, EvictLocked, EvictRound, EvictUnlock
<1>1. AskView[t] = AskOf(pc[t], call[t])
  BY <1>0 DEF AskView
<1>2. CASE InsertLocked(t)
  <2> DEFINE c == call[t]
             e == [id |-> c.id, size |-> c.size, last_access |-> c.stamp,
                   expires_at |-> c.expires_at]
  <2>1. c \in Call /\ c.key \in Key
    BY DEF Core, TypeOK, Call
  <2>2. e \in Entry /\ e # NoEntry /\ StoredValue(e) = StoredValue(c)
    BY <2>1, NoEntryAssumption DEF Call, Entry, StoredValue
  <2>3. map' = [map EXCEPT ![c.key] = e] /\ pc[t] = "insert"
    BY <1>2 DEF InsertLocked
  <2>4. pc'[t] = "evict_hint" /\ \A u \in Thread \ {t} : pc'[u] = pc[u] /\ call'[u] = call[u]
    BY <1>2 DEF Core, TypeOK, InsertLocked, Goto
  <2> HIDE DEF e, c
  <2>5. StoreView' = [StoreView EXCEPT ![c.key] = StoredValue(c)]
    BY <2>1, <2>2, <2>3 DEF Core, TypeOK, StoreView
  <2>6. AskView[t] = Contract!Putting(c.key, StoredValue(c))
    BY <1>1, <2>3, AskPlaces DEF c
  <2>7. AskView' = [AskView EXCEPT ![t] = Contract!Stored]
    BY <1>0, <2>4, AskMoves, AskPlaces DEF EvictPlaces
  <2>8. /\ AskView[t].phase = "put" /\ AskView[t].key = c.key
        /\ AskView[t].value = StoredValue(c)
    BY <2>6 DEF Contract!Putting
  <2>9. Contract!Put(t)
    BY <1>0, <2>5, <2>7, <2>8 DEF Contract!Put, Contract!Set, Contract!Now
  <2> QED
    BY <1>0, <2>9 DEF ContractStep, Contract!Next
<1>3. CASE EvictHint(t) \/ EvictLocked(t)
  <2>1. map' = map /\ pc[t] \in EvictPlaces
    BY <1>3 DEF EvictHint, EvictLocked, shardVars, EvictPlaces
  <2>2. CASE Return(t)
    BY <1>0, <2>1, <2>2, ContractReturns
  <2>3. CASE ~Return(t)
    <3>1. /\ pc'[t] \in EvictPlaces
          /\ \A u \in Thread \ {t} : pc'[u] = pc[u] /\ call'[u] = call[u]
      BY <1>3, <2>3 DEF Core, TypeOK, EvictHint, EvictLocked, Goto, EvictPlaces
    <3>2. AskView' = AskView
      BY <2>1, <3>1, AskPlaces, AskStays
    <3> QED
      BY <1>0, <2>1, <3>2, StoreStays, NothingSeen
  <2> QED
    BY <2>2, <2>3
<1>4. CASE EvictRound(t)
  <2>1. PICK k \in Key : map[k] # NoEntry /\ map' = [map EXCEPT ![k] = NoEntry]
    BY <1>4 DEF EvictRound, Windows, Dead, Oldest, Live, LiveIn, RemoveEntry
  <2>2. Contract!Present(k) /\ Contract!Forget(k)
    BY <2>1, PresentIff, StoreForgets
  <2>3. AskView[t] = Contract!Stored
    BY <1>1, <1>4, AskPlaces DEF EvictRound, EvictPlaces
  <2>4. AskView' = AskView
    <3>1. pc[t] = "evict_round" /\ pc' = pc /\ \A u \in Thread \ {t} : call'[u] = call[u]
      BY <1>4 DEF Core, TypeOK, EvictRound
    <3> QED
      BY <3>1, AskPlaces, AskStays DEF EvictPlaces
  <2>5. Cardinality(Contract!Charged) > Capacity
    BY <1>4, ChargedIsResident DEF Core, Accounting, EvictRound, OverBudget
  <2>6. \E c \in Client : AskView[c] = Contract!Stored
    BY <1>0, <2>3
  <2>7. \E j \in Key : Contract!Present(j) /\ Contract!Forget(j)
    BY <2>2
  <2>8. Contract!Evict
    BY ONLY <1>0, <2>4, <2>5, <2>6, <2>7 DEF Contract!Evict, Contract!Cardinality, Cardinality
  <2> QED
    BY <2>8 DEF ContractStep, Contract!Next
<1>5. CASE EvictUnlock(t)
  <2>1. /\ pc[t] = "evict_round" /\ pc'[t] = "count" /\ map' = map
        /\ \A u \in Thread \ {t} : pc'[u] = pc[u] /\ call'[u] = call[u]
    BY <1>5 DEF Core, TypeOK, EvictUnlock, Goto, shardVars
  <2>2. AskView' = AskView
    BY <2>1, AskPlaces, AskStays DEF EvictPlaces
  <2> QED
    BY <1>0, <2>1, <2>2, StoreStays, NothingSeen
<1> QED
  BY <1>2, <1>3, <1>4, <1>5 DEF Evict

LEMMA ContractReport ==
    ASSUME Core, PlaceInv, NEW t \in Thread, CountDrops(t) \/ Notify(t)
    PROVE  ContractStep
<1>0. wall' = wall /\ map' = map /\ pc[t] \in {"count", "notify"}
  BY DEF CountDrops, Notify, shardVars
<1>1. CASE Return(t)
  BY <1>0, <1>1, ContractReturns
<1>2. CASE ~Return(t)
  <2>1. /\ pc'[t] = "notify" /\ call'[t] = call[t]
        /\ \A u \in Thread \ {t} : pc'[u] = pc[u] /\ call'[u] = call[u]
    BY <1>2 DEF Core, TypeOK, CountDrops, Notify, ReportAndReturn, Goto
  <2>2. t \in Client /\ pc[t] = "count" => call[t].id # 0
    BY DEF PlaceInv, Legit
  <2>3. AskView' = AskView
    BY <1>0, <2>1, <2>2, AskPlaces, AskStays
  <2> QED
    BY <1>0, <2>3, StoreStays, NothingSeen
<1> QED
  BY <1>1, <1>2

LEMMA ContractReap ==
    ASSUME Core, PlaceInv, NEW t \in Thread, Reap(t)
    PROVE  ContractStep
<1>0. t \notin Client /\ wall' = wall
  BY ThreadAssumption DEF PlaceInv, Legit, ReapPlaces, Reap, ReapHint, ReapClock,
     ReapLocked, ReapDrop, ReapUnlock
<1>1. AskView' = AskView
  <2>1. \A u \in Thread \ {t} : pc'[u] = pc[u] /\ call'[u] = call[u]
    BY DEF Core, TypeOK, Reap, ReapHint, ReapClock, ReapLocked, ReapDrop, ReapUnlock, Goto
  <2> QED
    BY <1>0, <2>1, AskStays
<1>2. CASE ReapHint(t) \/ ReapClock(t) \/ ReapLocked(t) \/ ReapUnlock(t)
  <2>1. map' = map
    BY <1>2 DEF ReapHint, ReapClock, ReapLocked, ReapUnlock, shardVars
  <2> QED
    BY <1>0, <1>1, <2>1, StoreStays, NothingSeen
<1>3. CASE ReapDrop(t)
  <2>1. PICK k \in Key : /\ map[k] # NoEntry /\ IsExpired(map[k], call[t].now)
                         /\ map' = [map EXCEPT ![k] = NoEntry]
    BY <1>3 DEF ReapDrop, Dead, Live, LiveIn, RemoveEntry
  <2>2. Contract!Present(k) /\ Contract!Forget(k)
    BY <2>1, PresentIff, StoreForgets
  <2>3. /\ call[t].now \in Nat /\ now_millis \in Nat /\ call[t].now <= now_millis
        /\ map[k].expires_at \in Nat
    BY <2>1, NowType, TimeAssumption DEF Core, TypeOK, Call, Entry, PlaceInv, Legit
  <2>4. IsExpired(map[k], now_millis)
    BY <2>1, <2>3 DEF IsExpired
  <2>5. Contract!Expired(StoreView[k], Contract!now_millis)
    BY <2>1, <2>3, <2>4, ExpiredIff DEF Contract!now_millis, now_millis
  <2>6. Contract!Expire
    BY <1>0, <1>1, <2>2, <2>5 DEF Contract!Expire
  <2> QED
    BY <2>6 DEF ContractStep, Contract!Next
<1> QED
  BY <1>2, <1>3 DEF Reap

LookupPlaces == {"lookup", "touch", "lookup_slow", "hit", "miss", "expired"}

LEMMA LookupByClient ==
    ASSUME Core, PlaceInv, NEW t \in Thread, Lookup(t)
    PROVE  /\ t \in Client /\ wall' = wall /\ pc[t] \in LookupPlaces
           /\ AskView[t] = AskOf(pc[t], call[t])
<1>1. pc[t] \in LookupPlaces /\ wall' = wall
  BY DEF Lookup, LookupAbsent, LookupLive, LookupTouch, LookupStale, SlowRemove,
     SlowReplaced, SlowGone, LookupHit, LookupMiss, LookupExpired, LookupPlaces
<1>2. t # Sweeper
  BY <1>1 DEF PlaceInv, Legit, ReapPlaces, LookupPlaces
<1> QED
  BY <1>1, <1>2 DEF Thread, AskView

LEMMA GettingFields ==
    ASSUME NEW k, NEW at
    PROVE  /\ Contract!Getting(k, at).phase = "get"
           /\ Contract!Getting(k, at).key = k
           /\ Contract!Getting(k, at).since = at
BY DEF Contract!Getting

(* A lookup that has its answer before it leaves the map.                  *)
LEMMA ContractHit ==
    ASSUME Core, NEW t \in Client, pc[t] \in {"lookup", "lookup_slow"},
           map[call[t].key] # NoEntry, ~IsExpired(map[call[t].key], call[t].now),
           StoreView' = StoreView, wall' = wall,
           AskView' = [AskView EXCEPT ![t] = Contract!Answered(map[call[t].key].id)]
    PROVE  ContractStep
<1> DEFINE k == call[t].key
           now == call[t].now
<1>1. k \in Key /\ now \in Nat /\ t \in Thread
  BY DEF Core, TypeOK, Call, Thread
<1>2. AskView[t] = Contract!Getting(k, now)
  BY <1>1, AskPlaces DEF AskView
<1>3. AskView[t].phase = "get" /\ AskView[t].key = k /\ AskView[t].since = now
  BY <1>2, GettingFields
<1>4. Contract!Present(k) /\ ~Contract!Expired(StoreView[k], now)
  BY <1>1, PresentIff, ExpiredIff
<1>5. StoreView[k].id = map[k].id
  <2>1. StoreView[k] = StoredValue(map[k])
    BY <1>1, StoreAt
  <2>2. StoredValue(map[k]).id = map[k].id
    BY DEF StoredValue
  <2> QED
    BY <2>1, <2>2
<1> HIDE DEF k, now
<1>6. AskView' = [AskView EXCEPT ![t] = Contract!Answered(StoreView[k].id)]
  BY <1>5 DEF k
<1>7. Contract!GetHit(t)
  BY <1>3, <1>4, <1>6 DEF Contract!GetHit, Contract!Now
<1> QED
  BY <1>7 DEF ContractStep, Contract!Next

LEMMA ContractLookup ==
    ASSUME Core, PlaceInv, NEW t \in Thread, Lookup(t)
    PROVE  ContractStep
<1> DEFINE k == call[t].key
           now == call[t].now
<1>0. /\ t \in Client /\ wall' = wall /\ pc[t] \in LookupPlaces
      /\ AskView[t] = AskOf(pc[t], call[t])
      /\ k \in Key /\ now \in Nat
  BY LookupByClient DEF Core, TypeOK, Call
<1>1. pc[t] \in {"lookup", "lookup_slow"} =>
        AskView[t].phase = "get" /\ AskView[t].key = k /\ AskView[t].since = now
  BY <1>0, AskPlaces, GettingFields
<1>2. CASE LookupAbsent(t) \/ SlowGone(t)
  <2>1. /\ map[k] = NoEntry /\ map' = map /\ pc[t] \in {"lookup", "lookup_slow"}
        /\ pc'[t] \in {"miss", "expired"} /\ call' = call
        /\ \A u \in Thread \ {t} : pc'[u] = pc[u] /\ call'[u] = call[u]
    BY <1>2 DEF Core, TypeOK, LookupAbsent, SlowGone, Goto, shardVars
  <2>2. call[t].id = 0
    BY <1>0, <2>1 DEF PlaceInv, Legit
  <2>3. AskView' = [AskView EXCEPT ![t] = Contract!Answered(0)]
    BY <1>0, <2>1, <2>2, AskMoves, AskPlaces
  <2>4. Contract!GetMiss(t)
    BY <1>0, <1>1, <2>1, <2>3, PresentIff, StoreStays DEF Contract!GetMiss, Contract!Now
  <2> QED
    BY <1>0, <2>4 DEF ContractStep, Contract!Next
<1>3. CASE LookupLive(t)
  <2>1. /\ map[k] # NoEntry /\ ~IsExpired(map[k], now) /\ map' = map
        /\ pc[t] = "lookup" /\ pc'[t] = "touch" /\ call'[t].id = map[k].id
        /\ \A u \in Thread \ {t} : pc'[u] = pc[u] /\ call'[u] = call[u]
    BY <1>3 DEF Core, TypeOK, Call, LookupLive, Goto, shardVars
  <2>2. AskView' = [AskView EXCEPT ![t] = Contract!Answered(map[k].id)]
    BY <1>0, <2>1, AskMoves, AskPlaces
  <2> QED
    BY <1>0, <2>1, <2>2, StoreStays, ContractHit
<1>4. CASE LookupTouch(t)
  <2>1. /\ map[k] # NoEntry /\ call[t].stamp \in Nat
        /\ map' = [map EXCEPT ![k].last_access = call[t].stamp]
        /\ pc[t] = "touch" /\ pc'[t] = "hit" /\ call' = call
        /\ \A u \in Thread \ {t} : pc'[u] = pc[u]
    BY <1>4 DEF Core, TypeOK, LockInv, Call, LookupTouch, Goto, histVars
  <2>2. AskView' = AskView
    BY <1>0, <2>1, AskPlaces, AskStays
  <2> QED
    BY <1>0, <2>1, <2>2, StoreTouched, NothingSeen
<1>5. CASE LookupStale(t)
  <2>1. /\ map' = map /\ pc[t] = "lookup" /\ pc'[t] = "lookup_slow" /\ call' = call
        /\ \A u \in Thread \ {t} : pc'[u] = pc[u]
    BY <1>5 DEF Core, TypeOK, LookupStale, Goto, shardVars
  <2>2. AskView' = AskView
    BY <1>0, <2>1, AskPlaces, AskStays
  <2> QED
    BY <1>0, <2>1, <2>2, StoreStays, NothingSeen
<1>6. CASE SlowRemove(t)
  <2>1. /\ map[k] # NoEntry /\ IsExpired(map[k], now)
        /\ map' = [map EXCEPT ![k] = NoEntry] /\ call' = call
        /\ pc[t] = "lookup_slow" /\ pc'[t] = "expired"
        /\ \A u \in Thread \ {t} : pc'[u] = pc[u]
    BY <1>6 DEF Core, TypeOK, SlowRemove, StillDead, RemoveEntry, Goto
  <2>2. call[t].id = 0
    BY <1>0, <2>1 DEF PlaceInv, Legit
  <2>3. AskView' = [AskView EXCEPT ![t] = Contract!Answered(0)]
    BY <1>0, <2>1, <2>2, AskMoves, AskPlaces
  <2>4. /\ Contract!Present(k) /\ Contract!Forget(k)
        /\ Contract!Expired(StoreView[k], now)
    BY <1>0, <2>1, PresentIff, StoreForgets, ExpiredIff
  <2> HIDE DEF k, now
  <2>5. Contract!GetExpired(t)
    BY <1>0, <1>1, <2>1, <2>3, <2>4 DEF Contract!GetExpired, Contract!Now
  <2> QED
    BY <1>0, <2>5 DEF ContractStep, Contract!Next
<1>7. CASE SlowReplaced(t)
  <2>1. /\ map[k] # NoEntry /\ ~IsExpired(map[k], now) /\ clock \in Nat
        /\ map' = [map EXCEPT ![k].last_access = clock]
        /\ pc[t] = "lookup_slow" /\ pc'[t] = "hit" /\ call'[t].id = map[k].id
        /\ \A u \in Thread \ {t} : pc'[u] = pc[u] /\ call'[u] = call[u]
    BY <1>7 DEF Core, TypeOK, Call, SlowReplaced, StillDead, Goto
  <2>2. AskView' = [AskView EXCEPT ![t] = Contract!Answered(map[k].id)]
    BY <1>0, <2>1, AskMoves, AskPlaces
  <2>3. StoreView' = StoreView
    BY <1>0, <2>1, StoreTouched
  <2> QED
    BY <1>0, <2>1, <2>2, <2>3, ContractHit
<1>8. CASE LookupHit(t) \/ LookupMiss(t)
  <2>1. Return(t) /\ map' = map /\ pc[t] \in {"hit", "miss"}
    BY <1>8 DEF LookupHit, LookupMiss, shardVars
  <2> QED
    BY <1>0, <2>1, ContractReturns
<1>9. CASE LookupExpired(t)
  <2>0. map' = map /\ pc[t] = "expired"
    BY <1>9 DEF LookupExpired, shardVars
  <2>1. CASE Return(t)
    BY <1>0, <2>0, <2>1, ContractReturns
  <2>2. CASE ~Return(t)
    <3>1. /\ pc'[t] = "notify" /\ call' = call
          /\ \A u \in Thread \ {t} : pc'[u] = pc[u]
      BY <1>9, <2>2 DEF Core, TypeOK, LookupExpired, ReportAndReturn, Goto
    <3>2. call[t].id = 0
      BY <1>0, <2>0 DEF PlaceInv, Legit
    <3>3. AskView' = AskView
      BY <2>0, <3>1, <3>2, AskPlaces, AskStays
    <3> QED
      BY <1>0, <2>0, <3>3, StoreStays, NothingSeen
  <2> QED
    BY <2>1, <2>2
<1> QED
  BY <1>2, <1>3, <1>4, <1>5, <1>6, <1>7, <1>8, <1>9 DEF Lookup

LEMMA ContractInit == Init => Contract!Init
BY DEF Init, Contract!Init, StoreView, AskView, AskOf, Contract!Idle, Thread

LEMMA ContractNext ==
    ASSUME Core, PlaceInv, [Next]_vars
    PROVE  ContractStep
<1>1. CASE Tick
  <2>1. StoreView' = StoreView /\ AskView' = AskView
    BY <1>1 DEF Tick, shardVars, StoreView, AskView
  <2>2. Contract!Tick
    BY <1>1, <2>1 DEF Tick, Contract!Tick
  <2> QED
    BY <2>2 DEF ContractStep, Contract!Next
<1>2. CASE UNCHANGED vars
  BY <1>2, NothingSeen DEF vars, shardVars, StoreView, AskView
<1>3. ASSUME NEW t \in Thread, NewCall(t) PROVE ContractStep
  BY <1>3, ContractNewCall
<1>4. ASSUME NEW t \in Thread, Continue(t) PROVE ContractStep
  BY <1>4, ContractEvict, ContractReport, ContractLookup, ContractReap DEF Continue
<1> QED
  BY <1>1, <1>2, <1>3, <1>4 DEF Next

(* Seen at the instants the locked sections run, a shard of any size, with *)
(* any clients, is a CacheContract: every step of it is a step of the      *)
(* contract or one the contract does not see (cache.rs:604-716, 745-847,   *)
(* 887-916).                                                               *)
THEOREM ContractImplemented == Spec => ImplementsContract
<1>1. Core /\ PlaceInv /\ [Next]_vars => PlaceInv'
  BY PlaceStep
<1>2. Spec => []PlaceInv
  BY <1>1, PlaceInit, CoreAlways, PTL DEF Spec
<1>3. Core /\ PlaceInv /\ [Next]_vars => [Contract!Next]_(Contract!vars)
  BY ContractNext DEF ContractStep
<1> QED
  BY <1>2, <1>3, ContractInit, CoreAlways, PTL DEF Spec, ImplementsContract, Contract!Spec
=============================================================================
