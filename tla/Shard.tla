------------------------------- MODULE Shard -------------------------------
(***************************************************************************)
(* One shard of CacheEngine (falcon-storage/src/cache.rs): the map behind  *)
(* an RwLock, the byte and TTL counts kept with it, their lock-free        *)
(* mirrors, the access clock and the counters.                             *)
(*                                                                         *)
(* Clients call insert, lookup and remove on it; the Sweeper calls         *)
(* reap_shard.  A step is what one thread does between two points where    *)
(* another thread can see or change shared state: taking a stamp, reading  *)
(* a hint, a section under the lock, a round of eviction, one call of the  *)
(* removal listener.  A shard has its own lock, clock, budget and counters *)
(* and shares nothing with the others, so one shard is the whole engine as *)
(* far as these operations go.                                             *)
(***************************************************************************)
EXTENDS Integers, FiniteSets

CONSTANTS
    Key,          \* the keys routed to this shard
    KeyLen,       \* key.len(), a function of the key
    Size,         \* the lengths a value may have
    Overhead,     \* ENTRY_OVERHEAD
    MaxRam,       \* an upper bound of entry_ram over Key and Size
    Capacity,     \* Shard::capacity, the shard's budget in bytes
    EvictSample,  \* CacheEngine::evict_sample, at least 1
    Expiry,       \* the expires_at values writers pass; 0 = never expires
    Client,       \* threads that serve requests
    Sweeper,      \* the task spawn_maintenance starts
    WallTime,     \* the readings the system clock gives, in order
    MaxCalls,     \* BOUND: how many calls the clients make in all
    NoEntry,      \* an empty slot of the map
    Nobody        \* no thread holds the write lock

Thread == Client \cup {Sweeper}

ASSUME ThreadAssumption == Sweeper \notin Client /\ Nobody \notin Thread
ASSUME BoundAssumption  == MaxCalls \in Nat
ASSUME TimeAssumption   == /\ WallTime \subseteq Int
                           /\ Expiry \subseteq Nat /\ Expiry # {}
ASSUME BudgetAssumption == Capacity \in Nat \ {0} /\ EvictSample \in Nat \ {0}
ASSUME KeyAssumption    == /\ IsFiniteSet(Key) /\ Key # {}
                           /\ KeyLen \in [Key -> Nat]
ASSUME SizeAssumption   == /\ Size \subseteq Nat /\ Size # {}
                           /\ Overhead \in Nat \ {0}
ASSUME MaxRamAssumption == /\ MaxRam \in Nat
                           /\ \A k \in Key, s \in Size :
                                 KeyLen[k] + s + Overhead <= MaxRam
ASSUME FiniteClients    == IsFiniteSet(Client)

VARIABLES
    map,        \* ShardInner::map
    bytes,      \* ShardInner::bytes
    ttl_keys,   \* ShardInner::ttl_keys
    bytes_hint, \* Shard::bytes_hint
    ttl_hint,   \* Shard::ttl_hint
    clock,      \* ShardCounters::clock
    stats,      \* the other ShardCounters
    writer,     \* the thread that keeps the write lock from step to step
    readers,    \* the threads that keep the shared lock from step to step
    wall,       \* the system clock; negative = before the unix epoch
    pc,         \* where each thread is
    call,       \* the arguments and locals of each thread's current call
    removed,    \* the removals a thread has made and not yet reported
    calls,      \* history: how many client calls have begun
    drops,      \* history: every entry the engine dropped of its own accord
    reported    \* history: the drops the listener has been told of

shardVars == <<map, bytes, ttl_keys, bytes_hint, ttl_hint>>
lockVars  == <<writer, readers>>
histVars  == <<calls, drops, reported>>
vars == <<shardVars, clock, stats, lockVars, wall, pc, call, removed, histVars>>

Causes == {"Evicted", "Expired"}

(* One map slot.  id stands for the value bytes: it names the insert that  *)
(* wrote them.                                                             *)
Entry == [id : Nat, size : Size, last_access : Nat, expires_at : Expiry]
ASSUME NoEntryAssumption == NoEntry \notin Entry

Drop  == [id : Nat, key : Key, cause : Causes]

(* The locals of a call: id is the value it writes or found, now the clock *)
(* reading it took, stamp the access stamp, rounds what evict_shard has    *)
(* left to try.                                                            *)
Call == [key : Key, id : Nat, size : Size, expires_at : Expiry,
         stamp : Nat, now : Nat, rounds : Nat]

NoCall == [key |-> CHOOSE k \in Key : TRUE, id |-> 0,
           size |-> CHOOSE s \in Size : TRUE,
           expires_at |-> CHOOSE x \in Expiry : TRUE,
           stamp |-> 0, now |-> 0, rounds |-> 0]

(* now_millis_u64: a clock before the epoch reads as 0.                    *)
now_millis == IF wall < 0 THEN 0 ELSE wall

IsExpired(e, now) == e.expires_at # 0 /\ now >= e.expires_at

HasTtl(e) == IF e.expires_at # 0 THEN 1 ELSE 0

EntryRam(k, size) == KeyLen[k] + size + Overhead

LiveIn(m) == {k \in Key : m[k] # NoEntry}
Live == LiveIn(map)

(* The definitions named Bad... are the mistakes the runs' properties are  *)
(* tested against; no specification uses them.                             *)
BadSaturatingSub(a, b) == b - a

saturating_sub(a, b) == IF a < b THEN 0 ELSE a - b

(* Both counts change only together with their mirrors, under the lock.    *)
SetBytes(n) == bytes' = n /\ bytes_hint' = n

BadAddTtlKeys(delta) ==
    ttl_keys' = ttl_keys + delta /\ UNCHANGED ttl_hint

AddTtlKeys(delta) ==
    IF delta = 0 THEN UNCHANGED <<ttl_keys, ttl_hint>>
    ELSE /\ ttl_keys' = saturating_sub(ttl_keys, -delta)
         /\ ttl_hint' = ttl_keys'

(* Take k out of the map and give its bytes and its TTL back.              *)
RemoveEntry(k, ttl) ==
    /\ map' = [map EXCEPT ![k] = NoEntry]
    /\ SetBytes(saturating_sub(bytes, EntryRam(k, map[k].size)))
    /\ AddTtlKeys(-ttl)

(* The RwLock: a shared holder excludes the writer, the writer everyone.   *)
CanRead  == writer = Nobody
CanWrite == writer = Nobody /\ readers = {}

BadUnlock == UNCHANGED writer

Unlock == writer' = Nobody

Goto(t, label) == pc' = [pc EXCEPT ![t] = label]

Return(t) == Goto(t, "idle") /\ call' = [call EXCEPT ![t] = NoCall]

BadReportAndReturn(t) == Return(t)

(* Before it returns, a call reports what it removed, if anything.         *)
ReportAndReturn(t) ==
    IF removed[t] = {} THEN Return(t) ELSE Goto(t, "notify") /\ UNCHANGED call

RecordDrop(t, k, cause) ==
    LET d == [id |-> map[k].id, key |-> k, cause |-> cause]
    IN  /\ removed' = [removed EXCEPT ![t] = @ \cup {d}]
        /\ drops' = drops \cup {d}

BeginCall(t) == t \in Client /\ pc[t] = "idle" /\ calls < MaxCalls

BadTakeStamp == UNCHANGED clock

TakeStamp == clock' = clock + 1

Init ==
    /\ map = [k \in Key |-> NoEntry]
    /\ bytes = 0 /\ bytes_hint = 0
    /\ ttl_keys = 0 /\ ttl_hint = 0
    /\ clock = 0
    /\ stats = [hits |-> 0, misses |-> 0, evictions |-> 0, expired |-> 0]
    /\ writer = Nobody /\ readers = {}
    /\ wall \in WallTime
    /\ pc = [t \in Thread |-> "idle"]
    /\ call = [t \in Thread |-> NoCall]
    /\ removed = [t \in Thread |-> {}]
    /\ calls = 0 /\ drops = {} /\ reported = {}

-----------------------------------------------------------------------------
(* insert: the stamp is taken before the lock, the budget enforced after   *)
(* it has been released.                                                   *)

InsertBegin(t) ==
    /\ BeginCall(t)
    /\ \E k \in Key, s \in Size, x \in Expiry :
          call' = [call EXCEPT ![t] =
                     [NoCall EXCEPT !.key = k, !.id = calls + 1, !.size = s,
                                    !.expires_at = x, !.stamp = clock]]
    /\ TakeStamp
    /\ calls' = calls + 1
    /\ Goto(t, "insert")
    /\ UNCHANGED <<shardVars, stats, lockVars, wall, removed, drops, reported>>

BadFreed(k, e) == 0

(* What the slot an insert takes over gives back.                          *)
Freed(k, e) == IF e = NoEntry THEN 0 ELSE EntryRam(k, e.size)

TtlFreed(e) == IF e = NoEntry THEN 0 ELSE HasTtl(e)

InsertLocked(t) ==
    LET c == call[t]
    IN  /\ pc[t] = "insert" /\ CanWrite
        /\ map' = [map EXCEPT ![c.key] =
                     [id |-> c.id, size |-> c.size, last_access |-> c.stamp,
                      expires_at |-> c.expires_at]]
        /\ SetBytes(bytes + EntryRam(c.key, c.size) - Freed(c.key, map[c.key]))
        /\ AddTtlKeys(HasTtl(c) - TtlFreed(map[c.key]))
        /\ Goto(t, "evict_hint")
        /\ UNCHANGED <<clock, stats, lockVars, wall, call, removed, histVars>>

-----------------------------------------------------------------------------
(* evict_shard, the tail of every insert.                                  *)

EvictHint(t) ==
    /\ pc[t] = "evict_hint"
    /\ IF bytes_hint <= Capacity THEN Return(t)
       ELSE Goto(t, "evict_lock") /\ UNCHANGED call
    /\ UNCHANGED <<shardVars, clock, stats, lockVars, wall, removed, histVars>>

BadRounds == 1

(* The work one call may do: enough to empty the shard.                    *)
Rounds == Cardinality(Live) + EvictSample

EvictLocked(t) ==
    /\ pc[t] = "evict_lock" /\ CanWrite
    /\ IF bytes <= Capacity
       THEN Return(t) /\ UNCHANGED writer
       ELSE /\ writer' = t
            /\ call' = [call EXCEPT ![t].now = now_millis, ![t].rounds = Rounds]
            /\ Goto(t, "evict_round")
    /\ UNCHANGED <<shardVars, clock, stats, readers, wall, removed, histVars>>

OverBudget(t) == bytes > Capacity /\ call[t].rounds > 0 /\ Live # {}

(* A round looks at EvictSample entries, or at all of them when there are  *)
(* fewer.  Bucket order and the random start say nothing about an entry,   *)
(* so the window is any set of that many.                                  *)
Windows ==
    LET n == Cardinality(Live)
    IN  {w \in SUBSET Live :
           Cardinality(w) = IF EvictSample < n THEN EvictSample ELSE n}

Dead(w, now) == {k \in w : IsExpired(map[k], now)}

BadOldest(w) ==
    {k \in w : \A j \in w : map[k].last_access >= map[j].last_access}

Oldest(w) ==
    {k \in w : \A j \in w : map[k].last_access <= map[j].last_access}

EvictRound(t) ==
    /\ pc[t] = "evict_round" /\ OverBudget(t)
    /\ call' = [call EXCEPT ![t].rounds = @ - 1]
    /\ \E w \in Windows :
         LET dead == Dead(w, call[t].now)
         IN  \E k \in IF dead # {} THEN dead ELSE Oldest(w) :
               /\ RemoveEntry(k, HasTtl(map[k]))
               /\ RecordDrop(t, k, IF dead # {} THEN "Expired" ELSE "Evicted")
    /\ UNCHANGED <<clock, stats, lockVars, wall, pc, calls, reported>>

EvictUnlock(t) ==
    /\ pc[t] = "evict_round" /\ ~OverBudget(t)
    /\ Unlock
    /\ Goto(t, "count")
    /\ UNCHANGED <<shardVars, clock, stats, readers, wall, call, removed, histVars>>

(* What a thread removed is added to the counters after the unlock, by     *)
(* evict_shard and by reap_shard alike.                                    *)
(* One fetch_add on a counter.                                             *)
Counted(s, counter, n) == [s EXCEPT ![counter] = @ + n]

DropsBy(cause, S) == {d \in S : d.cause = cause}

BadDropCount(t, cause) ==
    IF DropsBy(cause, removed[t]) = {} THEN 0 ELSE 1

DropCount(t, cause) == Cardinality(DropsBy(cause, removed[t]))

CountDrops(t) ==
    /\ pc[t] = "count"
    /\ stats' = Counted(Counted(stats, "evictions", DropCount(t, "Evicted")),
                        "expired", DropCount(t, "Expired"))
    /\ ReportAndReturn(t)
    /\ UNCHANGED <<shardVars, clock, lockVars, wall, removed, histVars>>

(* notify_removed: one listener call per key, no lock held.                *)
Notify(t) ==
    /\ pc[t] = "notify"
    /\ \E d \in removed[t] :
          /\ reported' = reported \cup {d}
          /\ removed' = [removed EXCEPT ![t] = @ \ {d}]
          /\ IF removed[t] = {d} THEN Return(t) ELSE UNCHANGED <<pc, call>>
    /\ UNCHANGED <<shardVars, clock, stats, lockVars, wall, calls, drops>>

-----------------------------------------------------------------------------
(* lookup: the clock is read once, before the shared lock is taken.        *)

LookupBegin(t) ==
    /\ BeginCall(t)
    /\ \E k \in Key :
          call' = [call EXCEPT ![t] = [NoCall EXCEPT !.key = k, !.now = now_millis]]
    /\ calls' = calls + 1
    /\ Goto(t, "lookup")
    /\ UNCHANGED <<shardVars, clock, stats, lockVars, wall, removed, drops, reported>>

LookupAbsent(t) ==
    /\ pc[t] = "lookup" /\ CanRead
    /\ map[call[t].key] = NoEntry
    /\ Goto(t, "miss")
    /\ UNCHANGED <<shardVars, clock, stats, lockVars, wall, call, removed, histVars>>

(* A live entry: the stamp is taken while the shared lock is held ...      *)
LookupLive(t) ==
    LET e == map[call[t].key]
    IN  /\ pc[t] = "lookup" /\ CanRead
        /\ e # NoEntry /\ ~IsExpired(e, call[t].now)
        /\ call' = [call EXCEPT ![t].id = e.id, ![t].stamp = clock]
        /\ TakeStamp
        /\ readers' = readers \cup {t}
        /\ Goto(t, "touch")
        /\ UNCHANGED <<shardVars, stats, writer, wall, removed, histVars>>

(* ... and stored, perhaps after another reader's store, before it is let  *)
(* go.                                                                     *)
LookupTouch(t) ==
    /\ pc[t] = "touch"
    /\ map' = [map EXCEPT ![call[t].key].last_access = call[t].stamp]
    /\ readers' = readers \ {t}
    /\ Goto(t, "hit")
    /\ UNCHANGED <<bytes, ttl_keys, bytes_hint, ttl_hint, clock, stats, writer,
                   wall, call, removed, histVars>>

LookupStale(t) ==
    LET e == map[call[t].key]
    IN  /\ pc[t] = "lookup" /\ CanRead
        /\ e # NoEntry /\ IsExpired(e, call[t].now)
        /\ Goto(t, "lookup_slow")
        /\ UNCHANGED <<shardVars, clock, stats, lockVars, wall, call, removed, histVars>>

(* The slow path looks again under the write lock, with the reading the    *)
(* call began with.                                                        *)
BadStillDead(k, now) == map[k] # NoEntry

StillDead(k, now) == map[k] # NoEntry /\ IsExpired(map[k], now)

SlowRemove(t) ==
    LET k == call[t].key
    IN  /\ pc[t] = "lookup_slow" /\ CanWrite
        /\ StillDead(k, call[t].now)
        /\ RemoveEntry(k, 1)
        /\ RecordDrop(t, k, "Expired")
        /\ Goto(t, "expired")
        /\ UNCHANGED <<clock, stats, lockVars, wall, call, calls, reported>>

SlowReplaced(t) ==
    LET k == call[t].key
    IN  /\ pc[t] = "lookup_slow" /\ CanWrite
        /\ map[k] # NoEntry /\ ~StillDead(k, call[t].now)
        /\ map' = [map EXCEPT ![k].last_access = clock]
        /\ TakeStamp
        /\ call' = [call EXCEPT ![t].id = map[k].id]
        /\ Goto(t, "hit")
        /\ UNCHANGED <<bytes, ttl_keys, bytes_hint, ttl_hint, stats, lockVars,
                       wall, removed, histVars>>

SlowGone(t) ==
    /\ pc[t] = "lookup_slow" /\ CanWrite
    /\ map[call[t].key] = NoEntry
    /\ Goto(t, "expired")
    /\ UNCHANGED <<shardVars, clock, stats, lockVars, wall, call, removed, histVars>>

LookupHit(t) ==
    /\ pc[t] = "hit"
    /\ stats' = Counted(stats, "hits", 1)
    /\ Return(t)
    /\ UNCHANGED <<shardVars, clock, lockVars, wall, removed, histVars>>

LookupMiss(t) ==
    /\ pc[t] = "miss"
    /\ stats' = Counted(stats, "misses", 1)
    /\ Return(t)
    /\ UNCHANGED <<shardVars, clock, lockVars, wall, removed, histVars>>

LookupExpired(t) ==
    /\ pc[t] = "expired"
    /\ stats' = Counted(Counted(stats, "expired", 1), "misses", 1)
    /\ ReportAndReturn(t)
    /\ UNCHANGED <<shardVars, clock, lockVars, wall, removed, histVars>>

-----------------------------------------------------------------------------
(* remove is one section under the write lock.                             *)
Remove(t) ==
    /\ BeginCall(t) /\ CanWrite
    /\ calls' = calls + 1
    /\ \E k \in Key :
          IF map[k] = NoEntry THEN UNCHANGED shardVars
          ELSE RemoveEntry(k, HasTtl(map[k]))
    /\ UNCHANGED <<clock, stats, lockVars, wall, pc, call, removed, drops, reported>>

-----------------------------------------------------------------------------
(* reap_shard: the clock is read before the lock is taken, and every entry *)
(* dead at that reading is dropped in one locked section.                  *)

ReapHint(t) ==
    /\ t = Sweeper /\ pc[t] = "idle" /\ ttl_hint # 0
    /\ Goto(t, "reap_clock")
    /\ UNCHANGED <<shardVars, clock, stats, lockVars, wall, call, removed, histVars>>

ReapClock(t) ==
    /\ pc[t] = "reap_clock"
    /\ call' = [call EXCEPT ![t].now = now_millis]
    /\ Goto(t, "reap_lock")
    /\ UNCHANGED <<shardVars, clock, stats, lockVars, wall, removed, histVars>>

ReapLocked(t) ==
    /\ pc[t] = "reap_lock" /\ CanWrite
    /\ writer' = t
    /\ Goto(t, "reap_drop")
    /\ UNCHANGED <<shardVars, clock, stats, readers, wall, call, removed, histVars>>

ReapDrop(t) ==
    /\ pc[t] = "reap_drop"
    /\ \E k \in Dead(Live, call[t].now) :
          RemoveEntry(k, 1) /\ RecordDrop(t, k, "Expired")
    /\ UNCHANGED <<clock, stats, lockVars, wall, pc, call, calls, reported>>

ReapUnlock(t) ==
    /\ pc[t] = "reap_drop"
    /\ Dead(Live, call[t].now) = {}
    /\ Unlock
    /\ Goto(t, "count")
    /\ UNCHANGED <<shardVars, clock, stats, readers, wall, call, removed, histVars>>

-----------------------------------------------------------------------------
(* The system clock moves on.                                              *)
Tick ==
    /\ \E w \in WallTime : w > wall /\ wall' = w
    /\ UNCHANGED <<shardVars, clock, stats, lockVars, pc, call, removed, histVars>>

Evict(t) == EvictHint(t) \/ EvictLocked(t) \/ EvictRound(t) \/ EvictUnlock(t)

Lookup(t) ==
    \/ LookupAbsent(t) \/ LookupLive(t) \/ LookupTouch(t) \/ LookupStale(t)
    \/ SlowRemove(t) \/ SlowReplaced(t) \/ SlowGone(t)
    \/ LookupHit(t) \/ LookupMiss(t) \/ LookupExpired(t)

Reap(t) ==
    ReapHint(t) \/ ReapClock(t) \/ ReapLocked(t) \/ ReapDrop(t) \/ ReapUnlock(t)

(* A call that has begun, or a sweep that finds the hint set.              *)
Continue(t) ==
    InsertLocked(t) \/ Evict(t) \/ CountDrops(t) \/ Notify(t) \/ Lookup(t) \/ Reap(t)

NewCall(t) == InsertBegin(t) \/ LookupBegin(t) \/ Remove(t)

Next == Tick \/ \E t \in Thread : NewCall(t) \/ Continue(t)

Spec == Init /\ [][Next]_vars

(* Threads are scheduled by the OS and the sweeper by tokio: none of them  *)
(* is suspended for ever in the middle of a call, and time passes.         *)
FairSpec == Spec /\ (\A t \in Thread : WF_vars(Continue(t))) /\ WF_vars(Tick)
-----------------------------------------------------------------------------
(* Properties.                                                             *)

TypeOK ==
    /\ map \in [Key -> Entry \cup {NoEntry}]
    /\ bytes \in Nat /\ bytes_hint \in Nat
    /\ ttl_keys \in Nat /\ ttl_hint \in Nat
    /\ clock \in Nat
    /\ stats \in [hits : Nat, misses : Nat, evictions : Nat, expired : Nat]
    /\ writer \in Thread \cup {Nobody}
    /\ readers \subseteq Thread
    /\ wall \in WallTime
    /\ pc \in [Thread -> {"idle", "insert", "evict_hint", "evict_lock",
                          "evict_round", "count", "notify", "lookup", "touch",
                          "lookup_slow", "hit", "miss", "expired",
                          "reap_clock", "reap_lock", "reap_drop"}]
    /\ call \in [Thread -> Call]
    /\ removed \in [Thread -> SUBSET Drop]
    /\ calls \in Nat
    /\ drops \subseteq Drop /\ reported \subseteq Drop

(* Every byte charged to the shard, as a set: entry k owns EntryRam(k) of  *)
(* them.  Its cardinality is the sum entry_ram takes over the map.         *)
Slots(k, e) == {k} \X (1..EntryRam(k, e.size))
ResidentIn(m) == UNION {Slots(k, m[k]) : k \in LiveIn(m)}
ExpiringIn(m) == {k \in LiveIn(m) : m[k].expires_at # 0}
Resident == ResidentIn(map)
Expiring == ExpiringIn(map)

(* The two running counts equal what a walk of the map would find,         *)
(* whatever mix of overwrites, deletes, evictions and expiries has run     *)
(* (cache.rs:225-239, and the drift count_ttl_keys_by_scan exists to       *)
(* detect), so no saturating subtraction ever saturates.                   *)
Accounting ==
    /\ bytes = Cardinality(Resident)
    /\ ttl_keys = Cardinality(Expiring)

(* The inserts that have grown the shard and not finished evict_shard.     *)
Evicting == {t \in Thread : pc[t] \in {"evict_hint", "evict_lock", "evict_round"}}

(* insert enforces the budget only after it has let the lock go, from a    *)
(* hint it reads without one; still the shard is over its budget by no     *)
(* more than the inserts in flight can have added, so it is within it      *)
(* whenever no insert is in flight (cache.rs:325-333, 641-643, 751).       *)
BoundedOverrun == bytes <= Capacity + MaxRam * Cardinality(Evicting)

(* No two resident entries ever carry the same access stamp, although      *)
(* stamps are taken before the locks and stored under a shared one: the    *)
(* counter never leaves eviction a tie (cache.rs:132-135, 578).            *)
DistinctStamps ==
    \A j, k \in Live : map[j].last_access = map[k].last_access => j = k

(* Everything the engine drops of its own accord reaches the listener      *)
(* exactly once, whichever of two lookups, an eviction and the sweep gets  *)
(* to a dead entry first, and what was dropped is not resident             *)
(* (cache.rs:173-184, 541-551, 683-711).                                   *)
EachDropReportedOnce ==
    /\ drops = reported \cup UNION {removed[t] : t \in Thread}
    /\ \A t \in Thread : removed[t] \cap reported = {}
    /\ \A s, t \in Thread : s # t => removed[s] \cap removed[t] = {}
    /\ \A c, d \in drops : c.id = d.id => c = d
    /\ \A d \in drops, k \in Live : map[k].id # d.id
    /\ \A t \in Thread : pc[t] = "idle" => removed[t] = {}

Uncounted ==
    UNION {removed[t] : t \in {u \in Thread :
              pc[u] \in {"evict_round", "reap_drop", "count", "expired"}}}

(* The evictions counter is the number of entries evicted, less those a    *)
(* thread still has to add, and expired never lags the entries that        *)
(* expired (cache.rs:195-199, 836-845, 913-915).                           *)
CountersCoverDrops ==
    /\ stats.evictions = Cardinality(DropsBy("Evicted", drops \ Uncounted))
    /\ stats.expired >= Cardinality(DropsBy("Expired", drops \ Uncounted))

(* Sampling two entries or more, eviction never drops the entry with the   *)
(* newest stamp while it holds another: the write that overfills a shard   *)
(* does not push out the key used last (cache.rs:88-93, 733-744).          *)
NewestSurvives ==
    [][\A d \in drops' \ drops :
          d.cause = "Evicted" /\ EvictSample >= 2 /\ Cardinality(Live) >= 2
          => \E j \in Live : map[j].last_access > map[d.key].last_access]_vars

(* Every call returns: no two threads wait for each other's lock and no    *)
(* eviction loop spins (cache.rs:764-766).                                 *)
CallsReturn == \A t \in Thread : pc[t] # "idle" ~> pc[t] = "idle"

(* An entry whose TTL has passed leaves the shard even if nobody ever      *)
(* reads it again: the lock-free hint never hides it from the sweep        *)
(* (cache.rs:297-300, 553-555, 887-891).                                   *)
ExpiredReclaimed ==
    \A k \in Key, i \in 1..MaxCalls :
       map[k] # NoEntry /\ map[k].id = i /\ IsExpired(map[k], now_millis)
       ~> map[k] = NoEntry \/ map[k].id # i
=============================================================================
