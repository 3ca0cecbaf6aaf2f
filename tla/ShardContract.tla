--------------------------- MODULE ShardContract ---------------------------
(***************************************************************************)
(* A shard, with its locks, stale readings and sampled eviction, implements *)
(* CacheContract.                                                          *)
(***************************************************************************)
EXTENDS Shard

StoredValue(e) == [id |-> e.id, size |-> e.size, expires_at |-> e.expires_at]

StoreView == [k \in Key |-> IF map[k] = NoEntry THEN NoEntry ELSE StoredValue(map[k])]

(* An empty slot is no value either.                                       *)
ASSUME NoValueAssumption ==
    NoEntry \notin [id : Nat, size : Size, expires_at : Expiry]

(* Where a client stands, seen from outside: a put has taken effect once   *)
(* InsertLocked has run, a get has its answer once it has left the map.    *)
AskOf(place, c) ==
    CASE place = "idle" -> [phase |-> "idle"]
      [] place = "insert" ->
           [phase |-> "put", key |-> c.key, value |-> StoredValue(c)]
      [] place \in {"lookup", "lookup_slow"} ->
           [phase |-> "get", key |-> c.key, since |-> c.now]
      [] \/ place \in {"evict_hint", "evict_lock", "evict_round", "count"}
         \/ place = "notify" /\ c.id # 0 -> [phase |-> "stored"]
      [] OTHER -> [phase |-> "answered", id |-> c.id]

AskView == [t \in Client |-> AskOf(pc[t], call[t])]

Contract == INSTANCE CacheContract
              WITH store <- StoreView, ask <- AskView, Nothing <- NoEntry,
                   Id <- 1..MaxCalls

(* Puts, gets, deletes, expiry and eviction of the shard, seen at the      *)
(* instants their locked sections run, are those of the contract: a get    *)
(* never answers with a value that was overwritten, deleted or dead at the *)
(* clock reading the get began with, never misses one that was there, and  *)
(* no stale reading makes the slow path, the sweep or an eviction drop an  *)
(* entry that is live (cache.rs:604-716, 745-847, 887-916).                *)
ImplementsContract == Contract!Spec
=============================================================================
