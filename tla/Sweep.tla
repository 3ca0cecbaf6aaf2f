------------------------------- MODULE Sweep -------------------------------
(***************************************************************************)
(* The background TTL sweep of one CacheEngine (falcon-storage/src/        *)
(* cache.rs): the maintenance task sleeps for as long as its SweepPacer    *)
(* says, visits the next few shards from a cursor that wraps, and tells    *)
(* the pacer what it reclaimed.                                            *)
(*                                                                         *)
(* Shard models what a visit does to a shard; here a shard only holds dead *)
(* entries or does not, and entries die, are read or are deleted at any    *)
(* moment, also between two visits of one tick.  Durations are counted in  *)
(* microseconds, exactly as Duration holds them: halving thirty seconds    *)
(* seven times leaves no fraction.                                         *)
(***************************************************************************)
EXTENDS Integers, FiniteSets

CONSTANTS
    NShards,      \* shards.len(), a power of two
    CursorWord,   \* 2^usize::BITS: where the cursor's fetch_add wraps
    FirstCursor,  \* the cursors a run may start from
    Offset,       \* the random offsets of the jitter, in thousandths of spread
    Watched,      \* the shard whose longest-dead entry the model times
    Mortal        \* BOUND: the shards in which entries expire

SweepShardDivisor == 8

Shards == 0..(NShards - 1)

ASSUME ShardAssumption ==
    /\ NShards \in Nat \ {0} /\ Watched \in Shards
    /\ CursorWord \in Nat \ {0}
    /\ FirstCursor \subseteq 0..(CursorWord - 1)
    /\ Offset \subseteq 0..999
    /\ Mortal \subseteq Shards

VARIABLES
    cursor,   \* CacheEngine::sweep_cursor
    start,    \* what reap_some read of it
    visited,  \* the loop index of reap_some: shards this tick has visited
    found,    \* the length of removed: what this tick has reclaimed
    delay,    \* SweepPacer::delay
    task,     \* where the maintenance task is
    dead,     \* the shards that hold an expired entry
    waiting,  \* history: how long the watched shard's dead entry has waited
    since     \* history: ticks begun since each shard was last visited

vars == <<cursor, start, visited, found, delay, task, dead, waiting, since>>

Millisecond == 1000
Second == 1000 * Millisecond

MinDelay   == 250 * Millisecond
MaxDelay   == 30 * Second
StartDelay == Second

Least(x, y) == IF x <= y THEN x ELSE y
Greatest(x, y) == IF x >= y THEN x ELSE y

(* The definitions named Bad... are the mistakes the runs' properties are  *)
(* tested against; no specification uses them.                             *)
BadObserve(d, reclaimed) ==
    IF reclaimed = 0 THEN d * 2 ELSE Greatest(d \div 2, MinDelay)

(* Back off when a sweep found nothing, close in when it found something.  *)
observe(d, reclaimed) ==
    IF reclaimed = 0 THEN Least(d * 2, MaxDelay) ELSE Greatest(d \div 2, MinDelay)

(* spread is counted in whole milliseconds, half of the delay's.           *)
Spread(d) == (d \div Millisecond) \div 2

BadNextDelay(d, o) == d + ((Spread(d) * o) \div 1000) * Millisecond

(* The delay moved by a random offset below spread, centred on it.         *)
next_delay(d, o) ==
    d + ((Spread(d) * o) \div 1000) * Millisecond
      - (Spread(d) \div 2) * Millisecond

per_tick == Greatest(NShards \div SweepShardDivisor, 1)

(* shard_count answers with a power of two, and so does 2^usize::BITS.     *)
ASSUME TurnAssumption ==
    CursorWord % NShards = 0 /\ NShards % per_tick = 0

(* How many ticks a full turn of the cursor takes.                         *)
Rotation == NShards \div per_tick

Init ==
    /\ cursor \in FirstCursor
    /\ start = 0 /\ visited = 0 /\ found = 0
    /\ delay = StartDelay
    /\ task = "sleeping"
    /\ dead = {} /\ waiting = 0
    /\ since = [s \in Shards |-> 0]

(* An entry's TTL passes.                                                  *)
Expire(s) ==
    /\ s \notin dead
    /\ dead' = dead \cup {s}
    /\ UNCHANGED <<cursor, start, visited, found, delay, task, waiting, since>>

(* The dead entries of a shard are read, deleted, overwritten or evicted   *)
(* before a visit.                                                         *)
Disappear(s) ==
    /\ s \in dead
    /\ dead' = dead \ {s}
    /\ waiting' = IF s = Watched THEN 0 ELSE waiting
    /\ UNCHANGED <<cursor, start, visited, found, delay, task, since>>

BadAdvance == Least(per_tick, NShards) + 1

Advance == per_tick

(* The sleep ends and reap_some moves the cursor on, in one fetch_add.     *)
Wake ==
    /\ task = "sleeping"
    /\ task' = "sweeping"
    /\ start' = cursor
    /\ cursor' = (cursor + Advance) % CursorWord
    /\ visited' = 0 /\ found' = 0
    /\ \E o \in Offset :
          waiting' = IF Watched \in dead THEN waiting + next_delay(delay, o)
                     ELSE waiting
    /\ since' = [s \in Shards |-> since[s] + 1]
    /\ UNCHANGED <<delay, dead>>

(* reap_shard on the next shard.                                           *)
Visit ==
    LET s == ((start + visited) % CursorWord) % NShards
    IN  /\ task = "sweeping" /\ visited < Least(per_tick, NShards)
        /\ visited' = visited + 1
        /\ found' = IF s \in dead THEN found + 1 ELSE found
        /\ dead' = dead \ {s}
        /\ waiting' = IF s = Watched THEN 0 ELSE waiting
        /\ since' = [since EXCEPT ![s] = 0]
        /\ UNCHANGED <<cursor, start, delay, task>>

(* The pacer is told, and the task sleeps again.                           *)
Observe ==
    /\ task = "sweeping" /\ visited = Least(per_tick, NShards)
    /\ delay' = observe(delay, found)
    /\ task' = "sleeping"
    /\ UNCHANGED <<cursor, start, visited, found, dead, waiting, since>>

Next ==
    \/ \E s \in Mortal : Expire(s) \/ Disappear(s)
    \/ Wake \/ Visit \/ Observe

Spec == Init /\ [][Next]_vars
-----------------------------------------------------------------------------
(* Properties.                                                             *)

TypeOK ==
    /\ cursor \in 0..(CursorWord - 1) /\ start \in 0..(CursorWord - 1)
    /\ visited \in 0..NShards /\ found \in 0..NShards
    /\ delay \in MinDelay..MaxDelay
    /\ task \in {"sleeping", "sweeping"}
    /\ dead \subseteq Shards
    /\ waiting \in Nat
    /\ since \in [Shards -> Nat]

(* The cursor visits every shard once in each full turn, also over the     *)
(* turn in which it wraps (cache.rs:870-876).                              *)
EveryShardVisited ==
    /\ \A s \in Shards : since[s] <= Rotation
    /\ task = "sweeping" /\ visited = Least(per_tick, NShards) =>
          Cardinality({s \in Shards : since[s] = 0}) = per_tick

(* A dead entry is never kept for longer than a full turn of the sweep at  *)
(* its slowest: five minutes, from a delay of 30 seconds, 8 ticks and the  *)
(* jitter's quarter (cache.rs:373-411).                                    *)
ReclaimedInTime == waiting <= Rotation * (MaxDelay + MaxDelay \div 4)
=============================================================================
