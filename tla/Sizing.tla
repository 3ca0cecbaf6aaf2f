------------------------------ MODULE Sizing -------------------------------
(***************************************************************************)
(* How a node sizes its caches at startup: what the machine's memory and   *)
(* core count are taken to be (falcon-core/src/resources.rs), how          *)
(* Node::build divides the budget among the configured keyspaces           *)
(* (falcon-core/src/node.rs), and how CacheEngine::with_options divides a  *)
(* keyspace's share among shards (falcon-storage/src/cache.rs).            *)
(*                                                                         *)
(* Node::build is a loop over the configured keyspaces; one iteration is   *)
(* one step.                                                               *)
(***************************************************************************)
EXTENDS Integers, Sequences, FiniteSets

CONSTANTS
    Mb,          \* 1024 * 1024, in the unit the instance counts memory in
    WordSize,    \* 2^64 in the same unit: where u64 arithmetic wraps
    Cores,       \* the core counts a machine may report
    Memory,      \* the sizes host RAM and a container limit may have
    ExplicitMb,  \* the values cache_capacity_mb may be set to
    KeyspaceName,
    MaxKeyspaces, \* BOUND: how many keyspaces the config lists
    PowersOfTwo, \* BOUND: the powers of two an instance computes with
    Unset        \* cache_capacity_mb absent; a limit file absent, "max" or 0

ASSUME MbAssumption == Mb \in Nat \ {0} /\ WordSize \in Nat \ {0}
ASSUME MachineAssumption == /\ Cores \subseteq Nat \ {0}
                            /\ Memory \subseteq (Nat \ {0}) /\ Unset \notin Nat
(* Past some sixteen million keyspaces a share of the smallest cache worth *)
(* having is less than a byte for each of its shards.                      *)
ASSUME ConfigAssumption == /\ ExplicitMb \subseteq Nat
                           /\ MaxKeyspaces \in 0..(16 * Mb)

VARIABLES
    machine,   \* what the environment reports
    config,    \* Config::keyspaces, in the order the config lists them
    engines,   \* the engine each iteration of the loop built
    keyspaces, \* Node::keyspaces: the engine a name leads to
    claimed    \* history: what the shards of the engines that sized
               \* themselves may hold between them

vars == <<machine, config, engines, keyspaces, claimed>>

Machine == [cores : Cores, host : Memory \cup {Unset},
            v2 : Memory \cup {Unset}, v1 : Memory \cup {Unset}]

KeyspaceConfig == [name : KeyspaceName, mb : ExplicitMb \cup {Unset}]

Least(x, y) == IF x <= y THEN x ELSE y
Greatest(x, y) == IF x >= y THEN x ELSE y

-----------------------------------------------------------------------------
(* falcon-core/src/resources.rs                                            *)

FallbackCapacityMb == 256
MinAutoCapacity == 64 * Mb
MinHeadroom == 256 * Mb

(* cgroup v2, then v1; a file that sets no limit is passed over.           *)
read_first(m) == IF m.v2 # Unset THEN m.v2 ELSE m.v1

(* A container limit above host RAM is no limit.                           *)
Plausible(m) ==
    read_first(m) # Unset /\ (m.host = Unset \/ read_first(m) <= m.host)

detect_memory_limit(m) == IF Plausible(m) THEN read_first(m) ELSE m.host

ByFraction(limit) == (limit \div 100) * 70

auto_capacity_bytes(limit) ==
    IF limit = Unset \/ limit < MinHeadroom THEN Unset
    ELSE LET capacity == Least(ByFraction(limit), limit - MinHeadroom)
         IN  IF capacity >= MinAutoCapacity THEN capacity ELSE Unset

Resolved(bytes, source) == [bytes |-> bytes, source |-> source]

resolve_capacity(explicit_mb, m) ==
    LET auto == auto_capacity_bytes(detect_memory_limit(m))
    IN  CASE explicit_mb # Unset -> Resolved((explicit_mb * Mb) % WordSize, "explicit")
          [] explicit_mb = Unset /\ auto # Unset -> Resolved(auto, "auto")
          [] OTHER -> Resolved((FallbackCapacityMb * Mb) % WordSize, "fallback")

-----------------------------------------------------------------------------
(* falcon-storage/src/cache.rs                                             *)

MinShards == 4
MaxShards == 512
ShardsPerCore == 4

(* Halving a power leads to the next, down to 1, and they reach past four  *)
(* times the core counts.                                                  *)
ASSUME PowerAssumption ==
    /\ PowersOfTwo \subseteq Nat \ {0} /\ {1, MinShards, MaxShards} \subseteq PowersOfTwo
    /\ \A p \in PowersOfTwo \ {1} : \E q \in PowersOfTwo : p = 2 * q
    /\ \A p, q \in PowersOfTwo : p < q => 2 * p <= q
    /\ \A n \in Cores : \E p \in PowersOfTwo : ShardsPerCore * n <= p

(* The definitions named Bad... are the mistakes the runs' properties are  *)
(* tested against; no specification uses them.                             *)
next_power_of_two(n) ==
    CHOOSE p \in PowersOfTwo : p >= n /\ \A q \in PowersOfTwo : q >= n => p <= q

BadPrevPowerOfTwo(n) == next_power_of_two(n)

prev_power_of_two(n) ==
    CHOOSE p \in PowersOfTwo : p <= n /\ \A q \in PowersOfTwo : q <= n => q <= p

(* MIN_SHARD_BYTES is 1 MB.                                                *)
shard_count(capacity, parallelism) ==
    LET by_cores == next_power_of_two(Greatest(parallelism, 1) * ShardsPerCore)
        by_capacity == prev_power_of_two(Greatest(capacity \div Mb, 1))
        wanted == Least(by_cores, Greatest(by_capacity, MinShards))
    IN  next_power_of_two(Least(Greatest(wanted, MinShards), MaxShards))

BadPerShard(capacity, n) == capacity \div n

BadSplit(capacity, n) == Greatest(capacity, 1)

PerShard(capacity, n) == Greatest(capacity \div n, 1)

(* CacheEngine::with_options, as far as sizes go.                          *)
Engine(capacity, parallelism) ==
    LET n == shard_count(capacity, parallelism)
    IN  [bytes |-> capacity, shards |-> n, per_shard |-> PerShard(capacity, n)]

-----------------------------------------------------------------------------
(* falcon-core/src/node.rs                                                 *)

IsAuto(i) == config[i].mb = Unset

BadAutoCount == 1

AutoCount == Greatest(Cardinality({i \in DOMAIN config : IsAuto(i)}), 1)

(* What one keyspace's cache is given.                                     *)
CapacityBytes(i) ==
    LET bytes == resolve_capacity(config[i].mb, machine).bytes
    IN  IF IsAuto(i) THEN bytes \div AutoCount ELSE bytes

Init ==
    /\ machine \in Machine
    /\ \E n \in 0..MaxKeyspaces : config \in [1..n -> KeyspaceConfig]
    /\ engines = <<>>
    /\ keyspaces = << >>
    /\ claimed = 0

(* One iteration of Node::build.  Two entries of one name both get an      *)
(* engine; the name leads to the later one.                                *)
BuildKeyspace ==
    LET i == Len(engines) + 1
        e == Engine(CapacityBytes(i), machine.cores)
    IN  /\ i \in DOMAIN config
        /\ engines' = Append(engines, e)
        /\ keyspaces' = [n \in DOMAIN keyspaces \cup {config[i].name} |->
                           IF n = config[i].name THEN i ELSE keyspaces[n]]
        /\ claimed' = IF IsAuto(i) THEN claimed + e.shards * e.per_shard ELSE claimed
        /\ UNCHANGED <<machine, config>>

Next == BuildKeyspace

Spec == Init /\ [][Next]_vars
-----------------------------------------------------------------------------
(* Properties.                                                             *)

TypeOK ==
    /\ machine \in Machine
    /\ \A i \in DOMAIN config : config[i] \in KeyspaceConfig
    /\ \A i \in DOMAIN engines :
          engines[i] \in [bytes : Nat, shards : MinShards..MaxShards,
                          per_shard : Nat \ {0}]
    /\ \A n \in DOMAIN keyspaces : keyspaces[n] \in DOMAIN engines
    /\ claimed \in Nat

(* The tightest ceiling the machine reports: what the process is killed    *)
(* for exceeding.                                                          *)
ContainerCeiling ==
    IF read_first(machine) # Unset
    THEN IF machine.host = Unset THEN read_first(machine)
         ELSE Least(read_first(machine), machine.host)
    ELSE machine.host

RoomFor(n) == ContainerCeiling # Unset /\ ContainerCeiling >= MinHeadroom + n

(* However many keyspaces size themselves, together their shards leave the *)
(* headroom of the container or host alone, when it has room for a cache   *)
(* at all (node.rs:29-37, resources.rs:166-179).                           *)
AutoBudgetFits ==
    RoomFor(MinAutoCapacity)
       => claimed + MinHeadroom <= ContainerCeiling

(* The shards of an engine share out its capacity, short of less than one  *)
(* byte each, and only a capacity smaller than the shard count is exceeded *)
(* (cache.rs:496-504).                                                     *)
ShardsPartitionBudget ==
    \A i \in DOMAIN engines :
       LET e == engines[i] IN
       /\ e.shards * e.per_shard <= Greatest(e.bytes, e.shards)
       /\ e.bytes - e.shards * e.per_shard < e.shards

(* The shard count is the largest power of two that keeps 1 MB in every    *)
(* shard and is not more than what the cores ask for, except that it never *)
(* leaves 4..512 (cache.rs:427-444).                                       *)
ShardsWorthSampling ==
    \A i \in DOMAIN engines :
       LET e == engines[i]
           Fits(p) == /\ p * Mb <= e.bytes
                      /\ p <= MaxShards
                      /\ p < 2 * ShardsPerCore * machine.cores
           good == {p \in PowersOfTwo : p > MinShards /\ Fits(p)}
       IN  IF good = {} THEN e.shards = MinShards
           ELSE e.shards \in good /\ \A p \in good : p <= e.shards
=============================================================================
