---------------------------- MODULE SizingProofs ----------------------------
(***************************************************************************)
(* What holds of the sizes a node starts with, whatever the machine, the   *)
(* configuration and the unit memory is counted in.                        *)
(***************************************************************************)
EXTENDS Sizing, FiniteSetTheorems, SequenceTheorems, WellFoundedInduction, TLAPS

-----------------------------------------------------------------------------
(* Arithmetic.                                                             *)

LEMMA Division ==
    ASSUME NEW n \in Nat \ {0}, NEW x \in Nat
    PROVE  /\ x \div n \in Nat /\ x % n \in 0..(n - 1)
           /\ x = n * (x \div n) + (x % n)
OBVIOUS

LEMMA Product ==
    ASSUME NEW m \in Nat, NEW a \in Nat, NEW b \in Nat
    PROVE  /\ a <= b => m * a <= m * b
           /\ a < b => m * a + m <= m * b
<1>1. CASE a <= b
  <2>1. PICK c \in Nat : b = a + c
    BY <1>1
  <2>2. m * b = m * a + m * c /\ m * c \in Nat /\ m * a \in Nat
    BY <2>1
  <2>3. c >= 1 => m * c >= m
    OBVIOUS
  <2> QED
    BY <2>1, <2>2, <2>3
<1> QED
  BY <1>1

LEMMA Quotient ==
    ASSUME NEW n \in Nat \ {0}, NEW x \in Nat, NEW p \in Nat
    PROVE  p <= x \div n <=> n * p <= x
<1> DEFINE q == x \div n
<1>1. q \in Nat /\ x % n \in 0..(n - 1) /\ x = n * q + (x % n)
  BY Division
<1>2. n * q \in Nat /\ n * p \in Nat
  BY <1>1
<1> HIDE DEF q
<1>3. p <= q => n * p <= n * q
  BY <1>1, Product
<1>4. q < p => n * q + n <= n * p
  BY <1>1, Product
<1> QED
  BY <1>1, <1>2, <1>3, <1>4 DEF q

LEMMA LeastOf ==
    ASSUME NEW T \in SUBSET Nat, T # {}
    PROVE  \E m \in T : \A n \in T : m <= n
<1>1. PICK m \in T : \A n \in T : <<n, m>> \notin OpToRel(<, Nat)
  BY NatLessThanWellFounded, WFMin
<1>2. \A n \in T : ~(n < m)
  BY <1>1 DEF OpToRel
<1> QED
  BY <1>2

LEMMA GreatestOf ==
    ASSUME NEW T \in SUBSET Nat, T # {}, NEW b \in Nat, \A n \in T : n <= b
    PROVE  \E m \in T : \A n \in T : n <= m
<1> DEFINE S == {b - n : n \in T}
<1>1. S \in SUBSET Nat /\ S # {}
  <2>1. \A n \in T : n \in Nat /\ b - n \in Nat
    OBVIOUS
  <2>2. PICK n \in T : TRUE
    OBVIOUS
  <2>3. b - n \in S
    BY <2>2
  <2> QED
    BY <2>1, <2>3
<1>2. PICK m \in S : \A n \in S : m <= n
  BY <1>1, LeastOf
<1>3. PICK k \in T : m = b - k
  BY <1>2
<1>4. \A n \in T : b - k <= b - n
  BY <1>2, <1>3
<1> QED
  BY <1>3, <1>4

-----------------------------------------------------------------------------
(* Powers of two.                                                          *)

LEMMA NextPower ==
    ASSUME NEW n \in Nat, \E p \in PowersOfTwo : n <= p
    PROVE  LET r == next_power_of_two(n)
           IN  /\ r \in PowersOfTwo /\ n <= r
               /\ \A q \in PowersOfTwo : n <= q => r <= q
<1> DEFINE T == {p \in PowersOfTwo : n <= p}
<1>1. T \in SUBSET Nat /\ T # {}
  BY PowerAssumption
<1>2. PICK m \in T : \A q \in T : m <= q
  BY <1>1, LeastOf
<1>3. \E p \in PowersOfTwo : p >= n /\ \A q \in PowersOfTwo : q >= n => p <= q
  BY <1>2, PowerAssumption
<1> QED
  BY <1>3, PowerAssumption DEF next_power_of_two

LEMMA PrevPower ==
    ASSUME NEW n \in Nat \ {0}
    PROVE  LET r == prev_power_of_two(n)
           IN  /\ r \in PowersOfTwo /\ r <= n
               /\ \A q \in PowersOfTwo : q <= n => q <= r
<1> DEFINE T == {p \in PowersOfTwo : p <= n}
<1>1. PowersOfTwo \subseteq Nat /\ 1 \in PowersOfTwo /\ n \in Nat /\ 1 <= n
  BY PowerAssumption
<1>2. T \in SUBSET Nat /\ 1 \in T /\ \A p \in T : p <= n
  BY <1>1
<1>3. PICK m \in T : \A q \in T : q <= m
  BY <1>1, <1>2, GreatestOf
<1>4. \E p \in PowersOfTwo : p <= n /\ \A q \in PowersOfTwo : q <= n => q <= p
  BY <1>3
<1> QED
  BY <1>4 DEF prev_power_of_two

LEMMA PowerOfItself ==
    ASSUME NEW p \in PowersOfTwo
    PROVE  next_power_of_two(p) = p
<1> DEFINE r == next_power_of_two(p)
<1>1. p \in Nat /\ p <= p
  BY PowerAssumption
<1>2. r \in PowersOfTwo /\ p <= r /\ \A q \in PowersOfTwo : p <= q => r <= q
  BY <1>1, NextPower
<1>3. r \in Nat /\ r <= p
  BY <1>1, <1>2, PowerAssumption
<1> HIDE DEF r
<1>4. r = p
  BY <1>1, <1>2, <1>3
<1> QED
  BY <1>4 DEF r

(* The powers below twice a number are those up to its next power.         *)
LEMMA BelowTwice ==
    ASSUME NEW n \in Nat \ {0}, \E p \in PowersOfTwo : n <= p, NEW p \in PowersOfTwo
    PROVE  p < 2 * n <=> p <= next_power_of_two(n)
<1> DEFINE r == next_power_of_two(n)
<1>1. r \in PowersOfTwo /\ n <= r /\ \A q \in PowersOfTwo : n <= q => r <= q
  BY NextPower
<1> HIDE DEF r
<1>2. p \in Nat \ {0} /\ r \in Nat \ {0}
  BY <1>1, PowerAssumption
<1>3. p < 2 * n => p <= r
  <2>1. r < p => 2 * r <= p
    BY <1>1, PowerAssumption
  <2> QED
    BY <1>1, <1>2, <2>1
<1>4. r < 2 * n
  <2>1. CASE r = 1
    BY <2>1
  <2>2. CASE r # 1
    <3>1. PICK q \in PowersOfTwo : r = 2 * q
      BY <1>1, <2>2, PowerAssumption
    <3>2. q \in Nat \ {0}
      BY PowerAssumption
    <3>3. ~(n <= q)
      BY <1>1, <3>1, <3>2
    <3> QED
      BY <3>1, <3>2, <3>3
  <2> QED
    BY <2>1, <2>2
<1> QED
  BY <1>2, <1>3, <1>4 DEF r

-----------------------------------------------------------------------------
(* What a keyspace is given, and the shards it is cut into.                *)

ByCores(n) == next_power_of_two(Greatest(n, 1) * ShardsPerCore)
ByCapacity(bytes) == prev_power_of_two(Greatest(bytes \div Mb, 1))

LEMMA CoresAskFor ==
    ASSUME NEW n \in Cores
    PROVE  /\ ByCores(n) \in PowersOfTwo /\ ByCores(n) >= MinShards
           /\ \A p \in PowersOfTwo : p < 2 * ShardsPerCore * n <=> p <= ByCores(n)
<1>1. n \in Nat /\ n >= 1
  BY MachineAssumption
<1>2. PICK k \in Nat \ {0} : k = 4 * n
  BY <1>1
<1>3. ByCores(n) = next_power_of_two(k)
  <2>1. Greatest(n, 1) = n
    BY <1>1 DEF Greatest
  <2>2. Greatest(n, 1) * ShardsPerCore = k
    BY <1>1, <1>2, <2>1 DEF ShardsPerCore
  <2> QED
    BY <2>2 DEF ByCores
<1>4. 2 * ShardsPerCore * n = 2 * k
  BY <1>1, <1>2 DEF ShardsPerCore
<1>5. \E p \in PowersOfTwo : k <= p
  BY <1>2, PowerAssumption DEF ShardsPerCore
<1>6. next_power_of_two(k) \in PowersOfTwo /\ k <= next_power_of_two(k)
  BY <1>2, <1>5, NextPower
<1>7. next_power_of_two(k) \in Nat
  BY <1>6, PowerAssumption
<1>8. \A p \in PowersOfTwo : p < 2 * k <=> p <= next_power_of_two(k)
  BY <1>2, <1>5, BelowTwice
<1>9. k >= 4
  BY <1>1, <1>2
<1> QED
  BY <1>2, <1>3, <1>4, <1>6, <1>7, <1>8, <1>9 DEF MinShards

LEMMA CapacityAllows ==
    ASSUME NEW bytes \in Nat
    PROVE  /\ ByCapacity(bytes) \in PowersOfTwo
           /\ \A p \in PowersOfTwo :
                 p > MinShards => (p * Mb <= bytes <=> p <= ByCapacity(bytes))
<1>1. PICK q \in Nat : q = bytes \div Mb
  BY Division, MbAssumption
<1>2. PICK g \in Nat \ {0} : g = Greatest(q, 1)
  BY DEF Greatest
<1>3. ByCapacity(bytes) = prev_power_of_two(g)
  BY <1>1, <1>2 DEF ByCapacity
<1>4. PICK r \in PowersOfTwo : /\ r = prev_power_of_two(g) /\ r <= g
                              /\ \A p \in PowersOfTwo : p <= g => p <= r
  BY <1>2, PrevPower
<1>5. ASSUME NEW p \in PowersOfTwo, p > MinShards
      PROVE  p * Mb <= bytes <=> p <= r
  <2>1. p \in Nat /\ r \in Nat /\ p > 4
    BY <1>5, <1>4, PowerAssumption DEF MinShards
  <2>2. p <= q <=> Mb * p <= bytes
    BY <1>1, <2>1, MbAssumption, Quotient
  <2>3. Mb * p = p * Mb
    BY <2>1, MbAssumption
  <2>4. p <= g <=> p <= q
    BY <1>2, <2>1 DEF Greatest
  <2>5. p <= g <=> p <= r
    BY <1>2, <1>4, <2>1
  <2> QED
    BY <2>2, <2>3, <2>4, <2>5
<1> QED
  BY <1>3, <1>4, <1>5

(* The last rounding up in shard_count changes nothing: what it rounds is  *)
(* a power of two already.                                                 *)
LEMMA ShardCount ==
    ASSUME NEW bytes \in Nat, NEW n \in Cores
    PROVE  /\ shard_count(bytes, n) \in PowersOfTwo
           /\ shard_count(bytes, n) \in MinShards..MaxShards
           /\ shard_count(bytes, n) =
                Least(Least(ByCores(n), Greatest(ByCapacity(bytes), MinShards)), MaxShards)
<1>1. PICK a \in PowersOfTwo : a = ByCores(n) /\ a >= MinShards
  BY CoresAskFor
<1>2. PICK b \in PowersOfTwo : b = ByCapacity(bytes)
  BY CapacityAllows
<1>3. a \in Nat /\ b \in Nat /\ {MinShards, MaxShards} \subseteq PowersOfTwo
  BY PowerAssumption
<1> DEFINE w == Least(a, Greatest(b, MinShards))
           y == Least(Greatest(w, MinShards), MaxShards)
<1>4. w \in PowersOfTwo /\ w \in Nat /\ w >= MinShards
  BY <1>1, <1>3 DEF Least, Greatest, MinShards
<1>5. /\ y \in PowersOfTwo /\ y \in MinShards..MaxShards
      /\ y = Least(w, MaxShards)
  BY <1>3, <1>4 DEF Least, Greatest, MinShards, MaxShards
<1>6. shard_count(bytes, n) = next_power_of_two(y)
  BY <1>1, <1>2 DEF shard_count, ByCores, ByCapacity
<1>7. next_power_of_two(y) = y
  BY <1>5, PowerOfItself
<1> QED
  BY <1>1, <1>2, <1>5, <1>6, <1>7

(* An engine's shards share out its bytes.                                 *)
LEMMA ShardsShare ==
    ASSUME NEW bytes \in Nat, NEW n \in Cores
    PROVE  LET e == Engine(bytes, n)
           IN  /\ e \in [bytes : Nat, shards : MinShards..MaxShards, per_shard : Nat \ {0}]
               /\ e.shards * e.per_shard \in Nat
               /\ e.shards * e.per_shard <= Greatest(bytes, e.shards)
               /\ bytes - e.shards * e.per_shard < e.shards
<1>1. PICK s \in MinShards..MaxShards : s = shard_count(bytes, n)
  BY ShardCount
<1>2. s \in Nat \ {0}
  BY <1>1 DEF MinShards, MaxShards
<1>3. PICK q \in Nat, r \in 0..(s - 1) : q = bytes \div s /\ bytes = s * q + r
  BY <1>2, Division
<1>4. PICK k \in Nat \ {0} : k = PerShard(bytes, s) /\ k = Greatest(q, 1)
  BY <1>3 DEF PerShard, Greatest
<1>5. Engine(bytes, n) = [bytes |-> bytes, shards |-> s, per_shard |-> k]
  BY <1>1, <1>4 DEF Engine
<1>6. s * k \in Nat /\ s * q \in Nat
  BY <1>2, <1>3, <1>4
<1>7. CASE q = 0
  <2>1. k = 1 /\ s * k = s /\ s * q = 0
    BY <1>2, <1>4, <1>7 DEF Greatest
  <2>2. s * k <= Greatest(bytes, s) /\ bytes - s * k < s
    BY <1>2, <1>3, <2>1 DEF Greatest
  <2> QED
    BY <1>1, <1>4, <1>5, <1>6, <2>2
<1>8. CASE q # 0
  <2>1. k = q
    BY <1>3, <1>4, <1>8 DEF Greatest
  <2>2. s * k = s * q
    BY <2>1
  <2>3. s * k <= Greatest(bytes, s) /\ bytes - s * k < s
    BY <1>2, <1>3, <1>6, <2>2 DEF Greatest
  <2> QED
    BY <1>1, <1>4, <1>5, <1>6, <2>3
<1> QED
  BY <1>7, <1>8

(* The shards are as many as pay for themselves.                           *)
LEMMA ShardsPay ==
    ASSUME NEW bytes \in Nat, NEW n \in Cores
    PROVE  LET s == shard_count(bytes, n)
               good == {p \in PowersOfTwo :
                          p > MinShards /\ p * Mb <= bytes /\ p <= MaxShards
                            /\ p < 2 * ShardsPerCore * n}
           IN  IF good = {} THEN s = MinShards
               ELSE s \in good /\ \A p \in good : p <= s
<1> DEFINE a == ByCores(n)
           b == ByCapacity(bytes)
           s == shard_count(bytes, n)
           Good(p) == p > MinShards /\ p * Mb <= bytes /\ p <= MaxShards
                         /\ p < 2 * ShardsPerCore * n
           good == {p \in PowersOfTwo : Good(p)}
<1>1. a \in Nat /\ b \in Nat /\ a >= MinShards
  BY CoresAskFor, CapacityAllows, PowerAssumption
<1>2. /\ s \in PowersOfTwo /\ s \in MinShards..MaxShards
      /\ s = Least(Least(a, Greatest(b, MinShards)), MaxShards)
  BY ShardCount
<1>3. \A p \in PowersOfTwo :
        Good(p) <=> p > MinShards /\ p <= a /\ p <= b /\ p <= MaxShards
  BY CoresAskFor, CapacityAllows
<1> HIDE DEF a, b, s, Good
<1>4. s > MinShards => Good(s)
  <2> SUFFICES ASSUME s > MinShards
               PROVE  s <= a /\ s <= b /\ s <= MaxShards
    BY <1>2, <1>3
  <2> QED
    BY <1>1, <1>2 DEF Least, Greatest, MinShards, MaxShards
<1>5. \A p \in PowersOfTwo : Good(p) => p <= s /\ s > MinShards
  <2> SUFFICES ASSUME NEW p \in PowersOfTwo, p \in Nat,
                      p > MinShards /\ p <= a /\ p <= b /\ p <= MaxShards
               PROVE  p <= s /\ s > MinShards
    BY <1>3, PowerAssumption
  <2> QED
    BY <1>1, <1>2 DEF Least, Greatest, MinShards, MaxShards
<1>6. s > MinShards \/ s = MinShards
  BY <1>2 DEF MinShards, MaxShards
<1>7. IF good = {} THEN s = MinShards ELSE s \in good /\ \A p \in good : p <= s
  BY <1>2, <1>4, <1>5, <1>6
<1> QED
  BY <1>7 DEF s, Good

-----------------------------------------------------------------------------
(* The inductive invariant.  Each engine built so far is the one its entry *)
(* of the configuration and the machine call for, and the engines that     *)
(* sized themselves have claimed one and the same share each.              *)

EngineRecord == [bytes : Nat, shards : MinShards..MaxShards, per_shard : Nat \ {0}]

Types == /\ machine \in Machine
         /\ config \in Seq(KeyspaceConfig) /\ Len(config) <= MaxKeyspaces
         /\ engines \in Seq(EngineRecord) /\ Len(engines) <= Len(config)
         /\ claimed \in Nat

Built == \A i \in DOMAIN engines : engines[i] = Engine(CapacityBytes(i), machine.cores)

Named == \A n \in DOMAIN keyspaces : keyspaces[n] \in DOMAIN engines

AutoBytes == resolve_capacity(Unset, machine).bytes \div AutoCount

Share == LET e == Engine(AutoBytes, machine.cores) IN e.shards * e.per_shard

AutoBuilt == {i \in DOMAIN engines : IsAuto(i)}

Claims == claimed = Cardinality(AutoBuilt) * Share

SizeInv == Types /\ Built /\ Named /\ Claims

LEMMA LimitType ==
    ASSUME machine \in Machine
    PROVE  detect_memory_limit(machine) \in Memory \cup {Unset}
BY DEF detect_memory_limit, Plausible, read_first, Machine

LEMMA AutoCapacityType ==
    ASSUME NEW limit \in Memory \cup {Unset}
    PROVE  auto_capacity_bytes(limit) \in Nat \cup {Unset}
<1> SUFFICES ASSUME ~(limit = Unset \/ limit < MinHeadroom)
             PROVE  auto_capacity_bytes(limit) \in Nat \cup {Unset}
  BY DEF auto_capacity_bytes
<1>1. limit \in Nat
  BY MachineAssumption
<1>2. MinHeadroom \in Nat
  BY MbAssumption DEF MinHeadroom
<1>3. PICK f \in Nat : f = ByFraction(limit)
  BY <1>1 DEF ByFraction
<1>4. PICK h \in Nat : h = limit - MinHeadroom
  BY <1>1, <1>2
<1>5. Least(f, h) \in Nat
  BY DEF Least
<1> QED
  BY <1>3, <1>4, <1>5 DEF auto_capacity_bytes

LEMMA ResolvedType ==
    ASSUME machine \in Machine, NEW mb \in ExplicitMb \cup {Unset}
    PROVE  resolve_capacity(mb, machine).bytes \in Nat
<1> DEFINE auto == auto_capacity_bytes(detect_memory_limit(machine))
<1>1. auto \in Nat \cup {Unset}
  BY LimitType, AutoCapacityType
<1>2. (FallbackCapacityMb * Mb) % WordSize \in Nat
  BY MbAssumption DEF FallbackCapacityMb
<1>3. mb # Unset => (mb * Mb) % WordSize \in Nat
  <2> SUFFICES ASSUME mb \in Nat
               PROVE  (mb * Mb) % WordSize \in Nat
    BY ConfigAssumption
  <2>1. PICK x \in Nat : x = mb * Mb
    BY MbAssumption
  <2> QED
    BY <2>1, MbAssumption
<1> HIDE DEF auto
<1>4. resolve_capacity(mb, machine) =
        CASE mb # Unset -> Resolved((mb * Mb) % WordSize, "explicit")
          [] mb = Unset /\ auto # Unset -> Resolved(auto, "auto")
          [] OTHER -> Resolved((FallbackCapacityMb * Mb) % WordSize, "fallback")
  BY DEF resolve_capacity, auto
<1>5. CASE mb # Unset
  BY <1>3, <1>4, <1>5 DEF Resolved
<1>6. CASE mb = Unset /\ auto # Unset
  BY <1>1, <1>4, <1>6 DEF Resolved
<1>7. CASE mb = Unset /\ auto = Unset
  BY <1>2, <1>4, <1>7 DEF Resolved
<1> QED
  BY <1>5, <1>6, <1>7

LEMMA AutoCountType ==
    ASSUME Types
    PROVE  /\ AutoCount \in Nat \ {0}
           /\ AutoCount <= Greatest(MaxKeyspaces, 1)
           /\ IsFiniteSet(AutoBuilt) /\ Cardinality(AutoBuilt) \in Nat
           /\ Cardinality(AutoBuilt) <= AutoCount
<1> DEFINE autos == {i \in DOMAIN config : IsAuto(i)}
<1>1. Len(config) \in Nat /\ DOMAIN config = 1..Len(config)
      /\ Len(engines) \in Nat /\ DOMAIN engines = 1..Len(engines)
  BY DEF Types
<1>2. MaxKeyspaces \in Nat /\ Len(config) <= MaxKeyspaces /\ Len(engines) <= Len(config)
  BY ConfigAssumption, MbAssumption DEF Types
<1>3. IsFiniteSet(1..Len(config)) /\ Cardinality(1..Len(config)) = Len(config)
  <2>1. 1 \in Int /\ Len(config) \in Int
    BY <1>1
  <2>2. /\ IsFiniteSet(1..Len(config))
        /\ Cardinality(1..Len(config)) =
             IF 1 > Len(config) THEN 0 ELSE Len(config) - 1 + 1
    BY <2>1, FS_Interval
  <2> QED
    BY <1>1, <2>2
<1>4. autos \subseteq 1..Len(config) /\ AutoBuilt \subseteq autos
  BY <1>1, <1>2 DEF AutoBuilt
<1>5. IsFiniteSet(autos) /\ Cardinality(autos) <= Len(config)
  BY <1>3, <1>4, FS_Subset
<1>6. IsFiniteSet(AutoBuilt) /\ Cardinality(AutoBuilt) <= Cardinality(autos)
  BY <1>4, <1>5, FS_Subset
<1>7. Cardinality(autos) \in Nat /\ Cardinality(AutoBuilt) \in Nat
  BY <1>5, <1>6, FS_CardinalityType
<1>8. AutoCount = Greatest(Cardinality(autos), 1)
  BY DEF AutoCount
<1> HIDE DEF autos
<1> QED
  BY <1>1, <1>2, <1>5, <1>6, <1>7, <1>8 DEF Greatest

LEMMA AutoBytesType ==
    ASSUME Types
    PROVE  AutoBytes \in Nat
<1>1. PICK n \in Nat \ {0} : n = AutoCount
  BY AutoCountType
<1>2. PICK x \in Nat : x = resolve_capacity(Unset, machine).bytes
  BY ResolvedType DEF Types
<1> QED
  BY <1>1, <1>2, Division DEF AutoBytes

LEMMA CapacityType ==
    ASSUME Types, NEW i \in DOMAIN config
    PROVE  /\ CapacityBytes(i) \in Nat
           /\ IsAuto(i) => CapacityBytes(i) = AutoBytes
<1>1. config[i].mb \in ExplicitMb \cup {Unset}
  <2>1. config[i] \in KeyspaceConfig
    BY DEF Types
  <2> QED
    BY <2>1 DEF KeyspaceConfig
<1>2. resolve_capacity(config[i].mb, machine).bytes \in Nat
  BY <1>1, ResolvedType DEF Types
<1>3. IsAuto(i) => CapacityBytes(i) = AutoBytes
  BY DEF IsAuto, CapacityBytes, AutoBytes
<1>4. ~IsAuto(i) => CapacityBytes(i) = resolve_capacity(config[i].mb, machine).bytes
  BY DEF CapacityBytes
<1> QED
  BY <1>2, <1>3, <1>4, AutoBytesType

LEMMA CoresType == ASSUME machine \in Machine PROVE machine.cores \in Cores
BY DEF Machine

LEMMA ShareType ==
    ASSUME Types
    PROVE  Share \in Nat
BY AutoBytesType, CoresType, ShardsShare DEF Share, Types

LEMMA InvInit == Init => SizeInv
<1> SUFFICES ASSUME Init PROVE SizeInv
  OBVIOUS
<1>1. PICK n \in 0..MaxKeyspaces : config \in [1..n -> KeyspaceConfig]
  BY DEF Init
<1>2. n \in Nat /\ n <= MaxKeyspaces
  BY ConfigAssumption, MbAssumption
<1>3. config \in Seq(KeyspaceConfig) /\ Len(config) = n
  BY <1>1, <1>2
<1>4. engines = << >> /\ DOMAIN engines = {} /\ Len(engines) = 0
  BY DEF Init
<1>5. Types
  BY <1>2, <1>3, <1>4 DEF Init, Types
<1>6. Built
  BY <1>4 DEF Built
<1>7. Named
  <2>1. keyspaces = << >> /\ DOMAIN keyspaces = {}
    BY DEF Init
  <2> QED
    BY <2>1 DEF Named
<1>8. Claims
  <2>1. AutoBuilt = {}
    BY <1>4 DEF AutoBuilt
  <2>2. Cardinality(AutoBuilt) = 0
    BY <2>1, FS_EmptySet
  <2>3. Share \in Nat
    BY <1>5, ShareType
  <2> QED
    BY <2>2, <2>3 DEF Claims, Init
<1> QED
  BY <1>5, <1>6, <1>7, <1>8 DEF SizeInv

(* What is given is settled before the loop starts.                        *)
LEMMA GivenStays ==
    ASSUME UNCHANGED <<machine, config>>
    PROVE  /\ AutoCount' = AutoCount /\ AutoBytes' = AutoBytes /\ Share' = Share
           /\ \A i \in DOMAIN config : (IsAuto(i)' <=> IsAuto(i))
           /\ \A i \in DOMAIN config : CapacityBytes(i)' = CapacityBytes(i)
<1>1. machine' = machine /\ config' = config
  OBVIOUS
<1>2. AutoCount' = AutoCount
  BY <1>1 DEF AutoCount, IsAuto
<1>3. AutoBytes' = AutoBytes
  BY <1>1, <1>2 DEF AutoBytes
<1>4. Share' = Share
  BY <1>1, <1>3 DEF Share
<1>5. \A i \in DOMAIN config : (IsAuto(i)' <=> IsAuto(i))
  BY <1>1 DEF IsAuto
<1>6. \A i \in DOMAIN config : CapacityBytes(i)' = CapacityBytes(i)
  BY <1>1, <1>2 DEF CapacityBytes, IsAuto
<1> QED
  BY <1>2, <1>3, <1>4, <1>5, <1>6

LEMMA BuildKeepsInv == SizeInv /\ BuildKeyspace => SizeInv'
<1> SUFFICES ASSUME SizeInv, BuildKeyspace PROVE SizeInv'
  OBVIOUS
<1> USE DEF SizeInv
<1> DEFINE i == Len(engines) + 1
           e == Engine(CapacityBytes(i), machine.cores)
<1>1. /\ i \in DOMAIN config /\ engines' = Append(engines, e)
      /\ keyspaces' = [n \in DOMAIN keyspaces \cup {config[i].name} |->
                         IF n = config[i].name THEN i ELSE keyspaces[n]]
      /\ claimed' = IF IsAuto(i) THEN claimed + e.shards * e.per_shard ELSE claimed
      /\ UNCHANGED <<machine, config>>
  BY DEF BuildKeyspace
<1>2. CapacityBytes(i) \in Nat /\ machine.cores \in Cores
  BY <1>1, CapacityType, CoresType DEF Types
<1>3. e \in EngineRecord /\ e.shards * e.per_shard \in Nat
  BY <1>2, ShardsShare DEF EngineRecord
<1>4. IsAuto(i) => e.shards * e.per_shard = Share
  BY <1>1, CapacityType DEF Share
<1>5. i \in Nat /\ i = Len(engines) + 1
  BY DEF Types
<1> HIDE DEF e, i
<1>6. /\ engines' \in Seq(EngineRecord) /\ Len(engines') = i /\ DOMAIN engines' = 1..i
      /\ DOMAIN engines = 1..(i - 1)
      /\ \A j \in 1..i : engines'[j] = IF j = i THEN e ELSE engines[j]
  BY <1>1, <1>3, <1>5 DEF Types
<1>7. Types'
  <2>1. i <= Len(config)
    BY <1>1, <1>5 DEF Types
  <2>2. claimed' \in Nat
    BY <1>1, <1>3 DEF Types
  <2> QED
    BY <1>1, <1>6, <2>1, <2>2 DEF Types
<1>8. Built'
  <2> SUFFICES ASSUME NEW j \in 1..i
               PROVE  engines'[j] = Engine(CapacityBytes(j)', machine'.cores)
    BY <1>6 DEF Built
  <2>1. j \in DOMAIN config
    BY <1>1, <1>5 DEF Types
  <2>2. CapacityBytes(j)' = CapacityBytes(j) /\ machine' = machine
    BY <1>1, <2>1, GivenStays
  <2>3. CASE j = i
    BY <1>6, <2>2, <2>3 DEF e
  <2>4. CASE j # i
    <3>1. j \in DOMAIN engines
      BY <1>5, <1>6, <2>4
    <3> QED
      BY <1>6, <2>2, <2>4, <3>1 DEF Built
  <2> QED
    BY <2>3, <2>4
<1>9. Named'
  <2> SUFFICES ASSUME NEW n \in DOMAIN keyspaces'
               PROVE  keyspaces'[n] \in 1..i
    BY <1>6 DEF Named
  <2>1. n = config[i].name => keyspaces'[n] = i
    BY <1>1
  <2>2. n # config[i].name => n \in DOMAIN keyspaces /\ keyspaces'[n] = keyspaces[n]
    BY <1>1
  <2> QED
    BY <1>5, <1>6, <2>1, <2>2 DEF Named
<1>10. Claims'
  <2>1. /\ IsFiniteSet(AutoBuilt) /\ Cardinality(AutoBuilt) \in Nat /\ Share \in Nat
        /\ i \notin AutoBuilt
    BY <1>5, <1>6, AutoCountType, ShareType DEF AutoBuilt
  <2>2. \A j \in 1..i : j \in DOMAIN config /\ (IsAuto(j)' <=> IsAuto(j))
    BY <1>1, <1>5, GivenStays DEF Types
  <2>3. AutoBuilt' = {j \in 1..i : IsAuto(j)'}
    BY <1>6 DEF AutoBuilt
  <2>4. Share' = Share
    BY <1>1, GivenStays
  <2>5. CASE IsAuto(i)
    <3>1. AutoBuilt' = AutoBuilt \cup {i}
      BY <1>5, <1>6, <2>2, <2>3, <2>5 DEF AutoBuilt
    <3>2. Cardinality(AutoBuilt') = Cardinality(AutoBuilt) + 1
      BY <2>1, <3>1, FS_AddElement
    <3>3. claimed' = claimed + Share
      BY <1>1, <1>4, <2>5
    <3> QED
      BY <2>1, <2>4, <3>2, <3>3 DEF Claims
  <2>6. CASE ~IsAuto(i)
    <3>1. AutoBuilt' = AutoBuilt
      BY <1>5, <1>6, <2>2, <2>3, <2>6 DEF AutoBuilt
    <3> QED
      BY <1>1, <2>4, <2>6, <3>1 DEF Claims
  <2> QED
    BY <2>5, <2>6
<1> QED
  BY <1>7, <1>8, <1>9, <1>10

LEMMA StutterKeepsInv == SizeInv /\ UNCHANGED vars => SizeInv'
<1> SUFFICES ASSUME SizeInv, UNCHANGED vars PROVE SizeInv'
  OBVIOUS
<1> USE DEF SizeInv
<1>1. machine' = machine /\ config' = config /\ engines' = engines
      /\ keyspaces' = keyspaces /\ claimed' = claimed
  BY DEF vars
<1>2. /\ \A i \in DOMAIN engines : i \in DOMAIN config
      /\ \A i \in DOMAIN config : (IsAuto(i)' <=> IsAuto(i)) /\ CapacityBytes(i)' = CapacityBytes(i)
      /\ Share' = Share
  BY <1>1, GivenStays DEF Types
<1>3. Types' /\ Named'
  BY <1>1 DEF Types, Named
<1>4. Built'
  BY <1>1, <1>2 DEF Built
<1>5. AutoBuilt' = AutoBuilt
  BY <1>1, <1>2 DEF AutoBuilt
<1>6. Claims'
  BY <1>1, <1>2, <1>5 DEF Claims
<1> QED
  BY <1>3, <1>4, <1>6

LEMMA InvHolds == Spec => []SizeInv
<1>1. SizeInv /\ [Next]_vars => SizeInv'
  BY BuildKeepsInv, StutterKeepsInv DEF Next
<1> QED
  BY <1>1, InvInit, PTL DEF Spec

-----------------------------------------------------------------------------
(* The theorems.                                                           *)

(* Every state of a startup is well typed: an engine has from 4 to 512     *)
(* shards of at least one byte (cache.rs:496-520), and a keyspace's name   *)
(* leads to an engine that was built (node.rs:48-80).                      *)
THEOREM TypeCorrect == Spec => []TypeOK
<1>1. SizeInv => TypeOK
  <2> SUFFICES ASSUME SizeInv PROVE TypeOK
    OBVIOUS
  <2>1. \A i \in DOMAIN config : config[i] \in KeyspaceConfig
    BY DEF SizeInv, Types
  <2>2. \A i \in DOMAIN engines : engines[i] \in EngineRecord
    BY DEF SizeInv, Types
  <2> QED
    BY <2>1, <2>2 DEF SizeInv, Types, Named, EngineRecord, TypeOK
<1> QED
  BY <1>1, InvHolds, PTL

(* What an engine built so far is made from.                               *)
LEMMA EngineBuilt ==
    ASSUME SizeInv, NEW i \in DOMAIN engines
    PROVE  \E bytes \in Nat : /\ engines[i] = Engine(bytes, machine.cores)
                              /\ machine.cores \in Cores
<1>1. i \in DOMAIN config
  BY DEF SizeInv, Types
<1>2. CapacityBytes(i) \in Nat
  BY <1>1, CapacityType DEF SizeInv
<1> QED
  BY <1>2, CoresType DEF SizeInv, Types, Built

(* The shards of every engine share out its capacity, short of less than   *)
(* one byte each, and exceed it only when it is fewer bytes than shards    *)
(* (cache.rs:496-504).                                                     *)
THEOREM BudgetAlwaysPartitioned == Spec => []ShardsPartitionBudget
<1>1. SizeInv => ShardsPartitionBudget
  <2> SUFFICES ASSUME SizeInv, NEW i \in DOMAIN engines
               PROVE  LET e == engines[i] IN
                      /\ e.shards * e.per_shard <= Greatest(e.bytes, e.shards)
                      /\ e.bytes - e.shards * e.per_shard < e.shards
    BY DEF ShardsPartitionBudget
  <2>1. PICK bytes \in Nat : /\ engines[i] = Engine(bytes, machine.cores)
                             /\ machine.cores \in Cores
    BY EngineBuilt
  <2>2. engines[i].bytes = bytes
    BY <2>1 DEF Engine
  <2> QED
    BY <2>1, <2>2, ShardsShare
<1> QED
  BY <1>1, InvHolds, PTL

(* Every engine has the most shards that are worth having: the largest     *)
(* power of two that leaves each 1 MB and is not more than the cores ask   *)
(* for, kept within 4..512 (cache.rs:427-444).                             *)
THEOREM AlwaysWorthSampling == Spec => []ShardsWorthSampling
<1>1. SizeInv => ShardsWorthSampling
  <2> SUFFICES ASSUME SizeInv, NEW i \in DOMAIN engines
               PROVE  LET e == engines[i]
                          Fits(p) == /\ p * Mb <= e.bytes
                                     /\ p <= MaxShards
                                     /\ p < 2 * ShardsPerCore * machine.cores
                          good == {p \in PowersOfTwo : p > MinShards /\ Fits(p)}
                      IN  IF good = {} THEN e.shards = MinShards
                          ELSE e.shards \in good /\ \A p \in good : p <= e.shards
    BY DEF ShardsWorthSampling
  <2>1. PICK bytes \in Nat : /\ engines[i] = Engine(bytes, machine.cores)
                             /\ machine.cores \in Cores
    BY EngineBuilt
  <2>2. engines[i].bytes = bytes /\ engines[i].shards = shard_count(bytes, machine.cores)
    BY <2>1 DEF Engine
  <2> QED
    BY <2>1, <2>2, ShardsPay
<1> QED
  BY <1>1, InvHolds, PTL

(* With room for a cache under it, the ceiling the process would be killed *)
(* for exceeding is the limit the cache is sized to.                       *)
LEMMA CeilingIsLimit ==
    ASSUME machine \in Machine, RoomFor(MinAutoCapacity)
    PROVE  /\ detect_memory_limit(machine) = ContainerCeiling
           /\ ContainerCeiling \in Nat
           /\ ContainerCeiling >= MinHeadroom + MinAutoCapacity
<1> DEFINE r == read_first(machine)
           h == machine.host
<1>1. r \in Memory \cup {Unset} /\ h \in Memory \cup {Unset}
  BY DEF Machine, read_first
<1>2. \A x \in Memory : x \in Nat /\ x # Unset
  BY MachineAssumption
<1>3. ContainerCeiling =
        IF r # Unset THEN IF h = Unset THEN r ELSE Least(r, h) ELSE h
  BY DEF ContainerCeiling
<1>4. detect_memory_limit(machine) =
        IF r # Unset /\ (h = Unset \/ r <= h) THEN r ELSE h
  BY DEF detect_memory_limit, Plausible
<1>5. ContainerCeiling # Unset /\ ContainerCeiling >= MinHeadroom + MinAutoCapacity
  BY DEF RoomFor
<1> HIDE DEF r, h
<1>6. detect_memory_limit(machine) = ContainerCeiling
  BY <1>1, <1>2, <1>3, <1>4 DEF Least
<1>7. ContainerCeiling \in Memory
  BY <1>1, <1>2, <1>3, <1>5 DEF Least
<1> QED
  BY <1>2, <1>5, <1>6, <1>7

(* The capacity found there is worth having and leaves the headroom.       *)
LEMMA AutoLeavesHeadroom ==
    ASSUME machine \in Machine, RoomFor(MinAutoCapacity)
    PROVE  LET a == resolve_capacity(Unset, machine).bytes
           IN  /\ a \in Nat /\ a >= MinAutoCapacity
               /\ a + MinHeadroom <= ContainerCeiling
<1>1. PICK c \in Nat : /\ c = ContainerCeiling /\ c = detect_memory_limit(machine)
                       /\ c >= 320 * Mb
  BY CeilingIsLimit, MbAssumption DEF MinHeadroom, MinAutoCapacity
<1>2. PICK f \in Nat : f = c \div 100
  BY Division
<1>3. f >= 3 * Mb
  <2>1. 3 * Mb \in Nat /\ 100 * (3 * Mb) <= c /\ 100 \in Nat \ {0}
    BY <1>1, MbAssumption
  <2> QED
    BY <1>2, <2>1, Quotient
<1>4. PICK g \in Nat : g = f * 70 /\ g = ByFraction(c)
  BY <1>2 DEF ByFraction
<1>5. PICK h \in Nat : h = c - MinHeadroom /\ h >= MinAutoCapacity
  BY <1>1, MbAssumption DEF MinHeadroom, MinAutoCapacity
<1>6. g >= MinAutoCapacity
  BY <1>3, <1>4, MbAssumption DEF MinAutoCapacity
<1>7. PICK a \in Nat : a = Least(g, h) /\ a >= MinAutoCapacity /\ a <= h
  BY <1>5, <1>6, MbAssumption DEF Least, MinAutoCapacity
<1>8. c # Unset /\ ~(c < MinHeadroom)
  BY <1>1, MachineAssumption, MbAssumption DEF MinHeadroom
<1>9. auto_capacity_bytes(c) = a
  BY <1>4, <1>5, <1>7, <1>8 DEF auto_capacity_bytes
<1>10. a # Unset
  BY MachineAssumption
<1>11. resolve_capacity(Unset, machine).bytes = a
  BY <1>1, <1>9, <1>10 DEF resolve_capacity, Resolved
<1>12. a + MinHeadroom <= c
  BY <1>1, <1>5, <1>7, MbAssumption DEF MinHeadroom
<1> QED
  BY <1>1, <1>7, <1>11, <1>12

(* An engine given at least four bytes gives its shards no more than that. *)
LEMMA ShardsWithin ==
    ASSUME NEW bytes \in Nat, bytes >= MinShards, NEW n \in Cores
    PROVE  LET e == Engine(bytes, n) IN e.shards * e.per_shard <= bytes
<1>1. PICK s \in MinShards..MaxShards : s = shard_count(bytes, n)
  BY ShardCount
<1>2. s <= bytes
  <2>1. s = MinShards \/ s * Mb <= bytes
    BY <1>1, ShardsPay
  <2>2. s * Mb >= s
    BY <1>1, MbAssumption DEF MinShards, MaxShards
  <2>3. s * Mb \in Nat /\ s \in Nat
    BY <1>1, MbAssumption DEF MinShards, MaxShards
  <2> QED
    BY <2>1, <2>2, <2>3
<1>3. Engine(bytes, n).shards = s
  BY <1>1 DEF Engine
<1>4. Greatest(bytes, s) = bytes
  BY <1>1, <1>2 DEF Greatest, MinShards, MaxShards
<1> QED
  BY <1>3, <1>4, ShardsShare

(* However many keyspaces size themselves, together their shards leave the *)
(* headroom of the container or host alone, when it has room for a cache   *)
(* at all (node.rs:29-37, resources.rs:166-179).                           *)
THEOREM AutoBudgetAlwaysFits == Spec => []AutoBudgetFits
<1>1. SizeInv => AutoBudgetFits
  <2> SUFFICES ASSUME SizeInv, RoomFor(MinAutoCapacity)
               PROVE  claimed + MinHeadroom <= ContainerCeiling
    BY DEF AutoBudgetFits
  <2>1. Types /\ machine \in Machine /\ machine.cores \in Cores
    BY CoresType DEF SizeInv, Types
  <2>2. PICK a \in Nat : /\ a = resolve_capacity(Unset, machine).bytes
                         /\ a >= 64 * Mb /\ a + MinHeadroom <= ContainerCeiling
    BY <2>1, AutoLeavesHeadroom DEF MinAutoCapacity
  <2>3. PICK m \in Nat \ {0} : m = AutoCount /\ m <= 16 * Mb
    BY <2>1, AutoCountType, ConfigAssumption, MbAssumption DEF Greatest
  <2>4. PICK b \in Nat : b = a \div m
    BY <2>3, Division
  <2>5. b >= MinShards
    <3>1. m * 4 <= a
      BY <2>2, <2>3, MbAssumption
    <3> QED
      BY <2>3, <2>4, <3>1, Quotient DEF MinShards
  <2>6. m * b <= a
    BY <2>3, <2>4, Quotient
  <2>7. PICK t \in Nat : t = Share /\ t <= b
    BY <2>1, <2>2, <2>3, <2>4, <2>5, ShareType, ShardsWithin DEF Share, AutoBytes
  <2>8. PICK k \in Nat : k = Cardinality(AutoBuilt) /\ k <= m
    BY <2>1, <2>3, AutoCountType
  <2>9. claimed = k * t
    BY <2>7, <2>8 DEF SizeInv, Claims
  <2>10. k * t <= k * b
    BY <2>7, Product
  <2>11. k * b <= m * b
    <3>1. b * k <= b * m
      BY <2>3, <2>8, Product
    <3> QED
      BY <2>3, <3>1
  <2>12. k * t \in Nat /\ k * b \in Nat /\ m * b \in Nat
    BY <2>3
  <2>13. claimed <= a
    BY <2>6, <2>9, <2>10, <2>11, <2>12
  <2>14. claimed \in Nat /\ ContainerCeiling \in Nat /\ MinHeadroom \in Nat
    BY <2>1, CeilingIsLimit, MbAssumption DEF Types, MinHeadroom
  <2> QED
    BY <2>2, <2>13, <2>14
<1> QED
  BY <1>1, InvHolds, PTL
=============================================================================
