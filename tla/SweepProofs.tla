----------------------------- MODULE SweepProofs ----------------------------
(***************************************************************************)
(* What holds of every sweep, whatever the number of shards, the word the  *)
(* cursor wraps at, the jitter, and the moments at which entries die.      *)
(***************************************************************************)
EXTENDS Sweep, FiniteSetTheorems, TLAPS

LEMMA Division ==
    ASSUME NEW n \in Nat \ {0}, NEW x \in Int
    PROVE  /\ x \div n \in Int /\ x % n \in 0..(n - 1)
           /\ x = n * (x \div n) + (x % n)
OBVIOUS

LEMMA MultipleMonotone ==
    ASSUME NEW n \in Nat \ {0}, NEW p \in Int, NEW q \in Int, p < q
    PROVE  n * p + n <= n * q
<1>1. q - p - 1 >= 0
  OBVIOUS
<1>2. n * (q - p - 1) >= 0
  BY <1>1
<1>3. n * (q - p - 1) = n * q - n * p - n
  OBVIOUS
<1> QED
  BY <1>2, <1>3

LEMMA DivisionUnique ==
    ASSUME NEW n \in Nat \ {0}, NEW p \in Int, NEW q \in Int,
           NEW r \in 0..(n - 1), NEW s \in 0..(n - 1), n * p + r = n * q + s
    PROVE  r = s
<1>0. n * p \in Int /\ n * q \in Int
  OBVIOUS
<1>1. CASE p < q
  BY <1>0, <1>1, MultipleMonotone
<1>2. CASE q < p
  BY <1>0, <1>2, MultipleMonotone
<1>3. CASE p = q
  BY <1>0, <1>3
<1> QED
  BY <1>1, <1>2, <1>3

LEMMA ModOfMultiple ==
    ASSUME NEW n \in Nat \ {0}, NEW q \in Int, NEW r \in 0..(n - 1)
    PROVE  (n * q + r) % n = r
<1> DEFINE x == n * q + r
<1>1. x \in Int
  OBVIOUS
<1>2. x \div n \in Int /\ x % n \in 0..(n - 1) /\ x = n * (x \div n) + (x % n)
  BY <1>1, Division
<1> QED
  BY <1>2, DivisionUnique

-----------------------------------------------------------------------------
(* The cursor.                                                             *)

LEMMA TickSize ==
    /\ per_tick \in 1..NShards /\ Least(per_tick, NShards) = per_tick
    /\ Rotation \in Nat /\ NShards = per_tick * Rotation
<1>1. per_tick \in 1..NShards
  BY ShardAssumption DEF per_tick, Greatest, SweepShardDivisor
<1>2. NShards = per_tick * (NShards \div per_tick) /\ NShards \div per_tick \in Int
  BY <1>1, ShardAssumption, TurnAssumption, Division
<1>3. NShards \div per_tick >= 0
  BY <1>1, ShardAssumption
<1> QED
  BY <1>1, <1>2, <1>3, ShardAssumption DEF Rotation, Least

LEMMA WordIsTurns ==
    ASSUME NEW x \in Nat
    PROVE  /\ x % CursorWord \in 0..(CursorWord - 1)
           /\ \E q \in Int : x % CursorWord = x - NShards * q
           /\ (x % CursorWord) % NShards = x % NShards
<1> DEFINE a == x \div CursorWord
           r == x % CursorWord
           k == CursorWord \div NShards
           b == r \div NShards
<1>1. CursorWord = NShards * k /\ k \in Int
  BY ShardAssumption, TurnAssumption, Division
<1>2. a \in Int /\ r \in 0..(CursorWord - 1) /\ x = CursorWord * a + r
  BY ShardAssumption, Division
<1>3. b \in Int /\ r % NShards \in 0..(NShards - 1) /\ r = NShards * b + (r % NShards)
  BY <1>2, ShardAssumption, Division
<1> HIDE DEF a, r, k, b
<1>4. CursorWord * a = NShards * (k * a)
  BY <1>1, <1>2, ShardAssumption
<1>5. x = NShards * (k * a + b) + (r % NShards)
  BY <1>1, <1>2, <1>3, <1>4, ShardAssumption
<1>6. x % NShards = r % NShards
  <2>1. PICK q \in Int : q = k * a + b
    BY <1>1, <1>2, <1>3
  <2>2. PICK m \in 0..(NShards - 1) : m = r % NShards
    BY <1>3
  <2>3. x = NShards * q + m
    BY <1>5, <2>1, <2>2
  <2> QED
    BY <2>2, <2>3, ShardAssumption, ModOfMultiple
<1>7. r = x - NShards * (k * a) /\ k * a \in Int
  BY <1>1, <1>2, <1>4, ShardAssumption
<1> QED
  BY <1>2, <1>6, <1>7 DEF r

(* How many shards from the cursor c the shard s comes up.                 *)
Ahead(s, c) == (s - c) % NShards

LEMMA AheadType ==
    ASSUME NEW s \in Shards, NEW c \in Int
    PROVE  /\ Ahead(s, c) \in 0..(NShards - 1)
           /\ \E q \in Int : s - c = NShards * q + Ahead(s, c)
<1>1. PICK x \in Int : x = s - c
  BY ShardAssumption DEF Shards
<1>2. /\ x \div NShards \in Int /\ x % NShards \in 0..(NShards - 1)
      /\ x = NShards * (x \div NShards) + (x % NShards)
  BY ShardAssumption, Division
<1> QED
  BY <1>1, <1>2 DEF Ahead

(* The shard that a visit reaches d shards from the cursor.                *)
LEMMA AheadOfVisited ==
    ASSUME NEW c \in Nat, NEW d \in 0..(NShards - 1)
    PROVE  LET s == ((c + d) % CursorWord) % NShards
           IN  s \in Shards /\ Ahead(s, c) = d
<1> DEFINE s == ((c + d) % CursorWord) % NShards
<1>0. PICK x \in Nat : x = c + d
  BY ShardAssumption
<1>1. s = x % NShards
  BY <1>0, WordIsTurns
<1>2. PICK q \in Int : s \in 0..(NShards - 1) /\ c + d = NShards * q + s
  <2>1. /\ x \div NShards \in Int /\ x % NShards \in 0..(NShards - 1)
        /\ x = NShards * (x \div NShards) + (x % NShards)
    BY ShardAssumption, Division
  <2> HIDE DEF s
  <2> QED
    BY <1>0, <1>1, <2>1
<1> HIDE DEF s
<1>3. PICK m \in Int : m = -q
  OBVIOUS
<1>4. s - c = NShards * m + d
  BY <1>2, <1>3, ShardAssumption
<1>5. Ahead(s, c) = d
  BY <1>2, <1>4, ShardAssumption, ModOfMultiple DEF Ahead
<1> QED
  BY <1>2, <1>5 DEF Shards, s

LEMMA AheadIsOne ==
    ASSUME NEW c \in Int, NEW s \in Shards, NEW t \in Shards, Ahead(s, c) = Ahead(t, c)
    PROVE  s = t
<1>0. PICK d \in Int : d = Ahead(s, c)
  BY AheadType
<1>1. PICK p \in Int : s - c = NShards * p + d
  BY <1>0, AheadType
<1>2. PICK q \in Int : t - c = NShards * q + d
  BY <1>0, AheadType
<1>3. s \in 0..(NShards - 1) /\ t \in 0..(NShards - 1) /\ NShards \in Nat \ {0}
  BY ShardAssumption DEF Shards
<1>4. NShards * q + s = NShards * p + t
  BY <1>1, <1>2, <1>3
<1> QED
  BY <1>3, <1>4, DivisionUnique

(* A tick moves every shard nearer, and those it passed to the far end.    *)
LEMMA AheadMoves ==
    ASSUME NEW s \in Shards, NEW c \in Nat
    PROVE  Ahead(s, (c + per_tick) % CursorWord) =
             IF Ahead(s, c) < per_tick THEN Ahead(s, c) - per_tick + NShards
             ELSE Ahead(s, c) - per_tick
<1>0. per_tick \in 1..NShards /\ NShards \in Nat \ {0} /\ s \in Int
  BY TickSize, ShardAssumption DEF Shards
<1>1. PICK d \in 0..(NShards - 1) : d = Ahead(s, c)
  BY AheadType
<1>2. PICK p \in Int : s - c = NShards * p + d
  BY <1>1, AheadType
<1>3. PICK x \in Nat : x = c + per_tick
  BY <1>0
<1>4. PICK q \in Int : x % CursorWord = x - NShards * q
  BY WordIsTurns
<1>5. PICK y \in Int : y = x % CursorWord
  BY <1>0, <1>4
<1>6. s - y = NShards * (p + q) + (d - per_tick)
  BY <1>0, <1>2, <1>3, <1>4, <1>5
<1>7. s - y = NShards * (p + q - 1) + (d - per_tick + NShards)
  BY <1>0, <1>6
<1>8. CASE d < per_tick
  <2>1. PICK e \in 0..(NShards - 1) : e = d - per_tick + NShards
    BY <1>0, <1>8
  <2>2. PICK m \in Int : m = p + q - 1
    OBVIOUS
  <2>3. (s - y) % NShards = e
    BY <1>0, <1>7, <2>1, <2>2, ModOfMultiple
  <2> QED
    BY <1>1, <1>3, <1>5, <1>8, <2>1, <2>3 DEF Ahead
<1>9. CASE ~(d < per_tick)
  <2>1. PICK e \in 0..(NShards - 1) : e = d - per_tick
    BY <1>0, <1>9
  <2>2. PICK m \in Int : m = p + q
    OBVIOUS
  <2>3. (s - y) % NShards = e
    BY <1>0, <1>6, <2>1, <2>2, ModOfMultiple
  <2> QED
    BY <1>1, <1>3, <1>5, <1>9, <2>1, <2>3 DEF Ahead
<1> QED
  BY <1>8, <1>9

LEMMA ShardsFinite ==
    ASSUME NEW S, S \subseteq 0..(NShards - 1)
    PROVE  IsFiniteSet(S)
<1>1. IsFiniteSet(0..(NShards - 1))
  BY FS_Interval, ShardAssumption
<1> QED
  BY <1>1, FS_Subset

-----------------------------------------------------------------------------
(* The pacer.                                                              *)

Slowest == MaxDelay + MaxDelay \div 4

LEMMA Delays ==
    /\ MinDelay \in Nat /\ MaxDelay \in Nat /\ Slowest \in Nat /\ Millisecond = 1000
    /\ MinDelay <= StartDelay /\ StartDelay <= MaxDelay
    /\ MaxDelay = 30000 * 1000 /\ Slowest = 37500 * 1000
<1>1. MaxDelay = 30000 * 1000
  BY DEF MaxDelay, Second, Millisecond
<1>2. MaxDelay \div 4 = 7500 * 1000
  BY <1>1
<1>3. MinDelay \in Nat /\ MinDelay <= StartDelay /\ StartDelay <= MaxDelay
  BY DEF MinDelay, StartDelay, MaxDelay, Second, Millisecond
<1> QED
  BY <1>1, <1>2, <1>3 DEF Slowest, Millisecond

LEMMA JitterBound ==
    ASSUME NEW d \in MinDelay..MaxDelay, NEW o \in Offset
    PROVE  next_delay(d, o) \in 0..Slowest
<1> DEFINE w == (Spread(d) * o) \div 1000
<1>1. d \in Nat /\ d <= 30000 * 1000 /\ o \in 0..999
  BY Delays, ShardAssumption
<1>2. Spread(d) \in 0..15000 /\ 2000 * Spread(d) <= d
  BY <1>1 DEF Spread, Millisecond
<1>3. PICK n \in 0..15000 : n = Spread(d)
  BY <1>2
<1>4. n * o <= n * 1000 /\ n * o >= 0 /\ n * o \in Int
  BY <1>1
<1>5. (n * o) \div 1000 \in 0..n
  BY <1>4
<1>6. w \in 0..n
  BY <1>3, <1>5
<1> HIDE DEF w
<1>7. next_delay(d, o) = d + w * 1000 - (n \div 2) * 1000
  BY <1>3 DEF next_delay, w, Millisecond
<1>8. PICK h \in Nat : h = n \div 2 /\ 2 * h <= n /\ n <= 2 * h + 1
  OBVIOUS
<1>9. 2000 * n <= d
  BY <1>2, <1>3
<1>10. n - h <= 7500
  BY <1>8
<1>11. PICK u \in Nat : u = w
  BY <1>6
<1>12. next_delay(d, o) = d + 1000 * u - 1000 * h
  BY <1>7, <1>8, <1>11
<1>13. u <= n /\ u - h <= 7500
  BY <1>6, <1>10, <1>11, <1>8
<1>14. 1000 * (u - h) <= 1000 * 7500
  BY <1>13
<1>15. next_delay(d, o) <= 37500 * 1000
  BY <1>1, <1>12, <1>14
<1>16. 1000 * h <= d /\ next_delay(d, o) \in Int
  BY <1>1, <1>8, <1>9, <1>12
<1>17. next_delay(d, o) >= 0
  BY <1>1, <1>12, <1>16
<1>18. next_delay(d, o) <= Slowest
  BY <1>15, Delays
<1>19. Slowest \in Nat
  BY Delays
<1> QED
  BY <1>16, <1>17, <1>18, <1>19

LEMMA PaceBound ==
    ASSUME NEW d \in MinDelay..MaxDelay, NEW n
    PROVE  observe(d, n) \in MinDelay..MaxDelay
<1>1. d \in Nat /\ MinDelay \in Nat /\ MaxDelay \in Nat /\ MinDelay <= MaxDelay
      /\ MinDelay <= d /\ d <= MaxDelay
  BY Delays
<1>2. PICK h \in Nat : h = d \div 2 /\ h <= d
  BY <1>1
<1> QED
  BY <1>1, <1>2 DEF observe, Least, Greatest

-----------------------------------------------------------------------------
(* The inductive invariant.                                                *)

Types ==
    /\ cursor \in 0..(CursorWord - 1) /\ start \in 0..(CursorWord - 1)
    /\ visited \in 0..per_tick /\ found \in 0..visited
    /\ delay \in MinDelay..MaxDelay
    /\ task \in {"sleeping", "sweeping"}
    /\ dead \subseteq Shards
    /\ waiting \in Nat
    /\ since \in [Shards -> Nat]

(* Asleep, a shard has been passed over for as many ticks as bring its     *)
(* turn before a full rotation is over.                                    *)
Due == \A s \in Shards : per_tick * since[s] + Ahead(s, cursor) < NShards

(* Awake, the shards behind the cursor's last read are visited as far as   *)
(* the loop has come; the others have one tick more to wait than asleep.   *)
Passing ==
    /\ cursor = (start + per_tick) % CursorWord
    /\ \A s \in Shards :
          IF Ahead(s, start) < visited THEN since[s] = 0
          ELSE /\ since[s] >= 1
               /\ per_tick * since[s] + Ahead(s, start) < NShards + per_tick

Fresh == {s \in Shards : since[s] = 0}

SweepInv ==
    /\ Types
    /\ task = "sleeping" => Due
    /\ task = "sweeping" => Passing /\ Cardinality(Fresh) = visited
    /\ waiting <= Slowest * since[Watched]

LEMMA SweepInit == Init => SweepInv
<1> SUFFICES ASSUME Init PROVE SweepInv
  OBVIOUS
<1>1. Types
  <2>1. cursor \in 0..(CursorWord - 1) /\ start \in 0..(CursorWord - 1)
    BY ShardAssumption DEF Init
  <2>2. visited \in 0..per_tick /\ found \in 0..visited
    BY TickSize DEF Init
  <2>3. delay \in MinDelay..MaxDelay
    BY Delays DEF Init, StartDelay, Second, Millisecond
  <2> QED
    BY <2>1, <2>2, <2>3 DEF Init, Types
<1>2. Due
  <2> SUFFICES ASSUME NEW s \in Shards PROVE per_tick * since[s] + Ahead(s, cursor) < NShards
    BY DEF Due
  <2>1. since[s] = 0 /\ cursor \in Int /\ per_tick \in Int /\ NShards \in Int
    BY <1>1, TickSize, ShardAssumption DEF Init, Types
  <2> QED
    BY <2>1, AheadType
<1>3. waiting <= Slowest * since[Watched]
  BY ShardAssumption, Delays DEF Init
<1> QED
  BY <1>1, <1>2, <1>3 DEF SweepInv, Init

LEMMA SweepMortal ==
    ASSUME SweepInv, NEW s \in Mortal, Expire(s) \/ Disappear(s)
    PROVE  SweepInv'
<1>1. /\ cursor' = cursor /\ start' = start /\ visited' = visited /\ since' = since
      /\ task' = task /\ found' = found /\ delay' = delay
      /\ dead' \subseteq Shards /\ waiting' \in {waiting, 0}
  BY ShardAssumption DEF Expire, Disappear, SweepInv, Types
<1>2. Types'
  BY <1>1 DEF SweepInv, Types
<1>3. Due' = Due /\ Passing' = Passing /\ Fresh' = Fresh
  BY <1>1 DEF Due, Passing, Fresh
<1>4. waiting' <= Slowest * since[Watched]
  <2>1. since[Watched] \in Nat /\ waiting \in Nat /\ waiting <= Slowest * since[Watched]
    BY ShardAssumption DEF SweepInv, Types
  <2> QED
    BY <1>1, <2>1, Delays
<1> QED
  BY <1>1, <1>2, <1>3, <1>4 DEF SweepInv

LEMMA SweepWake ==
    ASSUME SweepInv, Wake
    PROVE  SweepInv'
<1>0. /\ Types /\ Due /\ per_tick \in 1..NShards /\ NShards \in Nat \ {0}
      /\ waiting <= Slowest * since[Watched] /\ Watched \in Shards
  BY TickSize, ShardAssumption DEF SweepInv, Wake
<1>1. /\ task' = "sweeping" /\ start' = cursor /\ cursor' = (cursor + per_tick) % CursorWord
      /\ visited' = 0 /\ found' = 0 /\ delay' = delay /\ dead' = dead
      /\ since' = [s \in Shards |-> since[s] + 1]
  BY DEF Wake, Advance
<1>8. Slowest \in Nat
  BY Delays
<1>2. PICK j \in 0..Slowest : waiting' \in {waiting, waiting + j}
  <2>1. PICK o \in Offset : waiting' \in {waiting, waiting + next_delay(delay, o)}
    BY DEF Wake
  <2>2. next_delay(delay, o) \in 0..Slowest
    BY <1>0, JitterBound DEF Types
  <2> QED
    BY <2>1, <2>2
<1>3. \A s \in Shards : since[s] \in Nat /\ since'[s] = since[s] + 1
  BY <1>0, <1>1 DEF Types
<1>4. Types'
  <2>1. (cursor + per_tick) % CursorWord \in 0..(CursorWord - 1)
    <3>1. PICK x \in Nat : x = cursor + per_tick
      BY <1>0, ShardAssumption DEF Types
    <3> QED
      BY <3>1, WordIsTurns
  <2>2. waiting' \in Nat
    <3>1. waiting \in Nat /\ j \in Nat
      BY <1>0, <1>2, <1>8 DEF Types
    <3> QED
      BY <1>2, <3>1
  <2> QED
    BY <1>0, <1>1, <1>3, <2>1, <2>2 DEF Types
<1>5. Passing'
  <2> SUFFICES ASSUME NEW s \in Shards
               PROVE  /\ ~(Ahead(s, start') < 0) /\ since'[s] >= 1
                      /\ per_tick * since'[s] + Ahead(s, start') < NShards + per_tick
    BY <1>1 DEF Passing, Ahead
  <2>1. PICK a \in 0..(NShards - 1) : a = Ahead(s, start')
    <3>1. PICK c \in Int : c = start'
      BY <1>0, <1>1, ShardAssumption DEF Types
    <3> QED
      BY <3>1, AheadType
  <2>2. per_tick * since[s] + a < NShards
    BY <1>0, <1>1, <2>1 DEF Due
  <2>3. per_tick * (since[s] + 1) = per_tick * since[s] + per_tick
    BY <1>0, <1>3
  <2>4. per_tick * since[s] \in Int
    BY <1>0, <1>3
  <2> QED
    BY <1>0, <1>3, <2>1, <2>2, <2>3, <2>4
<1>6. Cardinality(Fresh)' = visited'
  <2>1. Fresh' = {}
    BY <1>1, <1>3 DEF Fresh
  <2> QED
    BY <1>1, <2>1, FS_EmptySet
<1>7. waiting' <= Slowest * since'[Watched]
  <2>1. PICK n \in Nat : n = since[Watched] /\ since'[Watched] = n + 1
    BY <1>0, <1>3
  <2>2. /\ waiting \in Nat /\ j \in Nat /\ waiting' \in Nat
        /\ waiting' <= waiting + j /\ j <= Slowest
    BY <1>0, <1>2, <1>8 DEF Types
  <2>3. waiting <= Slowest * n
    BY <1>0, <2>1
  <2>4. Slowest * (n + 1) = Slowest * n + Slowest /\ Slowest * n \in Nat
    BY <1>8
  <2> QED
    BY <1>8, <2>1, <2>2, <2>3, <2>4
<1> QED
  BY <1>1, <1>4, <1>5, <1>6, <1>7 DEF SweepInv

LEMMA SweepVisit ==
    ASSUME SweepInv, Visit
    PROVE  SweepInv'
<1> DEFINE v == ((start + visited) % CursorWord) % NShards
<1>0. /\ Types /\ Passing /\ Cardinality(Fresh) = visited
      /\ per_tick \in 1..NShards /\ NShards \in Nat \ {0} /\ CursorWord \in Nat
      /\ waiting <= Slowest * since[Watched] /\ Watched \in Shards
  BY TickSize, ShardAssumption DEF SweepInv, Visit
<1>1. /\ task = "sweeping" /\ task' = task /\ visited < per_tick /\ visited' = visited + 1
      /\ found' \in {found, found + 1} /\ dead' \subseteq dead
      /\ waiting' = IF v = Watched THEN 0 ELSE waiting
      /\ since' = [since EXCEPT ![v] = 0]
      /\ cursor' = cursor /\ start' = start /\ delay' = delay
  BY TickSize DEF Visit
<1>2. v \in Shards /\ Ahead(v, start) = visited
  <2>1. start \in Nat /\ visited \in 0..(NShards - 1)
    BY <1>0, <1>1 DEF Types
  <2> QED
    BY <2>1, AheadOfVisited
<1> HIDE DEF v
<1>3. \A s \in Shards : /\ since[s] \in Nat
                        /\ since'[s] = IF s = v THEN 0 ELSE since[s]
  BY <1>0, <1>1 DEF Types
<1>4. Types'
  BY <1>0, <1>1, <1>2 DEF Types
<1>5. Passing'
  <2> SUFFICES ASSUME NEW s \in Shards
               PROVE  IF Ahead(s, start) < visited + 1 THEN since'[s] = 0
                      ELSE /\ since'[s] >= 1
                           /\ per_tick * since'[s] + Ahead(s, start) < NShards + per_tick
    BY <1>0, <1>1 DEF Passing, Ahead
  <2>1. PICK a \in 0..(NShards - 1) : a = Ahead(s, start)
    BY <1>0, AheadType DEF Types
  <2>2. a = visited <=> s = v
    BY <1>0, <1>2, <2>1, AheadIsOne DEF Types
  <2>3. visited \in Nat
    BY <1>0 DEF Types
  <2>4. IF a < visited THEN since[s] = 0
        ELSE since[s] >= 1 /\ per_tick * since[s] + a < NShards + per_tick
    BY <1>0, <2>1 DEF Passing
  <2>5. CASE s = v
    BY <1>3, <2>1, <2>2, <2>3, <2>5
  <2>6. CASE s # v
    <3>1. since'[s] = since[s] /\ a # visited
      BY <1>3, <2>2, <2>6
    <3> QED
      BY <2>1, <2>3, <2>4, <3>1
  <2> QED
    BY <2>5, <2>6
<1>6. Cardinality(Fresh)' = visited + 1
  <2>1. v \notin Fresh
    BY <1>0, <1>2 DEF Passing, Fresh, Types
  <2>2. Fresh' = Fresh \cup {v}
    BY <1>2, <1>3 DEF Fresh
  <2>3. IsFiniteSet(Fresh)
    <3>1. Fresh \subseteq 0..(NShards - 1)
      BY DEF Fresh, Shards
    <3> QED
      BY <3>1, ShardsFinite
  <2>4. Cardinality(Fresh \cup {v}) = Cardinality(Fresh) + 1
    BY <2>1, <2>3, FS_AddElement
  <2> QED
    BY <1>0, <2>2, <2>4
<1>7. waiting' <= Slowest * since'[Watched]
  <2>1. CASE v = Watched
    BY <1>0, <1>1, <1>3, <2>1, Delays
  <2>2. CASE v # Watched
    BY <1>0, <1>1, <1>3, <2>2
  <2> QED
    BY <2>1, <2>2
<1> QED
  BY <1>1, <1>4, <1>5, <1>6, <1>7 DEF SweepInv

LEMMA SweepObserve ==
    ASSUME SweepInv, Observe
    PROVE  SweepInv'
<1>0. /\ Types /\ Passing /\ per_tick \in 1..NShards /\ NShards \in Nat \ {0}
      /\ waiting <= Slowest * since[Watched] /\ Watched \in Shards
  BY TickSize, ShardAssumption DEF SweepInv, Observe
<1>1. /\ task' = "sleeping" /\ visited = per_tick /\ delay' = observe(delay, found)
      /\ UNCHANGED <<cursor, start, visited, found, dead, waiting, since>>
  BY TickSize DEF Observe
<1>2. Types'
  BY <1>0, <1>1, PaceBound DEF Types
<1>3. Due'
  <2> SUFFICES ASSUME NEW s \in Shards
               PROVE  per_tick * since[s] + Ahead(s, cursor) < NShards
    BY <1>1 DEF Due, Ahead
  <2>1. PICK a \in 0..(NShards - 1) : a = Ahead(s, start)
    BY <1>0, AheadType DEF Types
  <2>2. Ahead(s, cursor) = IF a < per_tick THEN a - per_tick + NShards ELSE a - per_tick
    BY <1>0, <2>1, AheadMoves DEF Passing, Types
  <2>3. IF a < per_tick THEN since[s] = 0
        ELSE since[s] >= 1 /\ per_tick * since[s] + a < NShards + per_tick
    BY <1>0, <1>1, <2>1 DEF Passing
  <2>4. since[s] \in Nat /\ per_tick * since[s] \in Int
    BY <1>0 DEF Types
  <2>5. CASE a < per_tick
    <3>1. per_tick * since[s] = 0 /\ Ahead(s, cursor) = a - per_tick + NShards
      BY <1>0, <2>2, <2>3, <2>5
    <3> QED
      BY <1>0, <2>1, <2>5, <3>1
  <2>6. CASE ~(a < per_tick)
    <3>1. /\ per_tick * since[s] + a < NShards + per_tick
          /\ Ahead(s, cursor) = a - per_tick
      BY <2>2, <2>3, <2>6
    <3> QED
      BY <1>0, <2>1, <2>4, <3>1
  <2> QED
    BY <2>5, <2>6
<1> QED
  BY <1>0, <1>1, <1>2, <1>3 DEF SweepInv

LEMMA SweepStep == SweepInv /\ [Next]_vars => SweepInv'
<1>1. SweepInv /\ UNCHANGED vars => SweepInv'
  BY DEF vars, SweepInv, Types, Due, Passing, Fresh, Ahead
<1> QED
  BY <1>1, SweepMortal, SweepWake, SweepVisit, SweepObserve DEF Next

LEMMA SweepAlways == Spec => []SweepInv
BY SweepInit, SweepStep, PTL DEF Spec

-----------------------------------------------------------------------------
(* What follows from it.                                                   *)

LEMMA NoneOverdue ==
    ASSUME SweepInv
    PROVE  \A s \in Shards : since[s] <= Rotation
<1> SUFFICES ASSUME NEW s \in Shards, since[s] > Rotation PROVE FALSE
  BY TickSize DEF SweepInv, Types
<1>1. /\ since[s] \in Nat /\ Rotation \in Nat /\ NShards = per_tick * Rotation
      /\ per_tick \in Nat \ {0} /\ cursor \in Int /\ start \in Int
  BY TickSize, ShardAssumption DEF SweepInv, Types
<1>2. per_tick * since[s] < NShards + per_tick
  <2>1. CASE task = "sleeping"
    <3>1. per_tick * since[s] + Ahead(s, cursor) < NShards
      BY <2>1 DEF SweepInv, Due
    <3>2. PICK a \in Nat : a = Ahead(s, cursor)
      BY <1>1, AheadType, ShardAssumption
    <3> QED
      BY <1>1, <3>1, <3>2
  <2>2. CASE task = "sweeping"
    <3>1. since[s] = 0 \/ per_tick * since[s] + Ahead(s, start) < NShards + per_tick
      BY <2>2 DEF SweepInv, Passing
    <3>2. PICK a \in Nat : a = Ahead(s, start)
      BY <1>1, AheadType, ShardAssumption
    <3>3. CASE since[s] = 0
      BY <1>1, <3>3
    <3> QED
      BY <1>1, <3>1, <3>2, <3>3
  <2> QED
    BY <2>1, <2>2 DEF SweepInv, Types
<1>3. per_tick * Rotation + per_tick <= per_tick * since[s]
  BY <1>1, MultipleMonotone
<1> QED
  BY <1>1, <1>2, <1>3

(* The delay stays between a quarter of a second and thirty, whatever the  *)
(* sweeps find, and no tick visits more shards than it advances the cursor *)
(* by (cache.rs:373-411, 866-878).                                         *)
THEOREM TypeCorrect == Spec => []TypeOK
<1>1. SweepInv => TypeOK
  BY TickSize, ShardAssumption DEF SweepInv, Types, TypeOK
<1> QED
  BY <1>1, SweepAlways, PTL

(* For any number of shards a tick's share divides, and any cursor, also   *)
(* one that wraps, no shard waits longer than a rotation for its visit,    *)
(* and a tick visits as many different shards as it is due                 *)
(* (cache.rs:866-878).                                                     *)
THEOREM EveryShardAlwaysVisited == Spec => []EveryShardVisited
<1>1. SweepInv => EveryShardVisited
  BY NoneOverdue, TickSize DEF SweepInv, Fresh, EveryShardVisited
<1> QED
  BY <1>1, SweepAlways, PTL

(* Whenever entries die, and however the pacer speeds up and slows down    *)
(* with its jitter, a dead entry is gone after one rotation at the slowest *)
(* pace (cache.rs:373-411).                                                *)
THEOREM AlwaysReclaimedInTime == Spec => []ReclaimedInTime
<1>1. SweepInv => ReclaimedInTime
  <2> SUFFICES ASSUME SweepInv PROVE waiting <= Rotation * Slowest
    BY DEF ReclaimedInTime, Slowest
  <2>1. /\ Watched \in Shards /\ since[Watched] \in Nat /\ Rotation \in Nat
        /\ since[Watched] <= Rotation
    BY NoneOverdue, TickSize, ShardAssumption DEF SweepInv, Types
  <2>2. waiting \in Nat /\ waiting <= Slowest * since[Watched]
    BY DEF SweepInv, Types
  <2> QED
    BY <2>1, <2>2, Delays
<1> QED
  BY <1>1, SweepAlways, PTL
=============================================================================
