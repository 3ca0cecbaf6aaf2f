--------------------------- MODULE CacheContract ---------------------------
(***************************************************************************)
(* What a cache shard promises its callers, with no lock, hint, stamp,     *)
(* sample or counter in it.  A put takes effect once, somewhere between    *)
(* its call and its return.  A get answers with the newest put that is     *)
(* neither deleted, expired nor evicted at one instant of the call; it     *)
(* misses only when there is none.  The cache forgets an entry only if its *)
(* TTL has passed, or while it is over budget and a put that has taken     *)
(* effect has not yet returned.                                            *)
(***************************************************************************)
EXTENDS Integers, FiniteSets

CONSTANTS Key, KeyLen, Size, Overhead, Capacity, Expiry, Client, WallTime, Id,
          Nothing

VARIABLES
    store,  \* what the cache remembers of each key
    wall,   \* the system clock
    ask     \* the call each client is in

vars == <<store, wall, ask>>

Idle           == [phase |-> "idle"]
Putting(k, v)  == [phase |-> "put", key |-> k, value |-> v]
Getting(k, at) == [phase |-> "get", key |-> k, since |-> at]
Stored         == [phase |-> "stored"]
Answered(i)    == [phase |-> "answered", id |-> i]

Value == [id : Id, size : Size, expires_at : Expiry]

now_millis == IF wall < 0 THEN 0 ELSE wall

Expired(v, now) == v.expires_at # 0 /\ v.expires_at <= now

Present(k) == store[k] # Nothing

(* The bytes charged for what is remembered, as a set.                     *)
Charged ==
    UNION {{k} \X (1..KeyLen[k] + store[k].size + Overhead) :
             k \in {j \in Key : Present(j)}}

Set(k, v)     == store' = [store EXCEPT ![k] = v]
Forget(k)     == Set(k, Nothing)
Now(t, state) == ask' = [ask EXCEPT ![t] = state]

Init ==
    /\ store = [k \in Key |-> Nothing]
    /\ wall \in WallTime
    /\ ask = [t \in Client |-> Idle]

CallPut(t) ==
    /\ ask[t] = Idle
    /\ \E k \in Key, v \in Value : Now(t, Putting(k, v))
    /\ UNCHANGED <<store, wall>>

Put(t) ==
    /\ ask[t].phase = "put"
    /\ Set(ask[t].key, ask[t].value)
    /\ Now(t, Stored)
    /\ UNCHANGED wall

CallGet(t) ==
    /\ ask[t] = Idle
    /\ \E k \in Key : Now(t, Getting(k, now_millis))
    /\ UNCHANGED <<store, wall>>

GetHit(t) ==
    /\ ask[t].phase = "get" /\ Present(ask[t].key)
    /\ LET v == store[ask[t].key]
       IN  ~Expired(v, ask[t].since) /\ Now(t, Answered(v.id))
    /\ UNCHANGED <<store, wall>>

GetMiss(t) ==
    /\ ask[t].phase = "get" /\ ~Present(ask[t].key)
    /\ Now(t, Answered(0))
    /\ UNCHANGED <<store, wall>>

(* A get that meets an entry dead at its own clock reading buries it.      *)
GetExpired(t) ==
    /\ ask[t].phase = "get" /\ Present(ask[t].key)
    /\ Expired(store[ask[t].key], ask[t].since)
    /\ Forget(ask[t].key)
    /\ Now(t, Answered(0))
    /\ UNCHANGED wall

Return(t) ==
    /\ ask[t].phase \in {"stored", "answered"}
    /\ Now(t, Idle)
    /\ UNCHANGED <<store, wall>>

Delete(t) ==
    /\ ask[t] = Idle
    /\ \E k \in Key : Present(k) /\ Forget(k)
    /\ UNCHANGED <<wall, ask>>

Expire ==
    /\ \E k \in Key :
          Present(k) /\ Expired(store[k], now_millis) /\ Forget(k)
    /\ UNCHANGED <<wall, ask>>

Evict ==
    /\ Cardinality(Charged) > Capacity
    /\ \E t \in Client : ask[t] = Stored
    /\ \E k \in Key : Present(k) /\ Forget(k)
    /\ UNCHANGED <<wall, ask>>

Tick ==
    /\ \E w \in WallTime : w > wall /\ wall' = w
    /\ UNCHANGED <<store, ask>>

Next ==
    \/ Tick \/ Expire \/ Evict
    \/ \E t \in Client :
          \/ CallPut(t) \/ Put(t) \/ CallGet(t) \/ GetHit(t) \/ GetMiss(t)
          \/ GetExpired(t) \/ Return(t) \/ Delete(t)

Spec == Init /\ [][Next]_vars
=============================================================================
