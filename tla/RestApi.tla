------------------------------ MODULE RestApi ------------------------------
(***************************************************************************)
(* The two doors to a keyspace: the REST routes behind the auth layer and  *)
(* the body limit (falcon-api/src/server.rs, rest/simple.rs), and the wire *)
(* protocol's writes without a TTL, both through Keyspace                  *)
(* (falcon-core/src/keyspace.rs), which decides when an entry expires.     *)
(*                                                                         *)
(* The cache underneath is CacheContract, which ShardContract shows the    *)
(* shards to implement; its steps are taken from there.  WireConn models   *)
(* the gate and the limits of the wire: its requests come here admitted.   *)
(***************************************************************************)
EXTENDS Integers, Sequences, FiniteSets

CONSTANTS
    Client,      \* tasks that serve requests
    Request,     \* the requests they may get
    MaxCalls,    \* BOUND: how many they get in all
    Key, KeyLen, Size, Overhead, Capacity, Expiry, WallTime, Nothing,
    MaxMillis,   \* u64::MAX
    EmptyKey,    \* the key ""
    Absent,      \* no ttl in the body, no header, no query parameter
    ApiKey,      \* auth.api_key when auth is enabled
    AuthOn,      \* the values AuthConfig::is_enabled may have
    DefaultTtl,  \* the values default_ttl_secs may have
    MaxBody,     \* the values storage.max_value_bytes may have; 0 = no limit
    FrameworkLimit, \* the limit axum sets on a body when the router sets none
    HasCache     \* whether a keyspace called "cache" is configured

Doors == {"rest", "wire"}
Ops   == {"SET", "GET", "DEL", "PROBE"}
Seconds == Nat

ASSUME RequestAssumption ==
    Request \subseteq [door : Doors, op : Ops, key : Key, ttl : Seconds \cup {Absent},
                       header : STRING \cup {Absent}, query : STRING \cup {Absent},
                       body : Nat, size : Size]
ASSUME ClockAssumption ==
    /\ MaxMillis \in Nat \ {0} /\ WallTime \subseteq Int /\ Expiry \subseteq Nat
    /\ \A w \in WallTime : w < MaxMillis
ASSUME KeyAssumption == ApiKey # "" /\ ApiKey # Absent
ASSUME SettingAssumption ==
    /\ DefaultTtl \subseteq Seconds /\ Absent \notin Seconds
    /\ Nothing \notin Request
    /\ AuthOn \subseteq BOOLEAN /\ HasCache \subseteq BOOLEAN
    /\ MaxBody \subseteq Nat /\ MaxCalls \in Nat

VARIABLES
    store, wall, ask, \* the keyspace's cache: CacheContract's variables
    config,    \* what the node was started with
    request,   \* the last request of each client
    began,     \* the clock when the cache call of that request began
    reply,     \* the answer to it
    calls,     \* history: how many requests have come in
    writes     \* history: the writes that reached the cache, by id

cacheVars == <<store, wall, ask>>
frontVars == <<config, request, began, reply, calls, writes>>
vars == <<cacheVars, frontVars>>

Id == 1..MaxCalls

Cache == INSTANCE CacheContract

ASSUME ValueAssumption == Nothing \notin Cache!Value

Config == [auth_on : AuthOn, default_ttl : DefaultTtl, max_body : MaxBody,
           has_cache : HasCache]

Code == {"none", "pending", "200", "400", "401", "404", "413"}

(* An answer: its status, and the id of the value it carries, if any.      *)
Answer(code, id) == [code |-> code, id |-> id]
Pending == Answer("pending", 0)

NoReply == Answer("none", 0)

Init ==
    /\ Cache!Init
    /\ config \in Config
    /\ request = [c \in Client |-> Nothing]
    /\ began = [c \in Client |-> 0]
    /\ reply = [c \in Client |-> NoReply]
    /\ calls = 0
    /\ writes = <<>>

-----------------------------------------------------------------------------
(* Keyspace::put_with_ttl.                                                 *)

(* The definitions named Bad... are the mistakes the runs' properties are  *)
(* tested against; no specification uses them.                             *)
BadTtlMs(r) == config.default_ttl * 1000

(* Only a write that names no TTL gets the default; u128 holds the product.*)
TtlMs(r) == IF r.ttl = Absent THEN config.default_ttl * 1000 ELSE r.ttl * 1000

BadWrapped(n) == n % (MaxMillis + 1)

BadUnbounded(n) == n

Saturated(n) == IF n <= MaxMillis THEN n ELSE MaxMillis

(* When an entry written at now expires; 0 = never.                        *)
ExpiresAt(r, now) == IF TtlMs(r) > 0 THEN Saturated(now + TtlMs(r)) ELSE 0

-----------------------------------------------------------------------------
(* The layers in front of the REST handlers.                               *)

(* The bearer token, or failing that the api_key parameter.                *)
Presented(r) ==
    IF r.header # Absent THEN r.header
    ELSE IF r.query # Absent THEN r.query ELSE ""

BadAdmitted(r) ==
    config.auth_on /\ r.header # Absent => r.header = ApiKey

(* The layer exists only if a key is configured.                           *)
Admitted(r) == config.auth_on => Presented(r) = ApiKey

(* Without a layer of its own the router keeps the framework's limit.      *)
BodyLimit == IF config.max_body > 0 THEN config.max_body ELSE FrameworkLimit

Fresh(c) == reply[c] = Pending /\ ask[c] = Cache!Idle

Rest(c) == Fresh(c) /\ request[c].door = "rest"

RestPast(c) == Rest(c) /\ request[c].op # "PROBE" /\ Admitted(request[c])

TooLarge(r)   == r.op = "SET" /\ r.body > BodyLimit
MissingKey(r) == r.op \in {"GET", "DEL"} /\ r.key = EmptyKey

(* The request reaches the keyspace.                                       *)
Reaches(c) ==
    /\ config.has_cache
    /\ \/ Fresh(c) /\ request[c].door = "wire"
       \/ RestPast(c) /\ ~TooLarge(request[c]) /\ ~MissingKey(request[c])

Reply(c, code, id) == reply' = [reply EXCEPT ![c] = Answer(code, id)]

Refuse(c, code) ==
    /\ Reply(c, code, 0)
    /\ UNCHANGED <<cacheVars, config, request, began, calls, writes>>

Receive(c) ==
    /\ reply[c] # Pending /\ calls < MaxCalls
    /\ \E r \in Request : request' = [request EXCEPT ![c] = r]
    /\ reply' = [reply EXCEPT ![c] = Pending]
    /\ calls' = calls + 1
    /\ UNCHANGED <<cacheVars, config, began, writes>>

(* /healthz and /health, exempt from the auth layer as is /readyz, which   *)
(* answers 503 until the node is ready.                                    *)
Probe(c) == Rest(c) /\ request[c].op = "PROBE" /\ Refuse(c, "200")

Unauthorized(c) ==
    Rest(c) /\ request[c].op # "PROBE" /\ ~Admitted(request[c]) /\ Refuse(c, "401")

PayloadTooLarge(c) == RestPast(c) /\ TooLarge(request[c]) /\ Refuse(c, "413")

BadRequest(c) == RestPast(c) /\ MissingKey(request[c]) /\ Refuse(c, "400")

UnknownKeyspace(c) ==
    /\ Fresh(c) /\ ~config.has_cache
    /\ \/ request[c].door = "wire"
       \/ RestPast(c) /\ ~TooLarge(request[c]) /\ ~MissingKey(request[c])
    /\ Refuse(c, "404")

-----------------------------------------------------------------------------
(* cache_write, cache_read and cache_delete, and the wire's counterparts.  *)

(* The expiry is computed from a clock reading taken before the cache is   *)
(* called.                                                                 *)
StartWrite(c) ==
    LET r == request[c]
        id == Len(writes) + 1
    IN  /\ Reaches(c) /\ r.op = "SET"
        /\ ask' = [ask EXCEPT ![c] = Cache!Putting(r.key,
                     [id |-> id, size |-> r.size,
                      expires_at |-> ExpiresAt(r, Cache!now_millis)])]
        /\ Cache!CallPut(c)
        /\ writes' = Append(writes, [request |-> r, at |-> Cache!now_millis])
        /\ began' = [began EXCEPT ![c] = Cache!now_millis]
        /\ UNCHANGED <<config, request, reply, calls>>

StartRead(c) ==
    /\ Reaches(c) /\ request[c].op = "GET"
    /\ ask' = [ask EXCEPT ![c] = Cache!Getting(request[c].key, Cache!now_millis)]
    /\ Cache!CallGet(c)
    /\ began' = [began EXCEPT ![c] = Cache!now_millis]
    /\ UNCHANGED <<config, request, reply, calls, writes>>

(* Deleting an absent key succeeds.                                        *)
Delete(c) ==
    LET k == request[c].key
    IN  /\ Reaches(c) /\ request[c].op = "DEL"
        /\ \/ Cache!Forget(k) /\ Cache!Delete(c)
           \/ ~Cache!Present(k) /\ UNCHANGED cacheVars
        /\ Reply(c, "200", 0)
        /\ UNCHANGED <<config, request, began, calls, writes>>

CacheAnswers(c) ==
    /\ Cache!Put(c) \/ Cache!GetHit(c) \/ Cache!GetMiss(c) \/ Cache!GetExpired(c)
    /\ UNCHANGED frontVars

Finish(c) ==
    /\ Cache!Return(c)
    /\ IF request[c].op = "SET" THEN Reply(c, "200", 0)
       ELSE IF ask[c].id = 0 THEN Reply(c, "404", 0) ELSE Reply(c, "200", ask[c].id)
    /\ UNCHANGED <<config, request, began, calls, writes>>

(* The sweep, evictions and the clock.                                     *)
Background == (Cache!Expire \/ Cache!Evict \/ Cache!Tick) /\ UNCHANGED frontVars

Next ==
    \/ Background
    \/ \E c \in Client :
          \/ Receive(c) \/ Probe(c) \/ Unauthorized(c) \/ PayloadTooLarge(c)
          \/ BadRequest(c) \/ UnknownKeyspace(c)
          \/ StartWrite(c) \/ StartRead(c) \/ Delete(c)
          \/ CacheAnswers(c) \/ Finish(c)

Spec == Init /\ [][Next]_vars
-----------------------------------------------------------------------------
(* Properties.                                                             *)

TypeOK ==
    /\ config \in Config
    /\ request \in [Client -> Request \cup {Nothing}]
    /\ began \in [Client -> Nat]
    /\ reply \in [Client -> [code : Code, id : Nat]]
    /\ calls \in Nat
    /\ writes \in Seq([request : Request, at : Nat])
    /\ store \in [Key -> Cache!Value \cup {Nothing}]
    /\ \A k \in Key : store[k] # Nothing => store[k].expires_at <= MaxMillis
    /\ wall \in WallTime

(* The TTL a write asked for, by the documents: its own, zero pinning the  *)
(* entry, or else the default.                                             *)
Asked(w) == IF w.request.ttl = Absent THEN config.default_ttl ELSE w.request.ttl

(* Write w is dead at time t, in arithmetic that knows no widest number.   *)
DeadAt(w, t) == Asked(w) # 0 /\ t >= w.at + 1000 * Asked(w)

(* Whichever door an entry came through and however large its TTL, it is   *)
(* dead at exactly the times its writer asked for: a TTL past the end of   *)
(* u64 never wraps into the past, zero overrides the default, an overwrite *)
(* leaves nothing of the TTL before it (keyspace.rs:45-68).                *)
DeadlineKept ==
    \A k \in Key : store[k] # Nothing =>
       \A t \in WallTime : t >= 0 =>
          (Cache!Expired(store[k], t) <=> DeadAt(writes[store[k].id], t))

(* A value is served only for the key it was written under, and only if it *)
(* was alive when the request reached the keyspace (keyspace.rs:33-38).    *)
ServedAlive ==
    \A c \in Client : reply[c].id # 0 =>
       LET w == writes[reply[c].id]
       IN  w.request.key = request[c].key /\ ~DeadAt(w, began[c])

HasKey(r) == ApiKey \in {r.header, r.query}

(* With a key configured, no REST request that lacks it leaves a trace in  *)
(* the cache or is told what is in it (server.rs:39-46, 80-121).           *)
NothingWithoutKey ==
    config.auth_on =>
       /\ \A k \in Key : store[k] # Nothing =>
             LET r == writes[store[k].id].request
             IN  r.door = "rest" => HasKey(r)
       /\ \A c \in Client : reply[c].id # 0 /\ request[c].door = "rest" =>
             HasKey(request[c])
=============================================================================
