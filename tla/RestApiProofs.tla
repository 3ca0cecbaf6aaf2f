---------------------------- MODULE RestApiProofs ---------------------------
(***************************************************************************)
(* Proofs about RestApi, for any requests, TTLs, clock and cache size.     *)
(***************************************************************************)
EXTENDS RestApi, TLAPS

Written == [request : Request, at : Nat]

Asks == [phase : {"idle"}] \cup [phase : {"stored"}]
          \cup [phase : {"put"}, key : Key, value : Cache!Value]
          \cup [phase : {"get"}, key : Key, since : Nat]
          \cup [phase : {"answered"}, id : Nat]

-----------------------------------------------------------------------------
(* The inductive invariant, in named parts.                                *)

Shape ==
    /\ config \in Config
    /\ request \in [Client -> Request \cup {Nothing}]
    /\ began \in [Client -> Nat] /\ \A c \in Client : began[c] < MaxMillis
    /\ reply \in [Client -> [code : Code, id : Nat]]
    /\ calls \in Nat
    /\ writes \in Seq(Written)
    /\ \A i \in DOMAIN writes : writes[i].at < MaxMillis
    /\ store \in [Key -> Cache!Value \cup {Nothing}]
    /\ wall \in WallTime
    /\ ask \in [Client -> Asks]

(* Value v, under key k, is what write v.id asked for.                     *)
FromWrite(v, k) ==
    /\ v.id \in DOMAIN writes
    /\ v.expires_at = ExpiresAt(writes[v.id].request, writes[v.id].at)
    /\ writes[v.id].request.key = k

(* Write i answers the request of c.                                       *)
Serves(i, c) ==
    /\ i \in DOMAIN writes
    /\ writes[i].request.key = request[c].key
    /\ ~DeadAt(writes[i], began[c])

Stored == \A k \in Key : store[k] # Nothing => FromWrite(store[k], k)

(* What the call of c holds is what its request asked for.                 *)
InCall(c) ==
    /\ ask[c].phase = "put" => FromWrite(ask[c].value, ask[c].key)
    /\ ask[c].phase = "get" => ask[c].since = began[c] /\ ask[c].key = request[c].key
    /\ ask[c].phase = "answered" /\ ask[c].id # 0 => Serves(ask[c].id, c)
    /\ ask[c].phase \in {"put", "stored"} => request[c].op = "SET"
    /\ ask[c].phase # "idle" => reply[c] = Pending
    /\ reply[c] = Pending => request[c] \in Request

Calling == \A c \in Client : InCall(c)

Answered == \A c \in Client : reply[c].id # 0 => Serves(reply[c].id, c)

Keyed(r) == config.auth_on /\ r.door = "rest" => HasKey(r)

KeysShown ==
    /\ \A i \in DOMAIN writes : Keyed(writes[i].request)
    /\ \A c \in Client :
          ask[c].phase # "idle" \/ reply[c].id # 0 => Keyed(request[c])

Inv == Shape /\ Stored /\ Calling /\ Answered /\ KeysShown

-----------------------------------------------------------------------------
(* The arithmetic of expiry.                                               *)

LEMMA TtlType ==
    ASSUME config \in Config, NEW r \in Request
    PROVE  TtlMs(r) \in Nat
<1>1. config.default_ttl \in Nat
  BY SettingAssumption DEF Config, Seconds
<1>2. r.ttl \in Nat \cup {Absent}
  BY RequestAssumption DEF Seconds
<1> QED
  BY <1>1, <1>2 DEF TtlMs

LEMMA ExpiryBounded ==
    ASSUME config \in Config, NEW r \in Request, NEW at \in Nat
    PROVE  ExpiresAt(r, at) \in 0..MaxMillis
BY TtlType, ClockAssumption DEF ExpiresAt, Saturated

(* A saturated expiry is in the future at every time the clock can show.   *)
LEMMA ExpiryExact ==
    ASSUME config \in Config, NEW w \in Written, NEW t \in Nat,
           w.at < MaxMillis, t < MaxMillis
    PROVE  LET x == ExpiresAt(w.request, w.at)
           IN  (x # 0 /\ x <= t) <=> DeadAt(w, t)
<1>1. w.request \in Request /\ w.at \in Nat
  BY DEF Written
<1>2. Asked(w) \in Nat /\ TtlMs(w.request) = 1000 * Asked(w)
  <2>1. config.default_ttl \in Nat
    BY SettingAssumption DEF Config, Seconds
  <2>2. w.request.ttl \in Nat \cup {Absent}
    BY <1>1, RequestAssumption DEF Seconds
  <2> QED
    BY <2>1, <2>2 DEF Asked, TtlMs
<1> QED
  BY <1>1, <1>2, ClockAssumption DEF ExpiresAt, Saturated, DeadAt

LEMMA NowBounded ==
    ASSUME wall \in WallTime
    PROVE  Cache!now_millis \in Nat /\ Cache!now_millis < MaxMillis
BY ClockAssumption DEF Cache!now_millis

LEMMA AdmittedHasKey ==
    ASSUME NEW r \in Request, r.door = "rest" => Admitted(r)
    PROVE  Keyed(r)
BY KeyAssumption DEF Keyed, Admitted, Presented, HasKey

LEMMA AskType ==
    ASSUME NEW a \in Asks
    PROVE  /\ a.phase = "put" => a.key \in Key /\ a.value \in Cache!Value
           /\ a.phase = "get" => a.key \in Key
           /\ a.phase = "answered" => a.id \in Nat
BY DEF Asks

(* One more write leaves what is known of the ones before it.              *)
LEMMA WritesGrow ==
    ASSUME Inv, config' = config, NEW w \in Written, writes' = Append(writes, w)
    PROVE  /\ writes' \in Seq(Written)
           /\ DOMAIN writes' = DOMAIN writes \cup {Len(writes) + 1}
           /\ \A i \in DOMAIN writes : writes'[i] = writes[i]
           /\ writes'[Len(writes) + 1] = w
           /\ \A v, k : FromWrite(v, k) => FromWrite(v, k)'
<1>1. writes \in Seq(Written)
  BY DEF Inv, Shape
<1>2. /\ writes' \in Seq(Written) /\ DOMAIN writes' = DOMAIN writes \cup {Len(writes) + 1}
      /\ \A i \in DOMAIN writes : writes'[i] = writes[i]
      /\ writes'[Len(writes) + 1] = w
  BY <1>1
<1> QED
  BY <1>2 DEF FromWrite, ExpiresAt, TtlMs

LEMMA WritesStay ==
    ASSUME config' = config, writes' = writes
    PROVE  /\ \A v, k : FromWrite(v, k)' <=> FromWrite(v, k)
           /\ \A r : Keyed(r)' <=> Keyed(r)
BY DEF FromWrite, ExpiresAt, TtlMs, Keyed

LEMMA ServesStays ==
    ASSUME config' = config, NEW c \in Client, NEW i \in DOMAIN writes,
           request'[c] = request[c], began'[c] = began[c],
           i \in DOMAIN writes', writes'[i] = writes[i], Serves(i, c)
    PROVE  Serves(i, c)'
BY DEF Serves, DeadAt, Asked

(* A step that leaves d's call, and the writes so far, alone.              *)
LEMMA InCallStays ==
    ASSUME config' = config, NEW d \in Client, InCall(d),
           ask'[d] = ask[d], request'[d] = request[d],
           began'[d] = began[d], reply'[d] = reply[d],
           DOMAIN writes \subseteq DOMAIN writes',
           \A i \in DOMAIN writes : writes'[i] = writes[i]
    PROVE  InCall(d)'
<1>1. \A v, k : FromWrite(v, k) => FromWrite(v, k)'
  BY DEF FromWrite, ExpiresAt, TtlMs
<1>2. \A i : Serves(i, d) => Serves(i, d)'
  BY DEF Serves, DeadAt, Asked
<1> QED
  BY <1>1, <1>2 DEF InCall

-----------------------------------------------------------------------------
LEMMA AnswerType ==
    ASSUME NEW code \in Code, NEW id \in Nat
    PROVE  Answer(code, id) \in [code : Code, id : Nat]
BY DEF Answer

LEMMA PendingType == Pending \in [code : Code, id : Nat] /\ Pending.id = 0
<1>1. "pending" \in Code /\ 0 \in Nat
  BY DEF Code
<1>2. Pending \in [code : Code, id : Nat]
  BY <1>1, AnswerType DEF Pending
<1> QED
  BY <1>2 DEF Pending, Answer

LEMMA InvInit == Init => Inv
<1> SUFFICES ASSUME Init PROVE Inv
  OBVIOUS
<1>1. Shape
  <2>1. NoReply \in [code : Code, id : Nat] /\ Cache!Idle \in Asks
    <3>1. "none" \in Code /\ 0 \in Nat
      BY DEF Code
    <3>2. NoReply \in [code : Code, id : Nat]
      BY <3>1, AnswerType DEF NoReply
    <3>3. Cache!Idle \in Asks
      BY DEF Cache!Idle, Asks
    <3> QED
      BY <3>2, <3>3
  <2>2. writes \in Seq(Written) /\ DOMAIN writes = {}
    BY DEF Init
  <2>3. 0 \in Nat /\ 0 < MaxMillis
    BY ClockAssumption
  <2>4. store \in [Key -> Cache!Value \cup {Nothing}] /\ wall \in WallTime
        /\ ask \in [Client -> Asks]
    BY <2>1 DEF Init, Cache!Init
  <2>5. /\ config \in Config /\ request \in [Client -> Request \cup {Nothing}]
        /\ began \in [Client -> Nat] /\ reply \in [Client -> [code : Code, id : Nat]]
        /\ calls \in Nat /\ \A c \in Client : began[c] < MaxMillis
    BY <2>1, <2>3 DEF Init
  <2> QED
    BY <2>2, <2>4, <2>5 DEF Shape
<1>2. Stored /\ Calling /\ Answered /\ KeysShown
  BY DEF Init, Cache!Init, Cache!Idle, Stored, Calling, InCall, Answered,
         KeysShown, Pending, NoReply, Answer
<1> QED
  BY <1>1, <1>2 DEF Inv

(* Steps that answer c without the cache.                                  *)
LEMMA RefuseKeeps ==
    ASSUME Inv, NEW c \in Client, NEW code \in Code, Fresh(c), Refuse(c, code)
    PROVE  Inv'
<1> USE DEF Refuse, Reply, Answer, cacheVars
<1>1. Shape'
  BY DEF Inv, Shape
<1>2. ask[c].phase = "idle" /\ reply'[c].id = 0
      /\ \A d \in Client \ {c} : reply'[d] = reply[d]
  BY DEF Inv, Shape, Fresh, Cache!Idle
<1>3. Stored' /\ Answered' /\ KeysShown'
  BY <1>2 DEF Inv, Stored, Answered, KeysShown, FromWrite, Serves, DeadAt, Asked,
              ExpiresAt, TtlMs, Keyed
<1>4. Calling'
  <2> SUFFICES ASSUME NEW d \in Client PROVE InCall(d)'
    BY DEF Calling
  <2>1. InCall(d)
    BY DEF Inv, Calling
  <2>2. CASE d = c
    BY <1>2, <2>1, <2>2 DEF InCall, Fresh
  <2>3. CASE d # c
    BY <1>2, <2>1, <2>3, InCallStays
  <2> QED
    BY <2>2, <2>3
<1> QED
  BY <1>1, <1>3, <1>4 DEF Inv

LEMMA ReceiveKeeps ==
    ASSUME Inv, NEW c \in Client, Receive(c)
    PROVE  Inv'
<1> USE DEF Receive, cacheVars
<1>1. Shape'
  <2>1. PICK r \in Request : request' = [request EXCEPT ![c] = r]
    OBVIOUS
  <2>2. reply' \in [Client -> [code : Code, id : Nat]] /\ calls' \in Nat
    BY PendingType DEF Inv, Shape
  <2>3. request' \in [Client -> Request \cup {Nothing}]
    BY <2>1 DEF Inv, Shape
  <2> QED
    BY <2>2, <2>3 DEF Inv, Shape
<1>2. /\ ask[c].phase = "idle" /\ reply'[c].id = 0
      /\ \A d \in Client \ {c} : reply'[d] = reply[d] /\ request'[d] = request[d]
  BY PendingType DEF Inv, Shape, Calling, InCall
<1>3. Stored' /\ Answered' /\ KeysShown'
  BY <1>2 DEF Inv, Stored, Answered, KeysShown, FromWrite, Serves, DeadAt, Asked,
              ExpiresAt, TtlMs, Keyed
<1>4. Calling'
  <2> SUFFICES ASSUME NEW d \in Client PROVE InCall(d)'
    BY DEF Calling
  <2>1. InCall(d)
    BY DEF Inv, Calling
  <2>2. CASE d = c
    <3>1. request'[c] \in Request
      BY DEF Inv, Shape
    <3> QED
      BY <1>2, <2>2, <3>1 DEF InCall
  <2>3. CASE d # c
    BY <1>2, <2>1, <2>3, InCallStays
  <2> QED
    BY <2>2, <2>3
<1> QED
  BY <1>1, <1>3, <1>4 DEF Inv

(* A request that reaches the keyspace is one that may.                    *)
LEMMA ReachesKeyed ==
    ASSUME Inv, NEW c \in Client, Reaches(c)
    PROVE  /\ request[c] \in Request /\ Keyed(request[c])
           /\ ask[c].phase = "idle" /\ reply[c] = Pending /\ reply[c].id = 0
           /\ request[c].key \in Key
<1>1. request[c] \in Request /\ reply[c] = Pending /\ ask[c] = Cache!Idle
  BY DEF Inv, Calling, InCall, Reaches, RestPast, Rest, Fresh
<1>2. request[c].door = "rest" => Admitted(request[c])
  BY DEF Reaches, RestPast
<1> QED
  BY <1>1, <1>2, AdmittedHasKey, PendingType, RequestAssumption DEF Cache!Idle

LEMMA StartWriteKeeps ==
    ASSUME Inv, NEW c \in Client, StartWrite(c)
    PROVE  Inv'
<1> DEFINE r == request[c]
           w == [request |-> r, at |-> Cache!now_millis]
           v == [id |-> Len(writes) + 1, size |-> r.size,
                 expires_at |-> ExpiresAt(r, Cache!now_millis)]
<1>1. /\ r \in Request /\ Keyed(r) /\ ask[c].phase = "idle" /\ r.key \in Key
      /\ reply[c] = Pending /\ reply[c].id = 0 /\ r.op = "SET"
  BY ReachesKeyed DEF StartWrite
<1>2. w \in Written /\ w.at < MaxMillis /\ Cache!now_millis \in Nat
  BY <1>1, NowBounded DEF Inv, Shape, Written
<1>3. /\ writes' = Append(writes, w) /\ ask' = [ask EXCEPT ![c] = Cache!Putting(r.key, v)]
      /\ began' = [began EXCEPT ![c] = Cache!now_millis]
      /\ UNCHANGED <<store, wall, config, request, reply, calls>>
  BY DEF StartWrite, Cache!CallPut
<1>4. PICK k \in Key, x \in Cache!Value :
        k = r.key /\ x = v /\ ask' = [ask EXCEPT ![c] = Cache!Putting(k, x)]
  <2>1. PICK k \in Key, x \in Cache!Value : ask' = [ask EXCEPT ![c] = Cache!Putting(k, x)]
    BY DEF StartWrite, Cache!CallPut, Cache!Now
  <2>2. Cache!Putting(k, x) = Cache!Putting(r.key, v)
    BY <1>3, <2>1 DEF Inv, Shape
  <2> QED
    BY <2>1, <2>2 DEF Cache!Putting
<1>5. Cache!Putting(k, x) \in Asks
  BY <1>4 DEF Cache!Putting, Asks
<1>6. /\ writes' \in Seq(Written)
      /\ DOMAIN writes' = DOMAIN writes \cup {Len(writes) + 1}
      /\ \A i \in DOMAIN writes : writes'[i] = writes[i]
      /\ writes'[Len(writes) + 1] = w
      /\ \A y, j : FromWrite(y, j) => FromWrite(y, j)'
  BY <1>2, <1>3, WritesGrow
<1>7. Shape'
  <2>1. \A i \in DOMAIN writes' : writes'[i].at < MaxMillis
    BY <1>2, <1>6 DEF Inv, Shape
  <2> QED
    BY <1>2, <1>3, <1>4, <1>5, <1>6, <2>1 DEF Inv, Shape
<1>8. Stored'
  BY <1>3, <1>6 DEF Inv, Stored
<1>9. \A d \in Client \ {c} : ask'[d] = ask[d] /\ began'[d] = began[d]
  BY <1>3 DEF Inv, Shape
<1>10. ask'[c] = Cache!Putting(k, x) /\ FromWrite(x, k)'
  <2>1. ask'[c] = Cache!Putting(k, x)
    BY <1>4 DEF Inv, Shape
  <2>2. x.id \in DOMAIN writes' /\ writes'[x.id] = w
    BY <1>4, <1>6
  <2>3. x.expires_at = ExpiresAt(w.request, w.at) /\ w.request.key = k
    BY <1>4
  <2> QED
    BY <1>3, <2>1, <2>2, <2>3 DEF FromWrite, ExpiresAt, TtlMs
<1>11. \A d \in Client \ {c}, i \in DOMAIN writes : Serves(i, d) => Serves(i, d)'
  BY <1>3, <1>6, <1>9, ServesStays
<1>12. Calling'
  <2> SUFFICES ASSUME NEW d \in Client PROVE InCall(d)'
    BY DEF Calling
  <2>1. CASE d = c
    BY <1>1, <1>3, <1>10, <2>1 DEF Cache!Putting, InCall
  <2>2. CASE d # c
    BY <1>3, <1>6, <1>9, <2>2, InCallStays DEF Inv, Calling
  <2> QED
    BY <2>1, <2>2
<1>13. Answered'
  BY <1>1, <1>3, <1>11 DEF Inv, Answered, Serves
<1>14. KeysShown'
  BY <1>1, <1>3, <1>6, <1>9 DEF Inv, KeysShown, Keyed
<1> QED
  BY <1>7, <1>8, <1>12, <1>13, <1>14 DEF Inv

LEMMA StartReadKeeps ==
    ASSUME Inv, NEW c \in Client, StartRead(c)
    PROVE  Inv'
<1> DEFINE k == request[c].key
<1>1. /\ request[c] \in Request /\ Keyed(request[c]) /\ k \in Key
      /\ ask[c].phase = "idle" /\ reply[c] = Pending /\ reply[c].id = 0
  BY ReachesKeyed DEF StartRead
<1>2. Cache!now_millis \in Nat /\ Cache!now_millis < MaxMillis
  BY NowBounded DEF Inv, Shape
<1>3. /\ ask' = [ask EXCEPT ![c] = Cache!Getting(k, Cache!now_millis)]
      /\ began' = [began EXCEPT ![c] = Cache!now_millis]
      /\ UNCHANGED <<store, wall, config, request, reply, calls, writes>>
  BY DEF StartRead, Cache!CallGet
<1>4. Cache!Getting(k, Cache!now_millis) \in Asks
  BY <1>1, <1>2 DEF Cache!Getting, Asks
<1>5. Shape'
  BY <1>2, <1>3, <1>4 DEF Inv, Shape
<1>6. \A d \in Client \ {c} : ask'[d] = ask[d] /\ began'[d] = began[d]
  BY <1>3 DEF Inv, Shape
<1>7. Stored' /\ KeysShown'
  BY <1>1, <1>3, <1>6, WritesStay DEF Inv, Stored, KeysShown
<1>8. Calling'
  <2> SUFFICES ASSUME NEW d \in Client PROVE InCall(d)'
    BY DEF Calling
  <2>1. CASE d = c
    <3>1. ask'[c] = Cache!Getting(k, Cache!now_millis) /\ began'[c] = Cache!now_millis
      BY <1>3 DEF Inv, Shape
    <3> QED
      BY <1>1, <1>3, <2>1, <3>1 DEF Cache!Getting, InCall
  <2>2. CASE d # c
    BY <1>3, <1>6, <2>2, InCallStays DEF Inv, Calling
  <2> QED
    BY <2>1, <2>2
<1>9. Answered'
  BY <1>1, <1>3, <1>6, ServesStays DEF Inv, Answered, Serves
<1> QED
  BY <1>5, <1>7, <1>8, <1>9 DEF Inv

(* The cache may only forget; every client's call is as it was.            *)
LEMMA ForgetKeeps ==
    ASSUME Inv, UNCHANGED <<ask, frontVars>>, wall' \in WallTime,
           store' \in [Key -> Cache!Value \cup {Nothing}],
           \A k \in Key : store'[k] \in {store[k], Nothing}
    PROVE  Inv'
<1> USE DEF frontVars
<1>1. Shape'
  BY DEF Inv, Shape
<1>2. Stored' /\ KeysShown'
  BY WritesStay DEF Inv, Stored, KeysShown
<1>3. Calling'
  BY InCallStays DEF Inv, Calling
<1>4. Answered'
  BY ServesStays DEF Inv, Answered, Serves
<1> QED
  BY <1>1, <1>2, <1>3, <1>4 DEF Inv

LEMMA Forgotten ==
    ASSUME Inv, NEW k \in Key, Cache!Forget(k)
    PROVE  /\ store' \in [Key -> Cache!Value \cup {Nothing}]
           /\ \A j \in Key : store'[j] \in {store[j], Nothing}
BY DEF Inv, Shape, Cache!Forget, Cache!Set

LEMMA BackgroundKeeps ==
    ASSUME Inv, Background
    PROVE  Inv'
<1>1. CASE Cache!Tick /\ UNCHANGED frontVars
  BY <1>1, ForgetKeeps DEF Cache!Tick, Inv, Shape
<1>2. CASE Cache!Expire /\ UNCHANGED frontVars
  <2>1. PICK k \in Key : Cache!Forget(k)
    BY <1>2 DEF Cache!Expire
  <2>2. UNCHANGED <<wall, ask>> /\ wall \in WallTime
    BY <1>2 DEF Cache!Expire, Inv, Shape
  <2> QED
    BY <1>2, <2>1, <2>2, Forgotten, ForgetKeeps
<1>3. CASE Cache!Evict /\ UNCHANGED frontVars
  <2>1. PICK k \in Key : Cache!Forget(k)
    BY <1>3 DEF Cache!Evict
  <2>2. UNCHANGED <<wall, ask>> /\ wall \in WallTime
    BY <1>3 DEF Cache!Evict, Inv, Shape
  <2> QED
    BY <1>3, <2>1, <2>2, Forgotten, ForgetKeeps
<1> QED
  BY <1>1, <1>2, <1>3 DEF Background

LEMMA DeleteKeeps ==
    ASSUME Inv, NEW c \in Client, Delete(c)
    PROVE  Inv'
<1>1. /\ request[c] \in Request /\ request[c].key \in Key
      /\ ask[c].phase = "idle" /\ reply[c] = Pending
  BY ReachesKeyed DEF Delete
<1>2. /\ reply' = [reply EXCEPT ![c] = Answer("200", 0)]
      /\ UNCHANGED <<wall, ask, config, request, began, calls, writes>>
  BY DEF Delete, Cache!Delete, Reply, cacheVars
<1>3. /\ store' \in [Key -> Cache!Value \cup {Nothing}]
      /\ \A j \in Key : store'[j] \in {store[j], Nothing}
  <2>1. CASE Cache!Forget(request[c].key)
    BY <1>1, <2>1, Forgotten
  <2>2. CASE UNCHANGED cacheVars
    BY <2>2 DEF cacheVars, Inv, Shape
  <2> QED
    BY <2>1, <2>2 DEF Delete
<1>4. Answer("200", 0) \in [code : Code, id : Nat] /\ Answer("200", 0).id = 0
      /\ Answer("200", 0) # Pending
  <2>1. "200" \in Code /\ 0 \in Nat
    BY DEF Code
  <2> QED
    BY <2>1, AnswerType DEF Answer, Pending
<1>5. reply'[c] = Answer("200", 0) /\ \A d \in Client \ {c} : reply'[d] = reply[d]
  BY <1>2 DEF Inv, Shape
<1>6. Shape'
  BY <1>2, <1>3, <1>4 DEF Inv, Shape
<1>7. Stored' /\ KeysShown'
  BY <1>1, <1>2, <1>3, <1>4, <1>5, WritesStay DEF Inv, Stored, KeysShown
<1>8. Calling'
  <2> SUFFICES ASSUME NEW d \in Client PROVE InCall(d)'
    BY DEF Calling
  <2>1. CASE d = c
    BY <1>1, <1>2, <1>4, <1>5, <2>1 DEF InCall
  <2>2. CASE d # c
    BY <1>2, <1>5, <2>2, InCallStays DEF Inv, Calling
  <2> QED
    BY <2>1, <2>2
<1>9. Answered'
  BY <1>2, <1>4, <1>5, ServesStays DEF Inv, Answered, Serves
<1> QED
  BY <1>6, <1>7, <1>8, <1>9 DEF Inv

-----------------------------------------------------------------------------
(* The cache moves the call of c on, to state a.                           *)
LEMMA CallMoves ==
    ASSUME Inv, NEW c \in Client, NEW a \in Asks, ask[c].phase # "idle",
           ask' = [ask EXCEPT ![c] = a], UNCHANGED <<wall, frontVars>>,
           \/ a.phase = "stored" /\ request[c].op = "SET"
           \/ a.phase = "answered" /\ (a.id # 0 => Serves(a.id, c)),
           store' \in [Key -> Cache!Value \cup {Nothing}],
           \A k \in Key : store'[k] # Nothing => FromWrite(store'[k], k)
    PROVE  Inv'
<1> USE DEF frontVars
<1>1. Shape'
  BY DEF Inv, Shape
<1>2. ask'[c] = a /\ \A d \in Client \ {c} : ask'[d] = ask[d]
  BY DEF Inv, Shape
<1>3. Stored'
  BY DEF Stored, FromWrite, ExpiresAt, TtlMs
<1>4. KeysShown'
  BY <1>2, WritesStay DEF Inv, KeysShown
<1>5. Calling'
  <2> SUFFICES ASSUME NEW d \in Client PROVE InCall(d)'
    BY DEF Calling
  <2>1. CASE d = c
    <3>1. reply[c] = Pending /\ request[c] \in Request
      BY DEF Inv, Calling, InCall
    <3>2. a.phase = "answered" /\ a.id # 0 => Serves(a.id, c)'
      BY DEF Serves, DeadAt, Asked
    <3> QED
      BY <1>2, <2>1, <3>1, <3>2 DEF InCall
  <2>2. CASE d # c
    BY <1>2, <2>2, InCallStays DEF Inv, Calling
  <2> QED
    BY <2>1, <2>2
<1>6. Answered'
  BY ServesStays DEF Inv, Answered, Serves
<1> QED
  BY <1>1, <1>3, <1>4, <1>5, <1>6 DEF Inv

LEMMA CacheAnswersKeeps ==
    ASSUME Inv, NEW c \in Client, CacheAnswers(c)
    PROVE  Inv'
<1> DEFINE k == ask[c].key
<1>1. ask[c] \in Asks /\ InCall(c) /\ UNCHANGED frontVars
  BY DEF Inv, Shape, Calling, CacheAnswers
<1>2. /\ store \in [Key -> Cache!Value \cup {Nothing}]
      /\ \A j \in Key : store[j] # Nothing => FromWrite(store[j], j)
  BY DEF Inv, Shape, Stored
<1>3. Cache!Answered(0) \in Asks /\ Cache!Answered(0).phase = "answered"
      /\ Cache!Answered(0).id = 0
  BY DEF Cache!Answered, Asks
<1>4. CASE Cache!Put(c)
  <2>1. ask[c].phase = "put" /\ k \in Key /\ ask[c].value \in Cache!Value
    BY <1>1, <1>4, AskType DEF Cache!Put
  <2>2. Cache!Stored \in Asks /\ Cache!Stored.phase = "stored"
    BY DEF Cache!Stored, Asks
  <2>3. /\ store' = [store EXCEPT ![k] = ask[c].value]
        /\ ask' = [ask EXCEPT ![c] = Cache!Stored] /\ wall' = wall
    BY <1>4 DEF Cache!Put, Cache!Set, Cache!Now
  <2>4. FromWrite(ask[c].value, k) /\ request[c].op = "SET"
    BY <1>1, <2>1 DEF InCall
  <2>5. /\ store' \in [Key -> Cache!Value \cup {Nothing}]
        /\ \A j \in Key : store'[j] # Nothing => FromWrite(store'[j], j)
    BY <1>2, <2>1, <2>3, <2>4
  <2> QED
    BY <1>1, <2>1, <2>2, <2>3, <2>4, <2>5, CallMoves
<1>5. CASE Cache!GetHit(c)
  <2> DEFINE v == store[k]
  <2>1. /\ ask[c].phase = "get" /\ v # Nothing /\ ~Cache!Expired(v, ask[c].since)
        /\ ask' = [ask EXCEPT ![c] = Cache!Answered(v.id)] /\ UNCHANGED <<store, wall>>
    BY <1>5 DEF Cache!GetHit, Cache!Present, Cache!Now
  <2>2. k \in Key /\ v \in Cache!Value /\ FromWrite(v, k)
    BY <1>1, <1>2, <2>1, AskType
  <2>3. ask[c].since = began[c] /\ k = request[c].key
    BY <1>1, <2>1 DEF InCall
  <2>4. /\ v.id \in DOMAIN writes /\ writes[v.id] \in Written
        /\ writes[v.id].at < MaxMillis /\ began[c] \in Nat /\ began[c] < MaxMillis
        /\ config \in Config
    BY <2>2 DEF FromWrite, Inv, Shape
  <2>5. ~DeadAt(writes[v.id], began[c])
    BY <2>1, <2>2, <2>3, <2>4, ExpiryExact DEF FromWrite, Cache!Expired
  <2>6. Serves(v.id, c)
    BY <2>2, <2>3, <2>5 DEF Serves, FromWrite
  <2>7. v.id \in Nat
    BY <2>4 DEF Inv, Shape
  <2>8. Cache!Answered(v.id) \in Asks /\ Cache!Answered(v.id).phase = "answered"
        /\ Cache!Answered(v.id).id = v.id
    BY <2>7 DEF Cache!Answered, Asks
  <2> QED
    BY <1>1, <1>2, <2>1, <2>6, <2>8, CallMoves
<1>6. CASE Cache!GetMiss(c)
  <2>1. ask[c].phase = "get" /\ ask' = [ask EXCEPT ![c] = Cache!Answered(0)]
        /\ UNCHANGED <<store, wall>>
    BY <1>6 DEF Cache!GetMiss, Cache!Now
  <2> QED
    BY <1>1, <1>2, <1>3, <2>1, CallMoves
<1>7. CASE Cache!GetExpired(c)
  <2>1. /\ ask[c].phase = "get" /\ ask' = [ask EXCEPT ![c] = Cache!Answered(0)]
        /\ wall' = wall /\ Cache!Forget(k)
    BY <1>7 DEF Cache!GetExpired, Cache!Now
  <2>2. k \in Key
    BY <1>1, <2>1, AskType
  <2>3. /\ store' \in [Key -> Cache!Value \cup {Nothing}]
        /\ \A j \in Key : store'[j] # Nothing => FromWrite(store'[j], j)
    BY <1>2, <2>1, <2>2, Forgotten
  <2> QED
    BY <1>1, <1>3, <2>1, <2>3, CallMoves
<1> QED
  BY <1>4, <1>5, <1>6, <1>7 DEF CacheAnswers

LEMMA FinishKeeps ==
    ASSUME Inv, NEW c \in Client, Finish(c)
    PROVE  Inv'
<1>1. /\ ask[c] \in Asks /\ InCall(c) /\ ask[c].phase \in {"stored", "answered"}
      /\ reply[c] = Pending /\ request[c] \in Request /\ Keyed(request[c])
  BY DEF Inv, Shape, Calling, InCall, KeysShown, Finish, Cache!Return
<1>2. /\ ask' = [ask EXCEPT ![c] = Cache!Idle]
      /\ UNCHANGED <<store, wall, config, request, began, calls, writes>>
  BY DEF Finish, Cache!Return, Cache!Now
<1>3. PICK code \in Code, id \in Nat :
         /\ reply' = [reply EXCEPT ![c] = Answer(code, id)]
         /\ code # "pending" /\ (id # 0 => Serves(id, c))
  <2>1. {"200", "404"} \subseteq Code /\ 0 \in Nat
    BY DEF Code
  <2>2. CASE request[c].op = "SET" \/ ask[c].id = 0
    BY <2>1, <2>2 DEF Finish, Reply
  <2>3. CASE request[c].op # "SET" /\ ask[c].id # 0
    <3>1. ask[c].phase = "answered" /\ ask[c].id \in Nat /\ Serves(ask[c].id, c)
      BY <1>1, <2>3, AskType DEF InCall
    <3> QED
      BY <2>1, <2>3, <3>1 DEF Finish, Reply
  <2> QED
    BY <2>2, <2>3
<1>4. Answer(code, id) \in [code : Code, id : Nat] /\ Answer(code, id).id = id
      /\ Answer(code, id) # Pending
  BY <1>3, AnswerType DEF Answer, Pending
<1>5. /\ reply'[c] = Answer(code, id) /\ ask'[c] = Cache!Idle
      /\ \A d \in Client \ {c} : reply'[d] = reply[d] /\ ask'[d] = ask[d]
  BY <1>2, <1>3 DEF Inv, Shape
<1>6. Cache!Idle \in Asks /\ Cache!Idle.phase = "idle"
  BY DEF Cache!Idle, Asks
<1>7. Shape'
  BY <1>2, <1>3, <1>4, <1>6 DEF Inv, Shape
<1>8. Stored' /\ KeysShown'
  BY <1>1, <1>2, <1>5, WritesStay DEF Inv, Stored, KeysShown
<1>9. Calling'
  <2> SUFFICES ASSUME NEW d \in Client PROVE InCall(d)'
    BY DEF Calling
  <2>1. CASE d = c
    BY <1>1, <1>2, <1>4, <1>5, <1>6, <2>1 DEF InCall
  <2>2. CASE d # c
    BY <1>2, <1>5, <2>2, InCallStays DEF Inv, Calling
  <2> QED
    BY <2>1, <2>2
<1>10. Answered'
  <2> SUFFICES ASSUME NEW d \in Client, reply'[d].id # 0 PROVE Serves(reply[d].id, d)'
    BY DEF Answered
  <2>1. CASE d = c
    BY <1>2, <1>3, <1>4, <1>5, <2>1 DEF Serves, DeadAt, Asked
  <2>2. CASE d # c
    BY <1>2, <1>5, <2>2 DEF Inv, Answered, Serves, DeadAt, Asked
  <2> QED
    BY <2>1, <2>2
<1> QED
  BY <1>7, <1>8, <1>9, <1>10 DEF Inv

-----------------------------------------------------------------------------
LEMMA InvStep == Inv /\ [Next]_vars => Inv'
<1> SUFFICES ASSUME Inv, [Next]_vars PROVE Inv'
  OBVIOUS
<1>1. CASE UNCHANGED vars
  <2>1. wall \in WallTime /\ store \in [Key -> Cache!Value \cup {Nothing}]
    BY DEF Inv, Shape
  <2> QED
    BY <1>1, <2>1, ForgetKeeps DEF vars, cacheVars
<1>2. CASE Background
  BY <1>2, BackgroundKeeps
<1>3. CASE \E c \in Client : Receive(c) \/ CacheAnswers(c) \/ Finish(c)
  BY <1>3, ReceiveKeeps, CacheAnswersKeeps, FinishKeeps
<1>4. CASE \E c \in Client : StartWrite(c) \/ StartRead(c) \/ Delete(c)
  BY <1>4, StartWriteKeeps, StartReadKeeps, DeleteKeeps
<1>5. CASE \E c \in Client : \/ Probe(c) \/ Unauthorized(c) \/ PayloadTooLarge(c)
                           \/ BadRequest(c) \/ UnknownKeyspace(c)
  <2>1. {"200", "401", "413", "400", "404"} \subseteq Code
    BY DEF Code
  <2>2. PICK c \in Client, code \in Code : Fresh(c) /\ Refuse(c, code)
    BY <1>5, <2>1 DEF Probe, Unauthorized, PayloadTooLarge, BadRequest,
                      UnknownKeyspace, RestPast, Rest
  <2> QED
    BY <2>2, RefuseKeeps
<1> QED
  BY <1>1, <1>2, <1>3, <1>4, <1>5 DEF Next

(* The invariant the theorems below read off: every remembered value, every *)
(* call and every answer is what some write, reached through an admitted   *)
(* request, asked for.                                                     *)
THEOREM InvAlways == Spec => []Inv
BY InvInit, InvStep, PTL DEF Spec

(* Every variable keeps its type, and no expiry passes u64::MAX, for any   *)
(* requests, settings, clock and size of the cache.                        *)
THEOREM TypeCorrect == Spec => []TypeOK
<1>1. Inv => TypeOK
  <2> SUFFICES ASSUME Inv PROVE TypeOK
    OBVIOUS
  <2>1. ASSUME NEW k \in Key, store[k] # Nothing
        PROVE  store[k].expires_at <= MaxMillis
    <3>1. /\ FromWrite(store[k], k) /\ writes \in Seq(Written) /\ config \in Config
      BY <2>1 DEF Inv, Shape, Stored
    <3>2. writes[store[k].id] \in Written
      BY <3>1 DEF FromWrite
    <3> QED
      <4> DEFINE w == writes[store[k].id]
      <4>1. w.request \in Request /\ w.at \in Nat
        BY <3>2 DEF Written
      <4>2. ExpiresAt(w.request, w.at) \in 0..MaxMillis
        BY <3>1, <4>1, ExpiryBounded
      <4>3. store[k].expires_at = ExpiresAt(w.request, w.at)
        BY <3>1 DEF FromWrite
      <4> QED
        BY <4>2, <4>3, ClockAssumption
  <2> QED
    BY <2>1 DEF Inv, Shape, TypeOK, Written
<1> QED
  BY <1>1, InvAlways, PTL

(* At every time the clock may show, a remembered entry is dead exactly if *)
(* its writer's TTL, or else the default, has run out: put_with_ttl's      *)
(* saturating sum and its zero for "never" lose nothing.                   *)
THEOREM DeadlinesAlwaysKept == Spec => []DeadlineKept
<1>1. Inv => DeadlineKept
  <2> SUFFICES ASSUME Inv, NEW k \in Key, store[k] # Nothing,
                      NEW t \in WallTime, t >= 0
               PROVE  Cache!Expired(store[k], t) <=> DeadAt(writes[store[k].id], t)
    BY DEF DeadlineKept
  <2>1. FromWrite(store[k], k) /\ config \in Config /\ writes \in Seq(Written)
    BY DEF Inv, Shape, Stored
  <2>2. writes[store[k].id] \in Written /\ writes[store[k].id].at < MaxMillis
    BY <2>1 DEF Inv, Shape, FromWrite
  <2>3. t \in Nat /\ t < MaxMillis
    BY ClockAssumption
  <2> QED
    BY <2>1, <2>2, <2>3, ExpiryExact DEF FromWrite, Cache!Expired
<1> QED
  BY <1>1, InvAlways, PTL

(* A value is served only for the key it was written under, and only if it *)
(* was alive when its request reached the keyspace.                        *)
THEOREM AlwaysServedAlive == Spec => []ServedAlive
<1>1. Inv => ServedAlive
  BY DEF Inv, Answered, Serves, ServedAlive
<1> QED
  BY <1>1, InvAlways, PTL

(* With a key configured, a REST request without it neither leaves a trace *)
(* in the cache nor learns what is there.                                  *)
THEOREM NothingEverWithoutKey == Spec => []NothingWithoutKey
<1>1. Inv => NothingWithoutKey
  <2> SUFFICES ASSUME Inv, config.auth_on PROVE NothingWithoutKey
    BY DEF NothingWithoutKey
  <2>1. ASSUME NEW k \in Key, store[k] # Nothing
        PROVE  Keyed(writes[store[k].id].request)
    BY <2>1 DEF Inv, Stored, FromWrite, KeysShown
  <2>2. ASSUME NEW c \in Client, reply[c].id # 0
        PROVE  Keyed(request[c])
    BY <2>2 DEF Inv, KeysShown
  <2> QED
    BY <2>1, <2>2 DEF Keyed, NothingWithoutKey
<1> QED
  BY <1>1, InvAlways, PTL
=============================================================================
