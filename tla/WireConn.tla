------------------------------ MODULE WireConn -----------------------------
(***************************************************************************)
(* One connection of the binary wire protocol (falcon-wire/src/conn.rs,    *)
(* codec.rs): bytes arrive in pieces, every complete frame in the read     *)
(* buffer joins a batch of at most MAX_BATCH, the batch is dispatched in   *)
(* order behind the auth gate and the size limits, with the keyspace       *)
(* remembered from one request to the next, and the responses leave in one *)
(* write.                                                                  *)
(*                                                                         *)
(* A frame arrives in two pieces: a header that tells whether it is        *)
(* malformed, and the rest.  The cache here forgets nothing by itself;     *)
(* what it may forget is Shard's subject.                                  *)
(***************************************************************************)
EXTENDS Integers, Sequences

CONSTANTS
    Frame,      \* the requests a peer may send
    Length,     \* BOUND: how many it sends
    MaxBatch,   \* MAX_BATCH
    AuthOn,     \* the values AuthConfig::is_enabled may have
    ApiKey,     \* auth.api_key when it is
    NoKey,      \* the empty string: auth.api_key when it is not
    Keyspace,   \* Node::keyspaces
    Default,    \* DEFAULT_KEYSPACE
    Nothing     \* no keyspace, no value

ASSUME WireAssumption ==
    /\ Length \in Nat /\ MaxBatch \in Nat \ {0} /\ AuthOn \subseteq BOOLEAN
    /\ Default \in Keyspace /\ Nothing \notin Keyspace

VARIABLES
    script,      \* the frames of the peer, in order
    auth_on,     \* auth.is_enabled()
    arrived,     \* pieces read into in_buf so far
    decoded,     \* frames taken out of in_buf so far
    batch,       \* the frames dispatch has still to do, by position
    authed,      \* the connection has presented the key
    cached_ks,   \* cached_ks_bytes and cached_ks
    store,       \* the value in each keyspace, under the one key
    out_buf,     \* responses not yet written
    replies,     \* responses written, in order
    pc,          \* where handle_conn is
    dispatched   \* history: requests dispatched so far

vars == <<script, auth_on, arrived, decoded, batch, authed, cached_ks, store,
          out_buf, replies, pc, dispatched>>

peer == <<script, auth_on>>

KvOps == {"GET", "SET", "DEL"}
NoMemo == [bytes |-> Nothing, ks |-> Nothing, set |-> FALSE]

Init ==
    /\ script \in [1..Length -> Frame]
    /\ auth_on \in AuthOn
    /\ arrived = 0 /\ decoded = 0 /\ dispatched = 0
    /\ batch = <<>>
    /\ authed = ~auth_on
    /\ cached_ks = NoMemo
    /\ store = [k \in Keyspace |-> Nothing]
    /\ out_buf = <<>> /\ replies = <<>>
    /\ pc = "drain"

-----------------------------------------------------------------------------
(* decode_one, over and over.                                              *)

Next1 == decoded + 1

(* The whole frame is in the buffer; its header says it is malformed; or   *)
(* more bytes are needed.                                                  *)
Complete(i)  == i <= Length /\ 2 * i <= arrived /\ script[i].op # "malformed"
Malformed(i) == i <= Length /\ 2 * i - 1 <= arrived /\ script[i].op = "malformed"

(* The definitions named Bad... are the mistakes the runs' properties are  *)
(* tested against; no specification uses them.                             *)
BadRoomInBatch == Len(batch) <= MaxBatch

RoomInBatch == Len(batch) < MaxBatch

Decode ==
    /\ pc = "drain" /\ RoomInBatch /\ Complete(Next1)
    /\ decoded' = Next1
    /\ batch' = Append(batch, Next1)
    /\ UNCHANGED <<peer, arrived, authed, cached_ks, store, out_buf, replies, pc, dispatched>>

(* A malformed frame is answered at once and ends the connection; what the *)
(* batch holds by then is dropped.                                         *)
DecodeFails ==
    /\ pc = "drain" /\ RoomInBatch /\ Malformed(Next1)
    /\ \/ replies' = Append(replies, "BadRequest")
       \/ UNCHANGED replies
    /\ out_buf' = <<>>
    /\ pc' = "refused"
    /\ UNCHANGED <<peer, arrived, decoded, batch, authed, cached_ks, store, dispatched>>

BadNeedsRead == batch = <<>> \/ ~RoomInBatch

NeedsRead == batch = <<>>

Drained ==
    /\ pc = "drain"
    /\ RoomInBatch => ~Complete(Next1) /\ ~Malformed(Next1)
    /\ IF NeedsRead THEN pc' = "read" /\ UNCHANGED <<out_buf, cached_ks>>
       ELSE pc' = "dispatch" /\ out_buf' = <<>> /\ cached_ks' = NoMemo
    /\ UNCHANGED <<peer, arrived, decoded, batch, authed, store, replies, dispatched>>

-----------------------------------------------------------------------------
(* read_buf: some of the bytes that are still to come.                     *)
Read ==
    /\ pc = "read"
    /\ arrived' \in (arrived + 1)..(2 * Length)
    /\ pc' = "drain"
    /\ UNCHANGED <<peer, decoded, batch, authed, cached_ks, store, out_buf, replies, dispatched>>

(* The peer closes, the idle timeout expires, or the read fails.           *)
ReadEnds ==
    /\ pc = "read"
    /\ pc' = "closed"
    /\ UNCHANGED <<peer, arrived, decoded, batch, authed, cached_ks, store,
                   out_buf, replies, dispatched>>

-----------------------------------------------------------------------------
(* Dispatch of one request of the batch.                                   *)

(* The token AUTH is compared with; empty when auth is off.                *)
Token == IF auth_on THEN ApiKey ELSE NoKey

(* SizeLimits::rejects.                                                    *)
rejects(req) == req.big

(* name_str and Node::keyspace: empty names the default; a name that is no *)
(* keyspace, or not UTF-8, leads nowhere.                                  *)
Resolve(bytes) ==
    IF bytes = Nothing THEN Default
    ELSE IF bytes \in Keyspace THEN bytes ELSE Nothing

BadMemo(bytes) ==
    IF cached_ks.set THEN cached_ks
    ELSE [bytes |-> bytes, ks |-> Resolve(bytes), set |-> TRUE]

Memo(bytes) ==
    IF cached_ks.set /\ cached_ks.bytes = bytes THEN cached_ks
    ELSE [bytes |-> bytes, ks |-> Resolve(bytes), set |-> TRUE]

Respond(response) ==
    /\ out_buf' = Append(out_buf, response)
    /\ dispatched' = dispatched + 1
    /\ batch' = Tail(batch)
    /\ UNCHANGED <<peer, arrived, decoded, replies, pc>>

Request(req) == pc = "dispatch" /\ batch # <<>> /\ req = script[Head(batch)]

DoAuth ==
    \E req \in Frame :
       /\ Request(req) /\ req.op = "AUTH"
       /\ authed' = (authed \/ req.value = Token)
       /\ Respond(IF req.value = Token THEN "Ok" ELSE "Unauthorized")
       /\ UNCHANGED <<cached_ks, store>>

BadGate(req) == req.op \in {"GET", "DEL"}

(* Before the key has been presented only AUTH is honoured.                *)
Gate(req) == req.op # "AUTH"

DoUnauthorized ==
    \E req \in Frame :
       /\ Request(req) /\ Gate(req) /\ ~authed
       /\ Respond("Unauthorized")
       /\ UNCHANGED <<authed, cached_ks, store>>

Honoured(req) == Request(req) /\ req.op # "AUTH" /\ (authed \/ ~Gate(req))

(* The fast path: dispatch_kv_on the remembered keyspace.                  *)
DoKv ==
    \E req \in Frame :
       LET memo == Memo(req.keyspace)
       IN  /\ Honoured(req) /\ req.op \in KvOps /\ ~rejects(req)
           /\ cached_ks' = memo
           /\ CASE memo.ks = Nothing ->
                     Respond("UnknownKeyspace") /\ UNCHANGED store
                [] memo.ks # Nothing /\ req.op = "GET" ->
                     /\ Respond(IF store[memo.ks] = Nothing THEN "NotFound"
                                ELSE store[memo.ks])
                     /\ UNCHANGED store
                [] memo.ks # Nothing /\ req.op = "SET" ->
                     Respond("Ok") /\ store' = [store EXCEPT ![memo.ks] = req.value]
                [] memo.ks # Nothing /\ req.op = "DEL" ->
                     Respond("Ok") /\ store' = [store EXCEPT ![memo.ks] = Nothing]
           /\ UNCHANGED authed

(* The rest: dispatch.                                                     *)
DoOther ==
    \E req \in Frame :
       /\ Honoured(req) /\ (req.op \notin KvOps \/ rejects(req))
       /\ Respond(IF req.op = "PING" /\ ~rejects(req) THEN "Pong" ELSE "BadRequest")
       /\ UNCHANGED <<authed, cached_ks, store>>

-----------------------------------------------------------------------------
(* write_all: the whole batch's responses, or an error that ends it.       *)
Write ==
    /\ pc = "dispatch" /\ batch = <<>>
    /\ replies' = replies \o out_buf
    /\ out_buf' = <<>>
    /\ pc' = "drain"
    /\ UNCHANGED <<peer, arrived, decoded, batch, authed, cached_ks, store, dispatched>>

WriteFails ==
    /\ pc = "dispatch" /\ batch = <<>>
    /\ pc' = "broken"
    /\ UNCHANGED <<peer, arrived, decoded, batch, authed, cached_ks, store,
                   out_buf, replies, dispatched>>

-----------------------------------------------------------------------------
Serve ==
    \/ Decode \/ DecodeFails \/ Drained
    \/ DoAuth \/ DoUnauthorized \/ DoKv \/ DoOther \/ Write \/ WriteFails

Next == Serve \/ Read \/ ReadEnds

Spec == Init /\ [][Next]_vars

(* The task runs, and the peer takes its responses; nothing makes the peer *)
(* send.                                                                   *)
FairSpec == Spec /\ WF_vars(Serve)
-----------------------------------------------------------------------------
(* Properties.                                                             *)

TypeOK ==
    /\ script \in [1..Length -> Frame] /\ auth_on \in BOOLEAN
    /\ arrived \in 0..(2 * Length)
    /\ decoded \in 0..Length /\ dispatched \in 0..decoded
    /\ Len(batch) <= MaxBatch
    /\ authed \in BOOLEAN
    /\ cached_ks.ks \in Keyspace \cup {Nothing}
    /\ DOMAIN store = Keyspace
    /\ pc \in {"drain", "read", "dispatch", "closed", "refused", "broken"}

(* What a server that knew no batches, no memory of keyspaces and no       *)
(* connection state would answer: position i of the stream alone decides.  *)
AuthedBefore(i) ==
    auth_on => \E j \in 1..(i - 1) : script[j].op = "AUTH" /\ script[j].value = ApiKey

Effective(i) == AuthedBefore(i) /\ script[i].op \in KvOps /\ ~script[i].big

Writes(i, ks) ==
    Effective(i) /\ script[i].op \in {"SET", "DEL"} /\ Resolve(script[i].keyspace) = ks

Gated(req) == req.op \notin {"AUTH", "malformed"}

ValueAfter(n, ks) ==
    LET writers == {i \in 1..n : Writes(i, ks)}
        last == CHOOSE i \in writers : \A j \in writers : j <= i
    IN  IF writers = {} \/ script[last].op = "DEL" THEN Nothing ELSE script[last].value

(* With auth off AUTH is to be a no-op that is always OK, as               *)
(* protocol.rs:24-25 has it.                                               *)
Answer(i) ==
    LET req == script[i]
        ks == Resolve(req.keyspace)
    IN  CASE req.op = "malformed" -> "BadRequest"
          [] req.op = "AUTH" ->
               IF auth_on /\ req.value # ApiKey THEN "Unauthorized" ELSE "Ok"
          [] Gated(req) /\ ~AuthedBefore(i) -> "Unauthorized"
          [] Gated(req) /\ AuthedBefore(i) /\ req.big -> "BadRequest"
          [] Effective(i) /\ ks = Nothing -> "UnknownKeyspace"
          [] Effective(i) /\ ks # Nothing /\ req.op = "GET" ->
               IF ValueAfter(i - 1, ks) = Nothing THEN "NotFound" ELSE ValueAfter(i - 1, ks)
          [] Effective(i) /\ ks # Nothing /\ req.op # "GET" -> "Ok"
          [] OTHER -> IF req.op = "PING" THEN "Pong" ELSE "BadRequest"

(* The code departs from that answer in one place: it refuses a token when *)
(* auth is off (conn.rs:174).                                              *)
RefusedWithAuthOff(i) ==
    ~auth_on /\ script[i].op = "AUTH" /\ script[i].value # NoKey

Answered(i, response) ==
    \/ response = Answer(i)
    \/ RefusedWithAuthOff(i) /\ response = "Unauthorized"

(* Decoded, and thrown away with the batch that a malformed frame ended.   *)
Dropped(i) == pc = "refused" /\ i \in (dispatched + 1)..decoded

(* Every request dispatched has its response, at its own position in the   *)
(* stream, and it is the one a server that served requests one by one      *)
(* would give.  The one more there may be is the BadRequest that ends a    *)
(* refused connection.  It stands at the malformed frame's own position,   *)
(* unless requests were dropped with the batch: then it stands where the   *)
(* first of them would have been answered, and how many they are depends   *)
(* on how the stream was cut.  Nothing follows it                          *)
(* (conn.rs:44-49, 125-136, 160-209; protocol.rs:13-15).                   *)
AnswersInOrder ==
    LET answers == replies \o out_buf
        last == Len(answers)
    IN  /\ last = dispatched \/ (pc = "refused" /\ last = dispatched + 1)
        /\ \A i \in 1..last :
              \/ Answered(i, answers[i])
              \/ Dropped(i) /\ i = last /\ answers[i] = "BadRequest"

(* The cache holds what the requests dispatched so far wrote, and no       *)
(* request that came before the key or broke a limit has left a trace      *)
(* (conn.rs:96-100, 170-206).                                              *)
StoreFollowsRequests ==
    \A ks \in Keyspace : store[ks] = ValueAfter(dispatched, ks)

(* A connection that ends because nothing more comes has answered every    *)
(* complete request it had read, those beyond one batch included; a        *)
(* malformed frame costs less than one batch of the requests before it     *)
(* (conn.rs:118-158).                                                      *)
NothingLeftUnanswered ==
    /\ pc = "closed" =>
          /\ ~Complete(Next1)
          /\ Len(replies) = decoded /\ dispatched = decoded
    /\ pc = "refused" => decoded - dispatched < MaxBatch

(* A request that has been read is answered or the connection ends,        *)
(* without the peer sending another byte (conn.rs:44-49, 118-138).         *)
ReadIsAnswered ==
    \A i \in 1..Length :
       Complete(i) ~> Len(replies) >= i \/ pc \in {"closed", "refused", "broken"}
=============================================================================
