--------------------------- MODULE WireConnProofs ---------------------------
(***************************************************************************)
(* What holds of every connection, whatever the peer sends, however it is  *)
(* cut into reads, and whatever the batch size and the keyspaces are.      *)
(***************************************************************************)
EXTENDS WireConn, SequenceTheorems, TLAPS

ValueSent == {req.value : req \in Frame} \cup {Nothing}

Response == ValueSent \cup
    {"Ok", "Unauthorized", "UnknownKeyspace", "NotFound", "Pong", "BadRequest"}

-----------------------------------------------------------------------------
(* What the reference answers depend on, one request further on.           *)

LEMMA AuthedNext ==
    ASSUME NEW n \in Nat
    PROVE  AuthedBefore(n + 2) <=>
             AuthedBefore(n + 1) \/ (script[n + 1].op = "AUTH" /\ script[n + 1].value = ApiKey)
<1>1. \A j \in 1..((n + 2) - 1) : j \in 1..((n + 1) - 1) \/ j = n + 1
  OBVIOUS
<1>2. /\ \A j \in 1..((n + 1) - 1) : j \in 1..((n + 2) - 1)
      /\ n + 1 \in 1..((n + 2) - 1)
  OBVIOUS
<1> QED
  BY <1>1, <1>2 DEF AuthedBefore

LEMMA LastIsUnique ==
    ASSUME NEW S \in SUBSET Int, NEW n \in S, \A j \in S : j <= n
    PROVE  (CHOOSE i \in S : \A j \in S : j <= i) = n
<1>1. \A i \in S : (\A j \in S : j <= i) => i = n
  OBVIOUS
<1> QED
  BY <1>1

(* What the last of the writers w left, of those among the first n.        *)
ValueFrom(w) ==
    LET last == CHOOSE i \in w : \A j \in w : j <= i
    IN  IF w = {} \/ script[last].op = "DEL" THEN Nothing ELSE script[last].value

Writers(n, ks) == {i \in 1..n : Writes(i, ks)}

LEMMA ValueIs ==
    ASSUME NEW n, NEW ks
    PROVE  /\ ValueAfter(n, ks) = ValueFrom(Writers(n, ks))
           /\ ValueAfter(n, ks)' = ValueFrom(Writers(n, ks))'
BY DEF ValueAfter, ValueFrom, Writers

LEMMA ValueFromLast ==
    ASSUME NEW w \in SUBSET Int, NEW n \in w, \A j \in w : j <= n
    PROVE  ValueFrom(w) = IF script[n].op = "DEL" THEN Nothing ELSE script[n].value
<1> DEFINE last == CHOOSE i \in w : \A j \in w : j <= i
<1>1. last = n
  BY LastIsUnique
<1>2. ValueFrom(w) = IF w = {} \/ script[last].op = "DEL" THEN Nothing ELSE script[last].value
  BY DEF ValueFrom
<1> HIDE DEF last
<1> QED
  BY <1>1, <1>2

LEMMA ValueNext ==
    ASSUME NEW n \in Nat, NEW ks
    PROVE  ValueAfter(n + 1, ks) =
             IF Writes(n + 1, ks)
             THEN IF script[n + 1].op = "DEL" THEN Nothing ELSE script[n + 1].value
             ELSE ValueAfter(n, ks)
<1>1. CASE Writes(n + 1, ks)
  <2>1. /\ Writers(n + 1, ks) \in SUBSET Int /\ n + 1 \in Writers(n + 1, ks)
        /\ \A j \in Writers(n + 1, ks) : j <= n + 1
    BY <1>1 DEF Writers
  <2> QED
    BY <1>1, <2>1, ValueIs, ValueFromLast
<1>2. CASE ~Writes(n + 1, ks)
  <2>1. Writers(n + 1, ks) = Writers(n, ks)
    BY <1>2 DEF Writers
  <2> QED
    BY <1>2, <2>1, ValueIs
<1> QED
  BY <1>1, <1>2

LEMMA ValueAtFirst ==
    ASSUME NEW ks
    PROVE  ValueAfter(0, ks) = Nothing
<1>1. {i \in 1..0 : Writes(i, ks)} = {}
  OBVIOUS
<1> QED
  BY <1>1 DEF ValueAfter

-----------------------------------------------------------------------------
(* The inductive invariant.                                                *)

Types ==
    /\ script \in [1..Length -> Frame] /\ auth_on \in BOOLEAN
    /\ arrived \in 0..(2 * Length)
    /\ decoded \in 0..Length /\ dispatched \in 0..decoded
    /\ 2 * decoded <= arrived
    /\ batch \in Seq(Nat)
    /\ authed \in BOOLEAN
    /\ cached_ks.ks \in Keyspace \cup {Nothing}
    /\ store \in [Keyspace -> ValueSent]
    /\ out_buf \in Seq(Response) /\ replies \in Seq(Response)
    /\ pc \in {"drain", "read", "dispatch", "closed", "refused", "broken"}

(* The batch is the frames taken out and not dispatched, in order, and no  *)
(* malformed frame was ever taken out.                                     *)
BatchInv ==
    /\ Len(batch) <= MaxBatch
    /\ Len(batch) = decoded - dispatched
    /\ \A i \in 1..Len(batch) : batch[i] = dispatched + i
    /\ \A i \in 1..decoded : script[i].op # "malformed"

(* A refused connection wrote at most one response more, the BadRequest of *)
(* the frame that is next in its buffer.                                   *)
Refused ==
    /\ Len(replies) \in {dispatched, dispatched + 1}
    /\ Len(replies) = dispatched + 1 => replies[dispatched + 1] = "BadRequest"
    /\ decoded + 1 <= Length /\ script[decoded + 1].op = "malformed"

(* The responses on their way and written are those of the requests        *)
(* dispatched, but for what ends a refused connection.                     *)
RepliesInv ==
    /\ pc # "refused" => Len(replies) + Len(out_buf) = dispatched
    /\ pc = "refused" => Refused
    /\ pc \notin {"dispatch", "broken"} => out_buf = <<>>
    /\ \A i \in 1..dispatched :
          /\ i <= Len(replies) => Answered(i, replies[i])
          /\ i > Len(replies) => Answered(i, out_buf[i - Len(replies)])

(* What dispatch carries from one request to the next says what the stream *)
(* so far says.                                                            *)
MemoryInv ==
    /\ authed <=> AuthedBefore(dispatched + 1)
    /\ cached_ks.set => cached_ks.ks = Resolve(cached_ks.bytes)
    /\ StoreFollowsRequests

(* A connection reads, or finds the peer gone, only with nothing to do.    *)
EndInv ==
    /\ pc \in {"read", "closed"} => batch = <<>> /\ ~Complete(Next1)
    /\ pc = "refused" => decoded - dispatched < MaxBatch

WireInv == Types /\ BatchInv /\ RepliesInv /\ MemoryInv /\ EndInv

LEMMA PeerStays ==
    ASSUME peer' = peer
    PROVE  /\ script' = script /\ auth_on' = auth_on
           /\ \A n : AuthedBefore(n)' = AuthedBefore(n)
           /\ \A n, ks : Writes(n, ks)' = Writes(n, ks)
           /\ \A n, ks : ValueAfter(n, ks)' = ValueAfter(n, ks)
           /\ \A n : Answer(n)' = Answer(n)
           /\ \A n : RefusedWithAuthOff(n)' = RefusedWithAuthOff(n)
<1>1. script' = script /\ auth_on' = auth_on
  BY DEF peer
<1>2. \A n : AuthedBefore(n)' = AuthedBefore(n)
  BY <1>1 DEF AuthedBefore
<1>3. \A n : Effective(n)' = Effective(n)
  BY <1>1, <1>2 DEF Effective
<1>4. \A n, ks : Writes(n, ks)' = Writes(n, ks)
  BY <1>1, <1>3 DEF Writes, Resolve
<1>5. \A n, ks : ValueAfter(n, ks)' = ValueAfter(n, ks)
  <2> SUFFICES ASSUME NEW n, NEW ks PROVE ValueAfter(n, ks)' = ValueAfter(n, ks)
    OBVIOUS
  <2>1. Writers(n, ks)' = Writers(n, ks)
    BY <1>4 DEF Writers
  <2>2. PICK w : w = Writers(n, ks)
    OBVIOUS
  <2>3. ValueFrom(Writers(n, ks))' = ValueFrom(w)'
    BY <2>1, <2>2 DEF ValueFrom
  <2>4. ValueFrom(w)' = ValueFrom(w)
    BY <1>1 DEF ValueFrom
  <2> QED
    BY <2>2, <2>3, <2>4, ValueIs
<1>6. \A n : Answer(n)' = Answer(n)
  BY <1>1, <1>2, <1>3, <1>5 DEF Answer, Gated, Resolve
<1>7. \A n : RefusedWithAuthOff(n)' = RefusedWithAuthOff(n)
  BY <1>1 DEF RefusedWithAuthOff
<1> QED
  BY <1>1, <1>2, <1>4, <1>5, <1>6, <1>7

LEMMA WireInit == Init => WireInv
<1> SUFFICES ASSUME Init PROVE WireInv
  OBVIOUS
<1>1. Types
  BY WireAssumption, EmptySeq DEF Init, Types, NoMemo, ValueSent
<1>2. BatchInv
  BY WireAssumption, EmptySeq DEF Init, BatchInv
<1>3. RepliesInv
  BY EmptySeq DEF Init, RepliesInv
<1>4. MemoryInv
  <2>1. authed <=> AuthedBefore(dispatched + 1)
    <3>1. ~(\E j \in 1..((0 + 1) - 1) : script[j].op = "AUTH" /\ script[j].value = ApiKey)
      OBVIOUS
    <3>2. auth_on \in BOOLEAN /\ authed = ~auth_on /\ dispatched = 0
      BY WireAssumption DEF Init
    <3> QED
      BY <3>1, <3>2 DEF AuthedBefore
  <2> QED
    BY <2>1, ValueAtFirst DEF Init, MemoryInv, NoMemo, StoreFollowsRequests
<1>5. EndInv
  BY DEF Init, EndInv
<1> QED
  BY <1>1, <1>2, <1>3, <1>4, <1>5 DEF WireInv

(* Steps that dispatch nothing leave what dispatch remembers alone.        *)
LEMMA MemoryStays ==
    ASSUME MemoryInv, peer' = peer, dispatched' = dispatched, authed' = authed,
           store' = store, cached_ks' \in {cached_ks, NoMemo}
    PROVE  MemoryInv'
<1>1. authed' <=> AuthedBefore(dispatched + 1)'
  BY PeerStays DEF MemoryInv, AuthedBefore
<1>2. StoreFollowsRequests'
  <2>1. \A ks \in Keyspace : store'[ks] = ValueAfter(dispatched, ks)
    BY DEF MemoryInv, StoreFollowsRequests
  <2> QED
    BY <2>1, PeerStays DEF StoreFollowsRequests
<1>3. (cached_ks.set => cached_ks.ks = Resolve(cached_ks.bytes))'
  BY DEF MemoryInv, NoMemo, Resolve
<1> QED
  BY <1>1, <1>2, <1>3, PeerStays DEF MemoryInv

LEMMA RepliesStay ==
    ASSUME RepliesInv, peer' = peer, dispatched' = dispatched,
           replies' = replies, out_buf' = out_buf, (pc' = "refused") = (pc = "refused"),
           pc = "refused" => decoded' = decoded,
           pc' \notin {"dispatch", "broken"} => out_buf = <<>>
    PROVE  RepliesInv'
BY PeerStays DEF RepliesInv, Refused, Answered

-----------------------------------------------------------------------------
(* Step by step.                                                           *)

LEMMA WireDecode ==
    ASSUME WireInv, Decode
    PROVE  WireInv'
<1>1. /\ Types /\ BatchInv /\ RepliesInv /\ MemoryInv
      /\ decoded \in Nat /\ dispatched \in Nat /\ arrived \in Nat
  BY WireAssumption DEF WireInv, Types
<1>2. /\ pc = "drain" /\ pc' = "drain" /\ decoded' = decoded + 1
      /\ decoded + 1 <= Length /\ 2 * (decoded + 1) <= arrived
      /\ script' = script /\ script[decoded + 1].op # "malformed"
      /\ batch' = Append(batch, decoded + 1) /\ Len(batch) < MaxBatch
      /\ peer' = peer /\ dispatched' = dispatched
  BY DEF Decode, RoomInBatch, Complete, Next1, peer
<1>3. /\ batch' \in Seq(Nat) /\ Len(batch') = Len(batch) + 1
      /\ \A i \in 1..Len(batch) : batch'[i] = batch[i]
      /\ batch'[Len(batch) + 1] = decoded + 1
  BY <1>1, <1>2, AppendProperties DEF Types
<1>4. Len(batch) \in Nat
  BY <1>1, LenProperties DEF Types
<1>5. Types'
  BY <1>1, <1>2, <1>3, WireAssumption DEF Types, Decode, peer
<1>6. BatchInv'
  <2>1. \A i \in 1..decoded' : script'[i].op # "malformed"
    <3>1. \A i \in 1..decoded' : i \in 1..decoded \/ i = decoded + 1
      BY <1>1, <1>2
    <3> QED
      BY <1>1, <1>2, <3>1 DEF BatchInv
  <2>2. Len(batch') <= MaxBatch /\ Len(batch') = decoded' - dispatched'
    <3>1. Len(batch) = decoded - dispatched
      BY <1>1 DEF BatchInv
    <3> QED
      BY <1>1, <1>2, <1>3, <1>4, <3>1, WireAssumption
  <2>3. ASSUME NEW i \in 1..Len(batch') PROVE batch'[i] = dispatched' + i
    <3>1. CASE i \in 1..Len(batch)
      <4>1. batch[i] = dispatched + i
        BY <1>1, <3>1 DEF BatchInv
      <4> QED
        BY <1>2, <1>3, <3>1, <4>1
    <3>2. CASE i = Len(batch) + 1
      <4>1. Len(batch) = decoded - dispatched
        BY <1>1 DEF BatchInv
      <4> QED
        BY <1>1, <1>2, <1>3, <3>2, <4>1
    <3> QED
      BY <1>3, <1>4, <3>1, <3>2
  <2> QED
    BY <2>1, <2>2, <2>3 DEF BatchInv
<1>7. RepliesInv' /\ MemoryInv'
  BY <1>1, <1>2, RepliesStay, MemoryStays DEF Decode, RepliesInv
<1>8. EndInv'
  BY <1>2 DEF EndInv
<1> QED
  BY <1>5, <1>6, <1>7, <1>8 DEF WireInv

LEMMA WireDecodeFails ==
    ASSUME WireInv, DecodeFails
    PROVE  WireInv'
<1>1. /\ Types /\ BatchInv /\ RepliesInv /\ MemoryInv
      /\ decoded \in Nat /\ dispatched \in Nat
  BY WireAssumption DEF WireInv, Types
<1>2. /\ pc = "drain" /\ pc' = "refused" /\ out_buf = <<>> /\ out_buf' = <<>>
      /\ peer' = peer /\ dispatched' = dispatched /\ decoded' = decoded
      /\ batch' = batch /\ Len(batch) < MaxBatch /\ script' = script
      /\ decoded + 1 <= Length /\ script[decoded + 1].op = "malformed"
  BY <1>1 DEF DecodeFails, RoomInBatch, RepliesInv, Malformed, Next1, peer
<1>3. Len(replies) \in Nat /\ Len(out_buf) = 0 /\ Len(replies) = dispatched
  BY <1>1, <1>2, LenProperties, EmptySeq DEF Types, RepliesInv
<1>4. /\ replies' \in Seq(Response) /\ Len(replies') \in {dispatched, dispatched + 1}
      /\ Len(replies') = dispatched + 1 => replies'[dispatched + 1] = "BadRequest"
      /\ \A i \in 1..dispatched : replies'[i] = replies[i]
  <2>1. CASE replies' = replies
    BY <1>1, <1>3, <2>1 DEF Types
  <2>2. CASE replies' = Append(replies, "BadRequest")
    BY <1>1, <1>3, <2>2, AppendProperties DEF Types, Response
  <2> QED
    BY <2>1, <2>2 DEF DecodeFails
<1>5. Types'
  BY <1>1, <1>2, <1>4, EmptySeq DEF Types, DecodeFails, peer
<1>6. BatchInv'
  BY <1>1, <1>2 DEF BatchInv, peer
<1>7. RepliesInv'
  <2>1. Len(replies') \in Nat
    BY <1>4, LenProperties
  <2>2. \A i \in 1..dispatched : Answered(i, replies'[i]) /\ i <= Len(replies')
    <3> SUFFICES ASSUME NEW i \in 1..dispatched
                 PROVE  Answered(i, replies'[i]) /\ i <= Len(replies')
      OBVIOUS
    <3>1. Answered(i, replies[i]) /\ i <= Len(replies')
      BY <1>1, <1>3, <1>4, <2>1 DEF RepliesInv
    <3>2. replies'[i] = replies[i]
      BY <1>4
    <3> QED
      BY <3>1, <3>2
  <2>3. Refused'
    BY <1>2, <1>4 DEF Refused
  <2> QED
    BY <1>1, <1>2, <1>4, <2>1, <2>2, <2>3, PeerStays DEF RepliesInv, Answered
<1>8. MemoryInv'
  BY <1>1, <1>2, MemoryStays DEF DecodeFails
<1>9. EndInv'
  BY <1>1, <1>2 DEF EndInv, BatchInv
<1> QED
  BY <1>5, <1>6, <1>7, <1>8, <1>9 DEF WireInv

LEMMA WireDrained ==
    ASSUME WireInv, Drained
    PROVE  WireInv'
<1>1. Types /\ BatchInv /\ RepliesInv /\ MemoryInv
  BY DEF WireInv
<1>2. /\ pc = "drain" /\ pc' \in {"read", "dispatch"} /\ out_buf = <<>> /\ out_buf' = <<>>
      /\ peer' = peer /\ dispatched' = dispatched /\ decoded' = decoded
      /\ batch' = batch /\ arrived' = arrived /\ replies' = replies
      /\ cached_ks' \in {cached_ks, NoMemo}
      /\ pc' = "read" => batch = <<>>
      /\ RoomInBatch => ~Complete(Next1)
  BY <1>1 DEF Drained, NeedsRead, RepliesInv
<1>3. Types'
  BY <1>1, <1>2 DEF Types, Drained, peer, NoMemo
<1>4. BatchInv'
  BY <1>1, <1>2 DEF BatchInv, peer
<1>5. RepliesInv' /\ MemoryInv'
  BY <1>1, <1>2, RepliesStay, MemoryStays DEF Drained
<1>6. EndInv'
  <2>1. batch = <<>> => RoomInBatch
    BY EmptySeq, WireAssumption DEF RoomInBatch
  <2>2. Complete(Next1)' = Complete(Next1)
    BY <1>2 DEF Complete, Next1, peer
  <2> QED
    BY <1>2, <2>1, <2>2 DEF EndInv
<1> QED
  BY <1>3, <1>4, <1>5, <1>6 DEF WireInv

LEMMA WireRead ==
    ASSUME WireInv, Read \/ ReadEnds
    PROVE  WireInv'
<1>1. /\ Types /\ BatchInv /\ RepliesInv /\ MemoryInv /\ EndInv
      /\ decoded \in Nat /\ arrived \in Nat
  BY WireAssumption DEF WireInv, Types
<1>2. /\ pc = "read" /\ pc' \in {"drain", "closed"} /\ out_buf = <<>> /\ out_buf' = <<>>
      /\ peer' = peer /\ dispatched' = dispatched /\ decoded' = decoded
      /\ batch' = batch /\ replies' = replies
      /\ pc' = "closed" => arrived' = arrived
      /\ arrived' \in 0..(2 * Length) /\ arrived <= arrived'
  BY <1>1, WireAssumption DEF Read, ReadEnds, RepliesInv, Types
<1>3. Types'
  BY <1>1, <1>2, WireAssumption DEF Types, Read, ReadEnds, peer
<1>4. BatchInv'
  BY <1>1, <1>2 DEF BatchInv, peer
<1>5. RepliesInv' /\ MemoryInv'
  BY <1>1, <1>2, RepliesStay, MemoryStays DEF Read, ReadEnds
<1>6. EndInv'
  BY <1>1, <1>2 DEF EndInv, Complete, Next1, peer
<1> QED
  BY <1>3, <1>4, <1>5, <1>6 DEF WireInv

LEMMA WireWrite ==
    ASSUME WireInv, Write
    PROVE  WireInv'
<1>1. Types /\ BatchInv /\ RepliesInv /\ MemoryInv /\ dispatched \in Nat
  BY WireAssumption DEF WireInv, Types
<1>2. /\ pc = "dispatch" /\ pc' = "drain" /\ out_buf' = <<>>
      /\ replies' = replies \o out_buf
      /\ peer' = peer /\ dispatched' = dispatched /\ decoded' = decoded /\ batch' = batch
  BY DEF Write
<1>3. /\ Len(replies) \in Nat /\ Len(out_buf) \in Nat
      /\ Len(replies) + Len(out_buf) = dispatched
  BY <1>1, <1>2, LenProperties DEF Types, RepliesInv
<1>4. /\ replies' \in Seq(Response) /\ Len(replies') = dispatched
      /\ \A i \in 1..dispatched :
            replies'[i] = IF i <= Len(replies) THEN replies[i] ELSE out_buf[i - Len(replies)]
  BY <1>1, <1>2, <1>3, ConcatProperties DEF Types
<1>5. Types'
  BY <1>1, <1>2, <1>4, EmptySeq DEF Types, Write, peer
<1>6. BatchInv'
  BY <1>1, <1>2 DEF BatchInv, peer
<1>7. RepliesInv'
  <2>1. ASSUME NEW i \in 1..dispatched PROVE Answered(i, replies'[i])
    <3>1. CASE i <= Len(replies)
      <4>1. Answered(i, replies[i]) /\ replies'[i] = replies[i]
        BY <1>1, <1>4, <3>1 DEF RepliesInv
      <4> QED
        BY <4>1
    <3>2. CASE i > Len(replies)
      <4>1. /\ Answered(i, out_buf[i - Len(replies)])
            /\ replies'[i] = out_buf[i - Len(replies)]
        BY <1>1, <1>3, <1>4, <3>2 DEF RepliesInv
      <4> QED
        BY <4>1
    <3> QED
      BY <1>3, <3>1, <3>2
  <2>2. Len(out_buf') = 0
    BY <1>2, EmptySeq
  <2> QED
    BY <1>1, <1>2, <1>4, <2>1, <2>2, PeerStays DEF RepliesInv, Answered
<1>8. MemoryInv'
  BY <1>1, <1>2, MemoryStays DEF Write
<1>9. EndInv'
  BY <1>2 DEF EndInv
<1> QED
  BY <1>5, <1>6, <1>7, <1>8, <1>9 DEF WireInv

LEMMA WireWriteFails ==
    ASSUME WireInv, WriteFails
    PROVE  WireInv'
<1>1. Types /\ BatchInv /\ RepliesInv /\ MemoryInv
  BY DEF WireInv
<1>2. Types'
  BY <1>1 DEF Types, WriteFails, peer
<1>3. BatchInv' /\ EndInv'
  BY <1>1 DEF BatchInv, EndInv, WriteFails, peer
<1>4. RepliesInv' /\ MemoryInv'
  BY <1>1, RepliesStay, MemoryStays DEF WriteFails
<1> QED
  BY <1>2, <1>3, <1>4 DEF WireInv

(* What every request finds: it is the next of the stream.                 *)
LEMMA NextRequest ==
    ASSUME WireInv, NEW req \in Frame, Request(req)
    PROVE  /\ dispatched \in Nat /\ dispatched + 1 <= decoded /\ decoded <= Length
           /\ req = script[dispatched + 1] /\ req.op # "malformed"
           /\ pc = "dispatch" /\ batch # <<>>
           /\ authed <=> AuthedBefore(dispatched + 1)
<1>1. Types /\ BatchInv /\ MemoryInv
  BY DEF WireInv
<1>2. pc = "dispatch" /\ batch # <<>> /\ req = script[Head(batch)]
  BY DEF Request
<1>3. Len(batch) \in Nat \ {0} /\ Head(batch) = batch[1]
  BY <1>1, <1>2, EmptySeq DEF Types
<1>4. Head(batch) = dispatched + 1
  BY <1>1, <1>3 DEF BatchInv
<1> QED
  BY <1>1, <1>2, <1>3, <1>4, WireAssumption DEF Types, BatchInv, MemoryInv

(* Giving the next request its answer.                                     *)
LEMMA WireRespond ==
    ASSUME WireInv, pc = "dispatch", batch # <<>>, NEW r \in Response, Respond(r),
           Answered(dispatched + 1, r),
           authed' \in BOOLEAN, store' \in [Keyspace -> ValueSent],
           cached_ks'.ks \in Keyspace \cup {Nothing}
    PROVE  Types' /\ BatchInv' /\ RepliesInv' /\ EndInv'
<1>1. /\ Types /\ BatchInv /\ RepliesInv /\ MemoryInv /\ EndInv
      /\ dispatched \in Nat /\ decoded \in Nat /\ Len(batch) \in Nat \ {0}
  BY WireAssumption, EmptySeq DEF WireInv, Types
<1>2. /\ pc' = pc /\ out_buf' = Append(out_buf, r) /\ dispatched' = dispatched + 1
      /\ batch' = Tail(batch) /\ peer' = peer /\ decoded' = decoded
      /\ arrived' = arrived /\ replies' = replies
  BY DEF Respond
<1>3. /\ batch' \in Seq(Nat) /\ Len(batch') = Len(batch) - 1
      /\ \A i \in 1..Len(batch') : batch'[i] = batch[i + 1]
  BY <1>1, <1>2, HeadTailProperties DEF Types
<1>4. /\ out_buf' \in Seq(Response) /\ Len(out_buf') = Len(out_buf) + 1
      /\ \A i \in 1..Len(out_buf) : out_buf'[i] = out_buf[i]
      /\ out_buf'[Len(out_buf) + 1] = r
  BY <1>1, <1>2, AppendProperties DEF Types
<1>5. /\ Len(replies) \in Nat /\ Len(out_buf) \in Nat
      /\ Len(replies) + Len(out_buf) = dispatched
  BY <1>1, LenProperties DEF Types, RepliesInv
<1>6. Types'
  BY <1>1, <1>2, <1>3, <1>4 DEF Types, BatchInv, peer
<1>7. BatchInv'
  <2>1. \A i \in 1..Len(batch') : batch'[i] = dispatched + (i + 1)
    BY <1>1, <1>3 DEF BatchInv
  <2>2. \A i \in 1..Len(batch') : batch'[i] = dispatched' + i
    BY <1>1, <1>2, <1>3, <2>1
  <2> QED
    BY <1>1, <1>2, <1>3, <2>2, WireAssumption DEF BatchInv, peer
<1>8. RepliesInv'
  <2>1. \A i \in 1..dispatched' :
           /\ i <= Len(replies) => Answered(i, replies[i])
           /\ i > Len(replies) => Answered(i, out_buf'[i - Len(replies)])
    <3> SUFFICES ASSUME NEW i \in 1..(dispatched + 1)
                 PROVE  /\ i <= Len(replies) => Answered(i, replies[i])
                        /\ i > Len(replies) => Answered(i, out_buf'[i - Len(replies)])
      BY <1>2
    <3>1. CASE i \in 1..dispatched
      <4>1. /\ i <= Len(replies) => Answered(i, replies[i])
            /\ i > Len(replies) => Answered(i, out_buf[i - Len(replies)])
        BY <1>1, <3>1 DEF RepliesInv
      <4>2. i > Len(replies) => i - Len(replies) \in 1..Len(out_buf)
        BY <1>1, <1>5, <3>1
      <4> QED
        BY <1>4, <4>1, <4>2
    <3>2. CASE i = dispatched + 1
      BY <1>1, <1>4, <1>5, <3>2
    <3> QED
      BY <1>1, <3>1, <3>2
  <2> QED
    BY <1>1, <1>2, <1>4, <1>5, <2>1, PeerStays DEF RepliesInv, Answered
<1>9. EndInv'
  BY <1>2 DEF EndInv
<1> QED
  BY <1>6, <1>7, <1>8, <1>9

(* Dispatch remembers what the stream says, one request further on.        *)
LEMMA MemoryMoves ==
    ASSUME WireInv, peer' = peer, dispatched' = dispatched + 1,
           authed' <=> AuthedBefore(dispatched + 2),
           cached_ks'.set => cached_ks'.ks = Resolve(cached_ks'.bytes),
           \A ks \in Keyspace : store'[ks] = ValueAfter(dispatched + 1, ks)
    PROVE  MemoryInv'
<1>1. dispatched \in Nat
  BY WireAssumption DEF WireInv, Types
<1>2. (authed <=> AuthedBefore(dispatched + 1))'
  <2>1. PICK n : n = dispatched + 2
    OBVIOUS
  <2>2. AuthedBefore(dispatched + 1)' <=> AuthedBefore(n)'
    BY <1>1, <2>1 DEF AuthedBefore
  <2> QED
    BY <2>1, <2>2, PeerStays
<1>3. StoreFollowsRequests'
  BY PeerStays DEF StoreFollowsRequests
<1>4. (cached_ks.set => cached_ks.ks = Resolve(cached_ks.bytes))'
  BY DEF Resolve
<1> QED
  BY <1>2, <1>3, <1>4 DEF MemoryInv

(* A request that writes nothing leaves every value as it was.             *)
LEMMA StoreUnwritten ==
    ASSUME WireInv, \A ks \in Keyspace : ~Writes(dispatched + 1, ks)
    PROVE  \A ks \in Keyspace : store[ks] = ValueAfter(dispatched + 1, ks)
<1>1. dispatched \in Nat /\ StoreFollowsRequests
  BY WireAssumption DEF WireInv, Types, MemoryInv
<1> QED
  BY <1>1, ValueNext DEF StoreFollowsRequests

LEMMA WireAuth ==
    ASSUME WireInv, DoAuth
    PROVE  WireInv'
<1>0. PICK req \in Frame :
        /\ Request(req) /\ req.op = "AUTH"
        /\ authed' = (authed \/ req.value = Token)
        /\ Respond(IF req.value = Token THEN "Ok" ELSE "Unauthorized")
        /\ UNCHANGED <<cached_ks, store>>
  BY DEF DoAuth
<1> DEFINE n == dispatched
           r == IF req.value = Token THEN "Ok" ELSE "Unauthorized"
<1>1. /\ n \in Nat /\ req = script[n + 1] /\ pc = "dispatch" /\ batch # <<>>
      /\ authed <=> AuthedBefore(n + 1)
  BY <1>0, NextRequest
<1>2. Types /\ MemoryInv
  BY DEF WireInv
<1>3. peer' = peer /\ dispatched' = n + 1
  BY <1>0 DEF Respond
<1>4. Answered(n + 1, r) /\ r \in Response
  <2>1. r \in Response
    BY DEF Response
  <2>2. script[n + 1].op = "AUTH" /\ script[n + 1].value = req.value
    BY <1>0, <1>1
  <2>3. Answer(n + 1) =
          IF auth_on /\ script[n + 1].value # ApiKey THEN "Unauthorized" ELSE "Ok"
    BY <2>2 DEF Answer, Effective, Gated, KvOps
  <2> QED
    BY <1>2, <2>1, <2>2, <2>3 DEF Answered, RefusedWithAuthOff, Token, Types
<1>5. AuthedBefore(n + 2) <=> authed \/ req.value = Token
  <2>1. AuthedBefore(n + 2) <=> AuthedBefore(n + 1) \/ req.value = ApiKey
    BY <1>0, <1>1, AuthedNext
  <2>2. ~auth_on => AuthedBefore(n + 2)  /\ AuthedBefore(n + 1)
    BY DEF AuthedBefore
  <2> QED
    BY <1>1, <2>1, <2>2 DEF Token
<1>6. \A ks \in Keyspace : ~Writes(n + 1, ks)
  BY <1>0, <1>1 DEF Writes
<1>7. Types' /\ BatchInv' /\ RepliesInv' /\ EndInv'
  <2> HIDE DEF r, n
  <2>1. Respond(r)
    BY <1>0 DEF r
  <2> QED
    BY <1>0, <1>1, <1>2, <1>4, <2>1, WireRespond DEF Types, n
<1>8. MemoryInv'
  BY <1>0, <1>2, <1>3, <1>5, <1>6, StoreUnwritten, MemoryMoves DEF MemoryInv
<1> QED
  BY <1>7, <1>8 DEF WireInv

(* A request that changes nothing, whatever it is answered.                *)
LEMMA WirePlain ==
    ASSUME WireInv, NEW req \in Frame, Request(req), req.op # "AUTH",
           NEW r \in Response, Respond(r), Answered(dispatched + 1, r),
           UNCHANGED <<authed, store>>,
           \A ks \in Keyspace : ~Writes(dispatched + 1, ks),
           cached_ks'.ks \in Keyspace \cup {Nothing},
           cached_ks'.set => cached_ks'.ks = Resolve(cached_ks'.bytes)
    PROVE  WireInv'
<1>1. /\ dispatched \in Nat /\ req = script[dispatched + 1]
      /\ pc = "dispatch" /\ batch # <<>>
      /\ authed <=> AuthedBefore(dispatched + 1)
  BY NextRequest
<1>2. authed' \in BOOLEAN /\ store' \in [Keyspace -> ValueSent]
  BY DEF WireInv, Types
<1>3. peer' = peer /\ dispatched' = dispatched + 1
  BY DEF Respond
<1>4. Types' /\ BatchInv' /\ RepliesInv' /\ EndInv'
  BY <1>1, <1>2, WireRespond
<1>5. MemoryInv'
  <2>1. AuthedBefore(dispatched + 2) <=> AuthedBefore(dispatched + 1)
    BY <1>1, AuthedNext
  <2>2. authed' <=> AuthedBefore(dispatched + 2)
    BY <1>1, <2>1
  <2>3. \A ks \in Keyspace : store'[ks] = ValueAfter(dispatched + 1, ks)
    BY StoreUnwritten
  <2> QED
    BY <1>3, <2>2, <2>3, MemoryMoves
<1> QED
  BY <1>4, <1>5 DEF WireInv

LEMMA WireUnauthorized ==
    ASSUME WireInv, DoUnauthorized
    PROVE  WireInv'
<1>0. PICK req \in Frame :
        /\ Request(req) /\ req.op # "AUTH" /\ ~authed /\ Respond("Unauthorized")
        /\ UNCHANGED <<authed, cached_ks, store>>
  BY DEF DoUnauthorized, Gate
<1>1. /\ req = script[dispatched + 1] /\ req.op # "malformed"
      /\ ~AuthedBefore(dispatched + 1)
  BY <1>0, NextRequest
<1>2. Answered(dispatched + 1, "Unauthorized") /\ "Unauthorized" \in Response
  BY <1>0, <1>1 DEF Answered, Answer, Gated, Effective, Response
<1>3. \A ks \in Keyspace : ~Writes(dispatched + 1, ks)
  BY <1>1 DEF Writes, Effective
<1> QED
  BY <1>0, <1>2, <1>3, WirePlain DEF WireInv, Types, MemoryInv

LEMMA WireOther ==
    ASSUME WireInv, DoOther
    PROVE  WireInv'
<1>0. PICK req \in Frame :
        /\ Honoured(req) /\ (req.op \notin KvOps \/ rejects(req))
        /\ Respond(IF req.op = "PING" /\ ~rejects(req) THEN "Pong" ELSE "BadRequest")
        /\ UNCHANGED <<authed, cached_ks, store>>
  BY DEF DoOther
<1> DEFINE r == IF req.op = "PING" /\ ~rejects(req) THEN "Pong" ELSE "BadRequest"
<1>1. Request(req) /\ req.op # "AUTH" /\ authed
  BY <1>0 DEF Honoured, Gate
<1>2. /\ req = script[dispatched + 1] /\ req.op # "malformed"
      /\ AuthedBefore(dispatched + 1)
  BY <1>1, NextRequest
<1>3. Answered(dispatched + 1, r) /\ r \in Response
  BY <1>0, <1>1, <1>2 DEF Answered, Answer, Gated, Effective, rejects, KvOps, Response
<1>4. \A ks \in Keyspace : ~Writes(dispatched + 1, ks)
  BY <1>0, <1>2 DEF Writes, Effective, rejects
<1>5. Respond(r)
  BY <1>0
<1> HIDE DEF r
<1> QED
  BY <1>0, <1>1, <1>3, <1>4, <1>5, WirePlain DEF WireInv, Types, MemoryInv

(* The remembered keyspace is the one the name leads to.                   *)
LEMMA MemoIsResolve ==
    ASSUME WireInv, NEW bytes
    PROVE  /\ Memo(bytes).ks = Resolve(bytes)
           /\ Memo(bytes).ks \in Keyspace \cup {Nothing}
           /\ Memo(bytes).ks = Resolve(Memo(bytes).bytes)
BY WireAssumption DEF WireInv, MemoryInv, Memo, Resolve

LEMMA WireKv ==
    ASSUME WireInv, DoKv
    PROVE  WireInv'
<1>0. PICK req \in Frame :
         /\ Honoured(req) /\ req.op \in KvOps /\ ~rejects(req)
         /\ cached_ks' = Memo(req.keyspace)
         /\ CASE Memo(req.keyspace).ks = Nothing ->
                   Respond("UnknownKeyspace") /\ UNCHANGED store
              [] Memo(req.keyspace).ks # Nothing /\ req.op = "GET" ->
                   /\ Respond(IF store[Memo(req.keyspace).ks] = Nothing THEN "NotFound"
                              ELSE store[Memo(req.keyspace).ks])
                   /\ UNCHANGED store
              [] Memo(req.keyspace).ks # Nothing /\ req.op = "SET" ->
                   Respond("Ok") /\ store' = [store EXCEPT ![Memo(req.keyspace).ks] = req.value]
              [] Memo(req.keyspace).ks # Nothing /\ req.op = "DEL" ->
                   Respond("Ok") /\ store' = [store EXCEPT ![Memo(req.keyspace).ks] = Nothing]
         /\ UNCHANGED authed
  BY DEF DoKv
<1> DEFINE n == dispatched
<1>1. Request(req) /\ req.op # "AUTH" /\ authed
  BY <1>0 DEF Honoured, Gate
<1>2. /\ n \in Nat /\ req = script[n + 1] /\ AuthedBefore(n + 1)
      /\ pc = "dispatch" /\ batch # <<>>
  BY <1>1, NextRequest
<1>3. PICK ks : ks = Memo(req.keyspace).ks
  OBVIOUS
<1>4. ks = Resolve(req.keyspace) /\ ks \in Keyspace \cup {Nothing}
  BY <1>3, MemoIsResolve
<1>5. /\ cached_ks'.ks \in Keyspace \cup {Nothing}
      /\ cached_ks'.ks = Resolve(cached_ks'.bytes)
  BY <1>0, MemoIsResolve
<1>6. Effective(n + 1) /\ Types /\ StoreFollowsRequests
  BY <1>0, <1>2 DEF Effective, rejects, WireInv, MemoryInv
<1>7. CASE ks = Nothing
  <2>1. Respond("UnknownKeyspace") /\ store' = store
    BY <1>0, <1>3, <1>7
  <2>2. Answered(n + 1, "UnknownKeyspace") /\ "UnknownKeyspace" \in Response
    BY <1>1, <1>2, <1>4, <1>6, <1>7 DEF Answered, Answer, Gated, KvOps, Effective, Response
  <2>3. \A k \in Keyspace : ~Writes(n + 1, k)
    BY <1>2, <1>4, <1>7, WireAssumption DEF Writes
  <2> QED
    BY <1>0, <1>1, <1>5, <2>1, <2>2, <2>3, WirePlain
<1>8. CASE ks # Nothing /\ req.op = "GET"
  <2> DEFINE r == IF store[ks] = Nothing THEN "NotFound" ELSE store[ks]
  <2>1. Respond(r) /\ store' = store
    BY <1>0, <1>3, <1>8
  <2>2. store[ks] = ValueAfter(n, ks) /\ store[ks] \in ValueSent
    BY <1>4, <1>6, <1>8 DEF StoreFollowsRequests, Types
  <2>3. Answered(n + 1, r) /\ r \in Response
    BY <1>1, <1>2, <1>4, <1>6, <1>8, <2>2 DEF Answered, Answer, Gated, KvOps, Effective, Response
  <2>4. \A k \in Keyspace : ~Writes(n + 1, k)
    BY <1>2, <1>8 DEF Writes
  <2> HIDE DEF r
  <2> QED
    BY <1>0, <1>1, <1>5, <2>1, <2>3, <2>4, WirePlain
<1>9. CASE ks # Nothing /\ req.op \in {"SET", "DEL"}
  <2>0. PICK v : v = IF req.op = "DEL" THEN Nothing ELSE req.value
    OBVIOUS
  <2>1. Respond("Ok") /\ store' = [store EXCEPT ![ks] = v]
    BY <1>0, <1>3, <1>9, <2>0
  <2>2. ks \in Keyspace /\ v \in ValueSent
    BY <1>4, <1>9, <2>0 DEF ValueSent
  <2>3. Answered(n + 1, "Ok") /\ "Ok" \in Response
    BY <1>1, <1>2, <1>4, <1>6, <1>9 DEF Answered, Answer, Gated, KvOps, Effective, Response
  <2>4. \A k \in Keyspace : Writes(n + 1, k) <=> k = ks
    BY <1>2, <1>4, <1>6, <1>9 DEF Writes
  <2>5. \A k \in Keyspace : store'[k] = ValueAfter(n + 1, k)
    <3> SUFFICES ASSUME NEW k \in Keyspace PROVE store'[k] = ValueAfter(n + 1, k)
      OBVIOUS
    <3>1. ValueAfter(n + 1, k) = IF k = ks THEN v ELSE ValueAfter(n, k)
      BY <1>2, <2>0, <2>4, ValueNext
    <3>2. store'[k] = IF k = ks THEN v ELSE store[k]
      BY <1>6, <2>1 DEF Types
    <3> QED
      BY <1>6, <3>1, <3>2 DEF StoreFollowsRequests
  <2>6. Types' /\ BatchInv' /\ RepliesInv' /\ EndInv'
    <3>1. store' \in [Keyspace -> ValueSent] /\ authed' \in BOOLEAN
      BY <1>0, <1>6, <2>1, <2>2 DEF Types
    <3> QED
      BY <1>2, <1>5, <2>1, <2>3, <3>1, WireRespond
  <2>7. MemoryInv'
    <3>1. AuthedBefore(n + 2)
      BY <1>2, AuthedNext
    <3>2. peer' = peer /\ dispatched' = n + 1
      BY <2>1 DEF Respond
    <3> QED
      BY <1>0, <1>1, <1>5, <2>5, <3>1, <3>2, MemoryMoves
  <2> QED
    BY <2>6, <2>7 DEF WireInv
<1> QED
  BY <1>0, <1>7, <1>8, <1>9 DEF KvOps

LEMMA WireStutter ==
    ASSUME WireInv, UNCHANGED vars
    PROVE  WireInv'
<1>1. Types /\ BatchInv /\ RepliesInv /\ MemoryInv /\ EndInv /\ peer' = peer
  BY DEF WireInv, vars, peer
<1>2. Types' /\ BatchInv' /\ EndInv'
  BY <1>1 DEF Types, BatchInv, EndInv, Complete, Next1, vars
<1>3. RepliesInv' /\ MemoryInv'
  BY <1>1, RepliesStay, MemoryStays DEF vars, RepliesInv
<1> QED
  BY <1>2, <1>3 DEF WireInv

LEMMA WireStep == WireInv /\ [Next]_vars => WireInv'
<1> SUFFICES ASSUME WireInv, [Next]_vars PROVE WireInv'
  OBVIOUS
<1>1. CASE Serve
  BY <1>1, WireDecode, WireDecodeFails, WireDrained, WireAuth, WireUnauthorized,
     WireKv, WireOther, WireWrite, WireWriteFails DEF Serve
<1>2. CASE Read \/ ReadEnds
  BY <1>2, WireRead
<1>3. CASE UNCHANGED vars
  BY <1>3, WireStutter
<1> QED
  BY <1>1, <1>2, <1>3 DEF Next

LEMMA WireAlways == Spec => []WireInv
BY WireInit, WireStep, PTL DEF Spec

-----------------------------------------------------------------------------
(* What follows from it.                                                   *)

(* Every variable of a connection has its type: a batch never passes       *)
(* MAX_BATCH, and nothing is dispatched that was not decoded               *)
(* (conn.rs:24-27, 118-158).                                               *)
THEOREM TypeCorrect == Spec => []TypeOK
<1>1. WireInv => TypeOK
  BY DEF WireInv, Types, BatchInv, TypeOK
<1> QED
  BY <1>1, WireAlways, PTL

(* For any stream, any keyspaces, any batch size and any cut into reads:   *)
(* every request dispatched has, at its position, the response a server    *)
(* without batches, memory of keyspaces or connection state would give, a  *)
(* token refused with auth off (conn.rs:174 against protocol.rs:24-25)     *)
(* excepted.  One response more is the last of a refused connection, a     *)
(* BadRequest in the place of the malformed frame or of the first request  *)
(* dropped with it (conn.rs:44-49, 125-136, 160-209).                      *)
THEOREM AlwaysInOrder == Spec => []AnswersInOrder
<1>1. WireInv => AnswersInOrder
  <2> SUFFICES ASSUME WireInv PROVE AnswersInOrder
    OBVIOUS
  <2> DEFINE answers == replies \o out_buf
             n == dispatched
  <2>1. Types /\ BatchInv /\ RepliesInv /\ n \in Nat /\ decoded \in Nat /\ n <= decoded
    BY WireAssumption DEF WireInv, Types
  <2>2. /\ Len(replies) \in Nat /\ Len(out_buf) \in Nat
        /\ Len(answers) = Len(replies) + Len(out_buf)
        /\ \A j \in 1..(Len(replies) + Len(out_buf)) : answers[j] =
              IF j <= Len(replies) THEN replies[j] ELSE out_buf[j - Len(replies)]
    BY <2>1, LenProperties, ConcatProperties DEF Types
  <2>3. pc = "refused" => Len(out_buf) = 0 /\ Refused
    BY <2>1, EmptySeq DEF RepliesInv
  <2>4. Len(answers) = n \/ (pc = "refused" /\ Len(answers) = n + 1)
    BY <2>1, <2>2, <2>3 DEF RepliesInv, Refused
  <2>5. ASSUME NEW i \in 1..n, i <= Len(answers) PROVE Answered(i, answers[i])
    BY <2>1, <2>2, <2>5 DEF RepliesInv
  <2>6. ASSUME pc = "refused", Len(answers) = n + 1
        PROVE  /\ answers[n + 1] = "BadRequest"
               /\ Answered(n + 1, answers[n + 1]) \/ Dropped(n + 1)
    <3>1. answers[n + 1] = "BadRequest"
      BY <2>1, <2>2, <2>3, <2>6 DEF Refused
    <3>2. CASE n = decoded
      <4>1. Answer(n + 1) = "BadRequest"
        BY <2>3, <2>6, <3>2 DEF Refused, Answer, Gated, Effective, KvOps
      <4> QED
        BY <3>1, <4>1 DEF Answered
    <3>3. CASE n < decoded
      BY <2>1, <2>6, <3>1, <3>3 DEF Dropped
    <3> QED
      BY <2>1, <3>1, <3>2, <3>3
  <2> HIDE DEF answers
  <2>7. ASSUME NEW i \in 1..Len(answers)
        PROVE  \/ Answered(i, answers[i])
               \/ Dropped(i) /\ i = Len(answers) /\ answers[i] = "BadRequest"
    <3>1. i \in 1..n \/ (pc = "refused" /\ Len(answers) = n + 1 /\ i = n + 1)
      BY <2>1, <2>4
    <3> QED
      BY <2>5, <2>6, <3>1
  <2> QED
    BY <2>4, <2>7 DEF AnswersInOrder, answers
<1> QED
  BY <1>1, WireAlways, PTL

(* The cache holds what the stream wrote so far, and nothing of a request  *)
(* that came before the key or broke a limit (conn.rs:96-100, 170-206).    *)
THEOREM StoreAlwaysFollows == Spec => []StoreFollowsRequests
<1>1. WireInv => StoreFollowsRequests
  BY DEF WireInv, MemoryInv
<1> QED
  BY <1>1, WireAlways, PTL

(* A connection at whose end nothing more comes has answered all it had    *)
(* read, and one refused for a malformed frame had less than one batch     *)
(* undone (conn.rs:118-158).                                               *)
THEOREM NothingEverLeft == Spec => []NothingLeftUnanswered
<1>1. WireInv => NothingLeftUnanswered
  <2> SUFFICES ASSUME WireInv, pc = "closed" PROVE Len(replies) = decoded /\ dispatched = decoded
    BY DEF WireInv, EndInv, NothingLeftUnanswered
  <2>1. batch = <<>> /\ out_buf = <<>> /\ decoded \in Nat /\ dispatched \in Nat
    BY WireAssumption DEF WireInv, EndInv, RepliesInv, Types
  <2>2. Len(batch) = 0 /\ Len(out_buf) = 0 /\ Len(replies) \in Nat
    BY <2>1, EmptySeq, LenProperties DEF WireInv, Types
  <2> QED
    BY <2>1, <2>2 DEF WireInv, BatchInv, RepliesInv
<1> QED
  BY <1>1, WireAlways, PTL
=============================================================================
