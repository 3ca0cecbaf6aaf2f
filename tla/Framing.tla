------------------------------ MODULE Framing ------------------------------
(***************************************************************************)
(* A peer and a connection (falcon-wire/src/conn.rs) with the bytes and    *)
(* the socket buffers between them.  The peer encodes requests and writes  *)
(* them back to back; handle_conn reads what has arrived, decodes what is  *)
(* complete, and writes the responses of a batch before it reads again.    *)
(* Either side waits while the buffer it writes to is full.                *)
(*                                                                         *)
(* What requests do is WireConn's subject; here a response is a number of  *)
(* bytes.                                                                  *)
(***************************************************************************)
EXTENDS Codec

CONSTANTS
    Sent,       \* the requests a peer may encode
    Length,     \* BOUND: how many it encodes
    MaxBatch,   \* MAX_BATCH
    Reply,      \* how many bytes a response may have
    InRoom,     \* the socket buffer towards the node
    OutRoom     \* the sizes the one towards the peer may have

ASSUME FramingAssumption ==
    /\ Sent \subseteq Request /\ Length \in Nat
    /\ MaxBatch \in Nat \ {0} /\ InRoom \in Nat \ {0}
    /\ OutRoom \subseteq Nat \ {0} /\ Reply \subseteq Nat \ {0}

VARIABLES
    patient,    \* the peer reads nothing before it has written everything
    out_room,   \* the socket buffer towards the peer
    requests,   \* the requests the peer has encoded
    stream,     \* the bytes of those
    written,    \* how many of the bytes it has written
    taken,      \* how many handle_conn has read
    consumed,   \* how many it has split off
    decoded,    \* the requests it has decoded
    batch,      \* how many of those it has still to dispatch
    out_buf,    \* the bytes of responses it has still to write
    outbound,   \* those in the socket buffer
    answered,   \* how many requests it has answered
    pc          \* where handle_conn is

peer == <<patient, out_room>>
inVars == <<requests, stream, written, taken>>
outVars == <<out_buf, outbound, answered>>
vars == <<peer, inVars, consumed, decoded, batch, outVars, pc>>

in_buf == SubSeq(stream, consumed + 1, taken)

Init ==
    /\ patient \in BOOLEAN /\ out_room \in OutRoom
    /\ requests = <<>> /\ stream = <<>> /\ written = 0 /\ taken = 0
    /\ consumed = 0 /\ decoded = <<>> /\ batch = 0
    /\ out_buf = 0 /\ outbound = 0 /\ answered = 0
    /\ pc = "drain"

Open == pc \in {"drain", "read", "write"}

-----------------------------------------------------------------------------
(* The peer.                                                               *)

Encode ==
    /\ Open /\ Len(requests) < Length
    /\ \E r \in Sent :
          /\ requests' = Append(requests, r)
          /\ stream' = stream \o encode_request(r)
    /\ UNCHANGED <<peer, written, taken, consumed, decoded, batch, outVars, pc>>

(* The kernel takes as many bytes as there is room for; how many of them   *)
(* one read finds is its own choice.                                       *)
PeerWrites ==
    /\ Open /\ written < Len(stream) /\ written - taken < InRoom
    /\ written' = IF Len(stream) - taken <= InRoom THEN Len(stream) ELSE taken + InRoom
    /\ UNCHANGED <<peer, requests, stream, taken, consumed, decoded, batch, outVars, pc>>

PeerReads ==
    /\ Open /\ outbound > 0
    /\ patient => written = Len(stream)
    /\ outbound' \in 0..(outbound - 1)
    /\ UNCHANGED <<peer, inVars, consumed, decoded, batch, out_buf, answered, pc>>

-----------------------------------------------------------------------------
(* handle_conn.                                                            *)

(* The definitions named Bad... are the mistakes the runs' properties are  *)
(* tested against; no specification uses them.                             *)
BadRoomInBatch == batch <= MaxBatch

RoomInBatch == batch < MaxBatch

Decode ==
    /\ pc = "drain" /\ RoomInBatch /\ Complete(in_buf)
    /\ decoded' = Append(decoded, Decoded(in_buf))
    /\ consumed' = consumed + frame_end(in_buf)
    /\ batch' = batch + 1
    /\ UNCHANGED <<peer, inVars, outVars, pc>>

Refuse ==
    /\ pc = "drain" /\ RoomInBatch /\ Malformed(in_buf)
    /\ pc' = "refused"
    /\ UNCHANGED <<peer, inVars, consumed, decoded, batch, outVars>>

BadNeedsRead == RoomInBatch

NeedsRead == batch = 0

(* The responses of a batch, whatever they are.                            *)
Drained ==
    /\ pc = "drain"
    /\ RoomInBatch => ~Complete(in_buf) /\ ~Malformed(in_buf)
    /\ IF NeedsRead THEN pc' = "read" /\ UNCHANGED <<batch, out_buf>>
       ELSE /\ pc' = "write" /\ batch' = 0
            /\ \E s, l \in Reply : out_buf' \in (batch * s)..(batch * l)
    /\ UNCHANGED <<peer, inVars, consumed, decoded, outbound, answered>>

Read ==
    /\ pc = "read"
    /\ taken' \in (taken + 1)..written
    /\ pc' = "drain"
    /\ UNCHANGED <<peer, requests, stream, written, consumed, decoded, batch, outVars>>

(* The peer closes, the idle timeout expires, or the socket fails.         *)
Close ==
    /\ pc \in {"read", "write"}
    /\ pc' = "closed"
    /\ UNCHANGED <<peer, inVars, consumed, decoded, batch, outVars>>

(* write_all: as much as there is room for, until all is written.          *)
Write ==
    /\ pc = "write"
    /\ \E n \in 1..out_buf :
          /\ outbound + n <= out_room
          /\ outbound' = outbound + n
          /\ out_buf' = out_buf - n
    /\ IF out_buf' = 0 THEN pc' = "drain" /\ answered' = Len(decoded)
       ELSE UNCHANGED <<pc, answered>>
    /\ UNCHANGED <<peer, inVars, consumed, decoded, batch>>

-----------------------------------------------------------------------------
Serve == Decode \/ Refuse \/ Drained \/ Read \/ Write

Next == Encode \/ PeerWrites \/ PeerReads \/ Serve \/ Close

Spec == Init /\ [][Next]_vars

(* The connection's task is scheduled, and the peer goes on with what it   *)
(* has begun; nothing makes it encode another request.                     *)
FairSpec == Spec /\ WF_vars(Serve) /\ WF_vars(PeerWrites) /\ WF_vars(PeerReads)
-----------------------------------------------------------------------------
(* Properties.                                                             *)

TypeOK ==
    /\ patient \in BOOLEAN /\ out_room \in OutRoom
    /\ requests \in Seq(Request) /\ Len(requests) <= Length /\ stream \in Bytes
    /\ consumed \in Nat /\ taken \in Nat /\ written \in Nat
    /\ consumed <= taken /\ taken <= written /\ written <= Len(stream)
    /\ written - taken <= InRoom
    /\ decoded \in Seq(Request) /\ batch \in 0..MaxBatch
    /\ out_buf \in Nat /\ outbound \in 0..out_room /\ answered \in 0..Len(decoded)
    /\ pc \in {"drain", "read", "write", "refused", "closed"}

(* The lengths of a request fit the fields they are encoded in.            *)
Fits(r) ==
    /\ Len(r.keyspace) < Base * Base
    /\ Len(r.key) < Base * (Base * (Base * Base))
    /\ Len(r.value) < Base * (Base * (Base * Base))

TooLong(r) == \E n \in {Len(r.keyspace), Len(r.key), Len(r.value)} : n > MAX_FRAME

FitUpTo(i) == i <= Len(requests) /\ \A j \in 1..i : Fits(requests[j])

(* However the stream is cut into reads and batches, the i-th request      *)
(* decoded is the i-th encoded, and one is refused only where a request is *)
(* too long for any node: no byte is lost, used twice or taken for another *)
(* field's (codec.rs:15-89, protocol.rs:85-99).                            *)
DecodedAsSent ==
    /\ \A i \in 1..Len(decoded) : FitUpTo(i) => decoded[i] = requests[i]
    /\ pc = "refused" /\ FitUpTo(Len(decoded) + 1) => TooLong(requests[Len(decoded) + 1])

(* While it waits for bytes, a connection holds less than one frame of the *)
(* largest size, whatever bytes it has been sent and however many requests *)
(* are under way: lengths are refused before what they count is stored     *)
(* (codec.rs:32-57, conn.rs:44-52, 138-158, protocol.rs:49-50).            *)
OneFrameBuffered ==
    pc = "read" => Len(in_buf) < HEADER_MIN + (Base * Base - 1) + 4 + MAX_FRAME + 4 + MAX_FRAME

(* A peer that reads while it writes has every request answered, however   *)
(* small the socket buffers; so has one that writes its whole pipeline     *)
(* first, if the responses fit in the buffer towards it                    *)
(* (protocol.rs:3-8, conn.rs:120-209).                                     *)
Ended == pc \in {"refused", "closed"}

CanFlow == patient => \A n \in Reply : Length * n <= out_room

AllAnswered == \A i \in 1..Length : FitUpTo(i) => answered >= i

PipelineFlows == CanFlow ~> AllAnswered \/ Ended
=============================================================================
