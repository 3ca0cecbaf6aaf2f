------------------------------- MODULE Codec -------------------------------
(***************************************************************************)
(* The request frames of the wire protocol (falcon-wire/src/protocol.rs,   *)
(* codec.rs):                                                              *)
(*                                                                         *)
(*   [op][flags][keyspace_len:u16][keyspace][key_len:u32][key]             *)
(*   [val_len:u32][val]                                                    *)
(*                                                                         *)
(* A buffer is a sequence of bytes.  Nobody reads the flags.               *)
(***************************************************************************)
EXTENDS Integers, Sequences

CONSTANTS
    Base,       \* how many values a byte has
    MAX_FRAME

ASSUME CodecAssumption == Base \in Nat /\ Base > 1 /\ MAX_FRAME \in Nat

Byte == 0..(Base - 1)
Bytes == Seq(Byte)

Request == [op: Byte, keyspace: Bytes, key: Bytes, value: Bytes]

-----------------------------------------------------------------------------
(* put_u16_le and put_u32_le of a length: the digits that fit.             *)
Higher(n) == n \div Base

u16_le(n) == <<n % Base, Higher(n) % Base>>

u32_le(n) ==
    <<n % Base, Higher(n) % Base, Higher(Higher(n)) % Base,
      Higher(Higher(Higher(n))) % Base>>

encode_request(r) ==
    <<r.op, 0>> \o u16_le(Len(r.keyspace)) \o r.keyspace
                \o u32_le(Len(r.key)) \o r.key
                \o u32_le(Len(r.value)) \o r.value

-----------------------------------------------------------------------------
(* decode_one.  Positions count from 0, as in the code: the byte at pos is *)
(* buf[pos + 1].                                                           *)
u16_from_le(buf, pos) == buf[pos + 1] + Base * buf[pos + 2]

u32_from_le(buf, pos) ==
    buf[pos + 1] + Base * (buf[pos + 2] + Base * (buf[pos + 3] + Base * buf[pos + 4]))

HEADER_MIN == 4

keyspace_len(buf) == u16_from_le(buf, 2)
KeyLenAt(buf)     == HEADER_MIN + keyspace_len(buf)
key_len(buf)      == u32_from_le(buf, KeyLenAt(buf))
ValLenAt(buf)     == KeyLenAt(buf) + 4 + key_len(buf)
val_len(buf)      == u32_from_le(buf, ValLenAt(buf))

BadFrameEnd(buf) == ValLenAt(buf) + val_len(buf)

frame_end(buf) == ValLenAt(buf) + 4 + val_len(buf)

(* How far the buffer reaches.                                             *)
HasHeader(buf) == Len(buf) >= HEADER_MIN
HasKeyLen(buf) == HasHeader(buf) /\ Len(buf) >= KeyLenAt(buf) + 4
HasValLen(buf) == HasKeyLen(buf) /\ Len(buf) >= ValLenAt(buf) + 4

BadMalformed(buf) ==
    \/ HasHeader(buf) /\ keyspace_len(buf) > MAX_FRAME
    \/ HasKeyLen(buf) /\ key_len(buf) > MAX_FRAME

(* A length is refused as soon as it is there, before what it counts.      *)
Malformed(buf) ==
    \/ HasHeader(buf) /\ keyspace_len(buf) > MAX_FRAME
    \/ HasKeyLen(buf) /\ key_len(buf) > MAX_FRAME
    \/ HasValLen(buf) /\ val_len(buf) > MAX_FRAME

Complete(buf) ==
    HasValLen(buf) /\ ~Malformed(buf) /\ Len(buf) >= frame_end(buf)

(* The frame at the front of a buffer that has one.                        *)
Decoded(buf) ==
    [op |-> buf[1],
     keyspace |-> SubSeq(buf, HEADER_MIN + 1, KeyLenAt(buf)),
     key |-> SubSeq(buf, KeyLenAt(buf) + 5, ValLenAt(buf)),
     value |-> SubSeq(buf, ValLenAt(buf) + 5, frame_end(buf))]
=============================================================================
