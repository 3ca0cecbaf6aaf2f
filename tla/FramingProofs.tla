--------------------------- MODULE FramingProofs ---------------------------
(***************************************************************************)
(* The frames of any requests, in bytes of any number of values, cut into  *)
(* any reads.                                                              *)
(***************************************************************************)
EXTENDS Framing, SequenceTheorems, TLAPS

(***************************************************************************)
(* Digits.                                                                 *)
(***************************************************************************)

LEMMA BaseType == Base \in Nat /\ Base > 1 /\ MAX_FRAME \in Nat
BY CodecAssumption

(* The last digit of a length, and the rest of it.                         *)
LEMMA Digits ==
    ASSUME NEW n \in Nat
    PROVE  /\ n % Base \in Byte /\ Higher(n) \in Nat
           /\ n = (n % Base) + Base * Higher(n)
BY BaseType DEF Byte, Higher

(* A length below a multiple of Base has a rest below the multiple.        *)
LEMMA HigherBelow ==
    ASSUME NEW n \in Nat, NEW m \in Nat, n < Base * m
    PROVE  Higher(n) < m
<1> DEFINE h == Higher(n)
<1>1. h \in Nat /\ Base * h <= n
  <2>1. h \in Nat /\ n % Base \in Nat /\ n = (n % Base) + Base * h
    BY Digits, BaseType DEF Byte
  <2>2. Base * h \in Nat
    BY <2>1, BaseType
  <2> HIDE DEF h
  <2> QED BY <2>1, <2>2
<1>2. SUFFICES ASSUME h >= m PROVE FALSE
  BY <1>1
<1>3. \E d \in Nat : h = m + d
  BY <1>1, <1>2
<1>4. Base * h >= Base * m
  BY <1>3, BaseType
<1> QED BY <1>1, <1>4, BaseType

(* A rest below Base is a digit.                                           *)
LEMMA LastDigit ==
    ASSUME NEW n \in Nat, n < Base PROVE n % Base = n
BY BaseType
(* put_u16_le and from_le_bytes undo each other, for what fits 16 bits.    *)
LEMMA U16Exact ==
    ASSUME NEW n \in Nat, n < Base * Base,
           NEW buf, NEW pos \in Nat,
           \A i \in 1..2 : buf[pos + i] = u16_le(n)[i]
    PROVE  u16_from_le(buf, pos) = n
<1>1. Higher(n) \in Nat /\ Higher(n) < Base
  BY Digits, HigherBelow, BaseType
<1>2. buf[pos + 1] = n % Base /\ buf[pos + 2] = Higher(n) % Base
  BY DEF u16_le
<1> QED BY <1>1, <1>2, Digits, LastDigit DEF u16_from_le

(* The same for put_u32_le and 32 bits.                                    *)
LEMMA U32Exact ==
    ASSUME NEW n \in Nat, n < Base * (Base * (Base * Base)),
           NEW buf, NEW pos \in Nat,
           \A i \in 1..4 : buf[pos + i] = u32_le(n)[i]
    PROVE  u32_from_le(buf, pos) = n
<1> DEFINE h1 == Higher(n)
           h2 == Higher(h1)
           h3 == Higher(h2)
<1>0. Base * Base \in Nat /\ Base * (Base * Base) \in Nat
  BY BaseType
<1>1. h1 \in Nat /\ h1 < Base * (Base * Base)
  BY <1>0, Digits, HigherBelow, BaseType
<1>2. h2 \in Nat /\ h2 < Base * Base
  <2> HIDE DEF h1
  <2> QED BY <1>0, <1>1, Digits, HigherBelow, SMT
<1>3. h3 \in Nat /\ h3 < Base
  <2> HIDE DEF h2
  <2> QED BY <1>2, Digits, HigherBelow, BaseType
<1>4. n = (n % Base) + Base * h1
  BY Digits
<1>5. h1 = (h1 % Base) + Base * h2
  <2> HIDE DEF h1
  <2> QED BY <1>1, Digits
<1>6. h2 = (h2 % Base) + Base * h3
  <2> HIDE DEF h2
  <2> QED BY <1>2, Digits
<1>7. h3 % Base = h3
  <2> HIDE DEF h3
  <2> QED BY <1>3, LastDigit
<1>8. /\ buf[pos + 1] = n % Base /\ buf[pos + 2] = h1 % Base
      /\ buf[pos + 3] = h2 % Base /\ buf[pos + 4] = h3 % Base
  BY DEF u32_le
<1> HIDE DEF h1, h2, h3
<1> QED BY <1>4, <1>5, <1>6, <1>7, <1>8 DEF u32_from_le

(***************************************************************************)
(* Where the bytes of a frame are.                                         *)
(***************************************************************************)

(* The bytes of s stand in t after the first n.                            *)
Holds(t, n, s) ==
    n + Len(s) <= Len(t) /\ \A i \in 1..Len(s) : t[n + i] = s[i]

LEMMA ConcatBytes ==
    ASSUME NEW s \in Bytes, NEW t \in Bytes
    PROVE  /\ s \o t \in Bytes /\ Len(s \o t) = Len(s) + Len(t)
           /\ Len(s) \in Nat /\ Len(t) \in Nat
           /\ \A i \in 1..Len(s) : (s \o t)[i] = s[i]
           /\ \A i \in 1..Len(t) : (s \o t)[Len(s) + i] = t[i]
<1>1. s \o t \in Bytes /\ Len(s \o t) = Len(s) + Len(t) /\ Len(s) \in Nat /\ Len(t) \in Nat
  BY ConcatProperties, LenProperties DEF Bytes
<1>2. ASSUME NEW i \in 1..Len(s) PROVE (s \o t)[i] = s[i]
  <2>1. i \in 1..(Len(s) + Len(t)) /\ i <= Len(s)
    BY <1>1
  <2> QED BY <2>1, ConcatProperties DEF Bytes
<1>3. ASSUME NEW i \in 1..Len(t) PROVE (s \o t)[Len(s) + i] = t[i]
  <2>1. Len(s) + i \in 1..(Len(s) + Len(t)) /\ ~(Len(s) + i <= Len(s)) /\ Len(s) + i - Len(s) = i
    BY <1>1
  <2> QED BY <2>1, ConcatProperties, SMT DEF Bytes
<1> QED BY <1>1, <1>2, <1>3

LEMMA ConcatLen ==
    ASSUME NEW s \in Bytes, NEW t \in Bytes
    PROVE  s \o t \in Bytes /\ Len(s \o t) = Len(s) + Len(t)
BY ConcatBytes

(* A concatenation holds what its parts hold.                              *)
LEMMA HoldsLeft ==
    ASSUME NEW s \in Bytes, NEW t \in Bytes, NEW n \in Nat, NEW u \in Bytes, Holds(s, n, u)
    PROVE  Holds(s \o t, n, u)
<1>1. Len(u) \in Nat
  BY LenProperties DEF Bytes
<1>2. n + Len(u) <= Len(s \o t)
  BY <1>1, ConcatBytes DEF Holds
<1>3. ASSUME NEW i \in 1..Len(u) PROVE (s \o t)[n + i] = u[i]
  <2>1. n + i \in 1..Len(s)
    BY <1>1, ConcatBytes DEF Holds
  <2> QED BY <2>1, ConcatBytes DEF Holds
<1> QED BY <1>2, <1>3 DEF Holds

LEMMA HoldsZero ==
    ASSUME NEW s \in Bytes, NEW t \in Bytes
    PROVE  Holds(s \o t, 0, s)
BY ConcatBytes DEF Holds

LEMMA HoldsRight ==
    ASSUME NEW s \in Bytes, NEW t \in Bytes
    PROVE  Holds(s \o t, Len(s), t)
BY ConcatBytes DEF Holds

LEMMA LengthBytes ==
    ASSUME NEW n \in Nat
    PROVE  /\ u16_le(n) \in Bytes /\ Len(u16_le(n)) = 2
           /\ u32_le(n) \in Bytes /\ Len(u32_le(n)) = 4
<1>1. ASSUME NEW m \in Nat PROVE m % Base \in Byte /\ Higher(m) \in Nat
  BY Digits
<1>2. Higher(n) \in Nat /\ Higher(Higher(n)) \in Nat /\ Higher(Higher(Higher(n))) \in Nat
  BY <1>1
<1>3. u16_le(n) \in Seq(Byte) /\ Len(u16_le(n)) = 2
  BY <1>1, <1>2 DEF u16_le
<1>4. u32_le(n) \in Seq(Byte) /\ Len(u32_le(n)) = 4
  BY <1>1, <1>2 DEF u32_le
<1> QED BY <1>3, <1>4 DEF Bytes

LEMMA RequestType ==
    ASSUME NEW r \in Request
    PROVE  /\ r.op \in Byte
           /\ r.keyspace \in Bytes /\ Len(r.keyspace) \in Nat
           /\ r.key \in Bytes /\ Len(r.key) \in Nat
           /\ r.value \in Bytes /\ Len(r.value) \in Nat
<1>1. r.op \in Byte /\ r.keyspace \in Bytes /\ r.key \in Bytes /\ r.value \in Bytes
  BY DEF Request
<1> QED BY <1>1, LenProperties DEF Bytes

(* How long the fields of a request are.                                   *)
KS(r) == Len(r.keyspace)
KY(r) == Len(r.key)
VL(r) == Len(r.value)

LEMMA Sizes ==
    ASSUME NEW r \in Request
    PROVE  /\ r.keyspace \in Bytes /\ Len(r.keyspace) = KS(r) /\ KS(r) \in Nat
           /\ r.key \in Bytes /\ Len(r.key) = KY(r) /\ KY(r) \in Nat
           /\ r.value \in Bytes /\ Len(r.value) = VL(r) /\ VL(r) \in Nat
BY RequestType DEF KS, KY, VL

(* How long a frame is, and where each field is in it.                     *)
FrameLen(r) == 12 + KS(r) + KY(r) + VL(r)

Laid(buf, r) ==
    /\ buf[1] = r.op
    /\ Holds(buf, 2, u16_le(KS(r)))
    /\ Holds(buf, 4, r.keyspace)
    /\ Holds(buf, 4 + KS(r), u32_le(KY(r)))
    /\ Holds(buf, 8 + KS(r), r.key)
    /\ Holds(buf, 8 + KS(r) + KY(r), u32_le(VL(r)))
    /\ Holds(buf, 12 + KS(r) + KY(r), r.value)

LEMMA EncodedBytes ==
    ASSUME NEW r \in Request
    PROVE  /\ encode_request(r) \in Bytes
           /\ Len(encode_request(r)) = FrameLen(r)
           /\ Laid(encode_request(r), r)
<1> DEFINE K == KS(r)
           Y == KY(r)
           V == VL(r)
           s1 == <<r.op, 0>>
           s2 == s1 \o u16_le(K)
           s3 == s2 \o r.keyspace
           s4 == s3 \o u32_le(Y)
           s5 == s4 \o r.key
           s6 == s5 \o u32_le(V)
           s7 == s6 \o r.value
<1>1. /\ r.op \in Byte /\ r.keyspace \in Bytes /\ r.key \in Bytes /\ r.value \in Bytes
      /\ K \in Nat /\ Y \in Nat /\ V \in Nat
      /\ K = Len(r.keyspace) /\ Y = Len(r.key) /\ V = Len(r.value)
      /\ K = KS(r) /\ Y = KY(r) /\ V = VL(r)
  BY RequestType, Sizes
<1>2. /\ u16_le(K) \in Bytes /\ Len(u16_le(K)) = 2
      /\ u32_le(Y) \in Bytes /\ Len(u32_le(Y)) = 4
      /\ u32_le(V) \in Bytes /\ Len(u32_le(V)) = 4
  BY <1>1, LengthBytes
<1>3. s1 \in Bytes /\ Len(s1) = 2 /\ s1[1] = r.op
  <2>1. 0 \in Byte
    BY BaseType DEF Byte
  <2> QED BY <1>1, <2>1 DEF Bytes
<1>4. encode_request(r) = s7
  BY DEF encode_request, KS, KY, VL
<1> HIDE DEF K, Y, V, s1
<1>5. /\ s2 \in Bytes /\ Len(s2) = 4 /\ Holds(s2, 0, s1)
      /\ Holds(s2, 2, u16_le(K))
  <2>1. s2 \in Bytes /\ Len(s2) = 4
    <3>1. s2 \in Bytes /\ Len(s2) = Len(s1) + Len(u16_le(K))
      BY <1>1, <1>2, <1>3, ConcatLen
    <3> QED BY <1>1, <1>2, <1>3, <3>1
  <2>2. Holds(s2, 2, u16_le(K))
    BY <1>1, <1>2, <1>3, HoldsRight
  <2>3. Holds(s2, 0, s1)
    BY <1>2, <1>3, HoldsZero
  <2> QED BY <2>1, <2>2, <2>3
<1> HIDE DEF s2
<1>6. /\ s3 \in Bytes /\ Len(s3) = 4 + K /\ Holds(s3, 0, s1)
      /\ Holds(s3, 2, u16_le(K))
      /\ Holds(s3, 4, r.keyspace)
  <2>1. s3 \in Bytes /\ Len(s3) = 4 + K
    <3>1. s3 \in Bytes /\ Len(s3) = Len(s2) + Len(r.keyspace)
      BY <1>1, <1>2, <1>5, ConcatLen
    <3> QED BY <1>1, <1>2, <1>5, <3>1
  <2>2. Holds(s3, 4, r.keyspace)
    BY <1>1, <1>2, <1>5, HoldsRight
  <2>3. Holds(s3, 0, s1)
    BY <1>1, <1>2, <1>3, <1>5, HoldsLeft
  <2>4. Holds(s3, 2, u16_le(K))
    BY <1>1, <1>2, <1>5, HoldsLeft
  <2> QED BY <2>1, <2>2, <2>3, <2>4
<1> HIDE DEF s3
<1>7. /\ s4 \in Bytes /\ Len(s4) = 8 + K /\ Holds(s4, 0, s1)
      /\ Holds(s4, 2, u16_le(K))
      /\ Holds(s4, 4, r.keyspace)
      /\ Holds(s4, 4 + K, u32_le(Y))
  <2>1. s4 \in Bytes /\ Len(s4) = 8 + K
    <3>1. s4 \in Bytes /\ Len(s4) = Len(s3) + Len(u32_le(Y))
      BY <1>1, <1>2, <1>6, ConcatLen
    <3> QED BY <1>1, <1>2, <1>6, <3>1
  <2>2. Holds(s4, 4 + K, u32_le(Y))
    BY <1>1, <1>2, <1>6, HoldsRight
  <2>3. Holds(s4, 0, s1)
    BY <1>1, <1>2, <1>3, <1>6, HoldsLeft
  <2>4. Holds(s4, 2, u16_le(K))
    BY <1>1, <1>2, <1>6, HoldsLeft
  <2>5. Holds(s4, 4, r.keyspace)
    BY <1>1, <1>2, <1>6, HoldsLeft
  <2> QED BY <2>1, <2>2, <2>3, <2>4, <2>5
<1> HIDE DEF s4
<1>8. /\ s5 \in Bytes /\ Len(s5) = 8 + K + Y /\ Holds(s5, 0, s1)
      /\ Holds(s5, 2, u16_le(K))
      /\ Holds(s5, 4, r.keyspace)
      /\ Holds(s5, 4 + K, u32_le(Y))
      /\ Holds(s5, 8 + K, r.key)
  <2>1. s5 \in Bytes /\ Len(s5) = 8 + K + Y
    <3>1. s5 \in Bytes /\ Len(s5) = Len(s4) + Len(r.key)
      BY <1>1, <1>2, <1>7, ConcatLen
    <3> QED BY <1>1, <1>2, <1>7, <3>1
  <2>2. Holds(s5, 8 + K, r.key)
    BY <1>1, <1>2, <1>7, HoldsRight
  <2>3. Holds(s5, 0, s1)
    BY <1>1, <1>2, <1>3, <1>7, HoldsLeft
  <2>4. Holds(s5, 2, u16_le(K))
    BY <1>1, <1>2, <1>7, HoldsLeft
  <2>5. Holds(s5, 4, r.keyspace)
    BY <1>1, <1>2, <1>7, HoldsLeft
  <2>6. Holds(s5, 4 + K, u32_le(Y))
    BY <1>1, <1>2, <1>7, HoldsLeft
  <2> QED BY <2>1, <2>2, <2>3, <2>4, <2>5, <2>6
<1> HIDE DEF s5
<1>9. /\ s6 \in Bytes /\ Len(s6) = 12 + K + Y /\ Holds(s6, 0, s1)
      /\ Holds(s6, 2, u16_le(K))
      /\ Holds(s6, 4, r.keyspace)
      /\ Holds(s6, 4 + K, u32_le(Y))
      /\ Holds(s6, 8 + K, r.key)
      /\ Holds(s6, 8 + K + Y, u32_le(V))
  <2>1. s6 \in Bytes /\ Len(s6) = 12 + K + Y
    <3>1. s6 \in Bytes /\ Len(s6) = Len(s5) + Len(u32_le(V))
      BY <1>1, <1>2, <1>8, ConcatLen
    <3>2. Len(s5) = 8 + K + Y /\ Len(u32_le(V)) = 4
      BY <1>2, <1>8
    <3>3. Len(s6) = (8 + K + Y) + 4
      BY <3>1, <3>2
    <3>4. K \in Nat /\ Y \in Nat
      BY <1>1
    <3>5. (8 + K + Y) + 4 = 12 + K + Y
      BY <3>4
    <3> QED BY <3>1, <3>3, <3>5
  <2>2. Holds(s6, 8 + K + Y, u32_le(V))
    BY <1>1, <1>2, <1>8, HoldsRight
  <2>3. Holds(s6, 0, s1)
    BY <1>1, <1>2, <1>3, <1>8, HoldsLeft
  <2>4. Holds(s6, 2, u16_le(K))
    BY <1>1, <1>2, <1>8, HoldsLeft
  <2>5. Holds(s6, 4, r.keyspace)
    BY <1>1, <1>2, <1>8, HoldsLeft
  <2>6. Holds(s6, 4 + K, u32_le(Y))
    BY <1>1, <1>2, <1>8, HoldsLeft
  <2>7. Holds(s6, 8 + K, r.key)
    BY <1>1, <1>2, <1>8, HoldsLeft
  <2> QED BY <2>1, <2>2, <2>3, <2>4, <2>5, <2>6, <2>7
<1> HIDE DEF s6
<1>10. /\ s7 \in Bytes /\ Len(s7) = 12 + K + Y + V /\ Holds(s7, 0, s1)
      /\ Holds(s7, 2, u16_le(K))
      /\ Holds(s7, 4, r.keyspace)
      /\ Holds(s7, 4 + K, u32_le(Y))
      /\ Holds(s7, 8 + K, r.key)
      /\ Holds(s7, 8 + K + Y, u32_le(V))
      /\ Holds(s7, 12 + K + Y, r.value)
  <2>1. s7 \in Bytes /\ Len(s7) = 12 + K + Y + V
    <3>1. s7 \in Bytes /\ Len(s7) = Len(s6) + Len(r.value)
      BY <1>1, <1>2, <1>9, ConcatLen
    <3> QED BY <1>1, <1>2, <1>9, <3>1
  <2>2. Holds(s7, 12 + K + Y, r.value)
    BY <1>1, <1>2, <1>9, HoldsRight
  <2>3. Holds(s7, 0, s1)
    BY <1>1, <1>2, <1>3, <1>9, HoldsLeft
  <2>4. Holds(s7, 2, u16_le(K))
    BY <1>1, <1>2, <1>9, HoldsLeft
  <2>5. Holds(s7, 4, r.keyspace)
    BY <1>1, <1>2, <1>9, HoldsLeft
  <2>6. Holds(s7, 4 + K, u32_le(Y))
    BY <1>1, <1>2, <1>9, HoldsLeft
  <2>7. Holds(s7, 8 + K, r.key)
    BY <1>1, <1>2, <1>9, HoldsLeft
  <2>8. Holds(s7, 8 + K + Y, u32_le(V))
    <3> DEFINE n == 8 + K + Y
    <3>0. K \in Nat /\ Y \in Nat /\ Holds(s6, n, u32_le(V))
      BY <1>1, <1>9
    <3>1. n \in Nat /\ Holds(s6, n, u32_le(V))
      BY <3>0
    <3> HIDE DEF n
    <3>2. Holds(s7, n, u32_le(V))
      BY <1>1, <1>2, <1>9, <3>1, HoldsLeft
    <3> QED BY <3>2 DEF n
  <2> QED BY <2>1, <2>2, <2>3, <2>4, <2>5, <2>6, <2>7, <2>8
<1>11. s7[1] = r.op
  BY <1>3, <1>10 DEF Holds
<1> QED BY <1>1, <1>4, <1>10, <1>11 DEF Laid, FrameLen
(***************************************************************************)
(* Decoding.                                                               *)
(***************************************************************************)

(* The buffer begins as the frame of r does, as far as it goes.            *)
Begins(buf, r) ==
    \A i \in 1..Len(buf) : i <= FrameLen(r) => buf[i] = encode_request(r)[i]

(* What a field that has arrived is.                                       *)
LEMMA FieldArrived ==
    ASSUME NEW r \in Request, NEW buf \in Bytes, Begins(buf, r),
           NEW n \in Nat, NEW u \in Bytes, Holds(encode_request(r), n, u),
           NEW i \in 1..Len(u), n + i <= Len(buf)
    PROVE  buf[n + i] = u[i]
<1>1. Len(u) \in Nat /\ Len(buf) \in Nat
  BY LenProperties DEF Bytes
<1>2. n + i \in 1..Len(buf) /\ n + i <= FrameLen(r)
  BY <1>1, EncodedBytes DEF Holds
<1>3. buf[n + i] = encode_request(r)[n + i]
  BY <1>2 DEF Begins
<1> QED BY <1>3 DEF Holds

LEMMA FitsTypes ==
    ASSUME NEW r \in Request, Fits(r)
    PROVE  /\ KS(r) \in Nat /\ KS(r) < Base * Base
           /\ KY(r) \in Nat /\ KY(r) < Base * (Base * (Base * Base))
           /\ VL(r) \in Nat /\ VL(r) < Base * (Base * (Base * Base))
BY Sizes DEF Fits

(* The lengths a decoder reads are those that were encoded.                *)
LEMMA KeyspaceLen ==
    ASSUME NEW r \in Request, Fits(r), NEW buf \in Bytes, Begins(buf, r), HasHeader(buf)
    PROVE  keyspace_len(buf) = KS(r)
<1> DEFINE u == u16_le(KS(r))
<1>1. u \in Bytes /\ Len(u) = 2
  BY FitsTypes, LengthBytes
<1>2. Holds(encode_request(r), 2, u)
  BY EncodedBytes DEF Laid
<1>3. ASSUME NEW i \in 1..2 PROVE buf[2 + i] = u[i]
  <2>1. 2 + i <= Len(buf)
    BY LenProperties DEF HasHeader, HEADER_MIN, Bytes
  <2>2. i \in 1..Len(u)
    BY <1>1
  <2> HIDE DEF u
  <2> QED BY <1>1, <1>2, <2>1, <2>2, FieldArrived
<1> QED BY <1>3, U16Exact, FitsTypes DEF keyspace_len
LEMMA KeyLen ==
    ASSUME NEW r \in Request, Fits(r), NEW buf \in Bytes, Begins(buf, r), HasKeyLen(buf)
    PROVE  KeyLenAt(buf) = 4 + KS(r) /\ key_len(buf) = KY(r)
<1> DEFINE u == u32_le(KY(r))
           p == 4 + KS(r)
<1>1. u \in Bytes /\ Len(u) = 4
  BY FitsTypes, LengthBytes
<1>2. Holds(encode_request(r), p, u)
  BY EncodedBytes DEF Laid
<1>3. p \in Nat
  BY FitsTypes
<1>4. KeyLenAt(buf) = p
  BY KeyspaceLen DEF HasKeyLen, KeyLenAt, HEADER_MIN
<1>5. ASSUME NEW i \in 1..4 PROVE buf[p + i] = u[i]
  <2> HIDE DEF p
  <2>1. p + i <= Len(buf)
    <3>1. Len(buf) \in Nat /\ Len(buf) >= p + 4
      BY <1>4, LenProperties DEF HasKeyLen, Bytes
    <3> QED BY <1>3, <3>1
  <2>2. i \in 1..Len(u)
    BY <1>1
  <2> HIDE DEF u
  <2> QED BY <1>1, <1>2, <1>3, <2>1, <2>2, FieldArrived
<1>6. u32_from_le(buf, p) = KY(r)
  <2> HIDE DEF p
  <2> QED BY <1>3, <1>5, U32Exact, FitsTypes
<1> QED BY <1>4, <1>6 DEF key_len

LEMMA ValLen ==
    ASSUME NEW r \in Request, Fits(r), NEW buf \in Bytes, Begins(buf, r), HasValLen(buf)
    PROVE  /\ ValLenAt(buf) = 8 + KS(r) + KY(r)
           /\ val_len(buf) = VL(r)
           /\ frame_end(buf) = FrameLen(r)
<1> DEFINE u == u32_le(VL(r))
           p == 8 + KS(r) + KY(r)
<1>0. KS(r) \in Nat /\ KY(r) \in Nat /\ VL(r) \in Nat
  BY FitsTypes
<1>1. u \in Bytes /\ Len(u) = 4
  BY FitsTypes, LengthBytes
<1>2. Holds(encode_request(r), p, u)
  BY EncodedBytes DEF Laid
<1>3. p \in Nat
  BY <1>0
<1>4. ValLenAt(buf) = p
  <2>1. KeyLenAt(buf) = 4 + KS(r) /\ key_len(buf) = KY(r)
    BY KeyLen DEF HasValLen
  <2> QED BY <2>1, <1>0 DEF ValLenAt
<1>5. ASSUME NEW i \in 1..4 PROVE buf[p + i] = u[i]
  <2> HIDE DEF p
  <2>1. p + i <= Len(buf)
    <3>1. Len(buf) \in Nat /\ Len(buf) >= p + 4
      BY <1>4, LenProperties DEF HasValLen, Bytes
    <3> QED BY <1>3, <3>1
  <2>2. i \in 1..Len(u)
    BY <1>1
  <2> HIDE DEF u
  <2> QED BY <1>1, <1>2, <1>3, <2>1, <2>2, FieldArrived
<1>6. u32_from_le(buf, p) = VL(r)
  <2> HIDE DEF p
  <2> QED BY <1>3, <1>5, U32Exact, FitsTypes
<1>7. val_len(buf) = VL(r)
  BY <1>4, <1>6 DEF val_len
<1>8. frame_end(buf) = FrameLen(r)
  BY <1>0, <1>4, <1>7 DEF frame_end, FrameLen
<1> QED BY <1>4, <1>7, <1>8

(* A field cut out of a buffer is the field that was encoded.              *)
LEMMA FieldCut ==
    ASSUME NEW r \in Request, NEW buf \in Bytes, Begins(buf, r),
           NEW n \in Nat, NEW u \in Bytes, Holds(encode_request(r), n, u),
           NEW m \in Nat, m = n + 1, NEW e \in Nat, e = n + Len(u), e <= Len(buf)
    PROVE  SubSeq(buf, m, e) = u
<1>1. Len(u) \in Nat /\ Len(buf) \in Nat
  BY LenProperties DEF Bytes
<1>2. \A i \in m..e : buf[i] \in Byte
  BY <1>1, ElementOfSeq DEF Bytes
<1>3. /\ SubSeq(buf, m, e) \in Seq(Byte)
      /\ Len(SubSeq(buf, m, e)) = Len(u)
      /\ \A i \in 1..Len(u) : SubSeq(buf, m, e)[i] = buf[n + i]
  <2>1. /\ SubSeq(buf, m, e) \in Seq(Byte)
        /\ Len(SubSeq(buf, m, e)) = IF m <= e THEN e - m + 1 ELSE 0
        /\ \A i \in 1..(e - m + 1) : SubSeq(buf, m, e)[i] = buf[m + i - 1]
    BY <1>1, <1>2, SubSeqProperties
  <2> QED BY <1>1, <2>1
<1>4. ASSUME NEW i \in 1..Len(u) PROVE buf[n + i] = u[i]
  BY <1>1, FieldArrived
<1> QED BY <1>3, <1>4, SeqEqual DEF Bytes

(* What decode_one splits off is the request that was encoded, and its     *)
(* frame (codec.rs:21-89).                                                 *)
LEMMA CompleteIsSent ==
    ASSUME NEW r \in Request, Fits(r), NEW buf \in Bytes, Begins(buf, r), Complete(buf)
    PROVE  Decoded(buf) = r /\ frame_end(buf) = FrameLen(r)
<1> DEFINE K == KS(r)
           Y == KY(r)
           V == VL(r)
<1>1. K \in Nat /\ Y \in Nat /\ V \in Nat /\ Len(buf) \in Nat
  BY FitsTypes, LenProperties DEF Bytes
<1>2. /\ KeyLenAt(buf) = 4 + K /\ ValLenAt(buf) = 8 + K + Y
      /\ frame_end(buf) = 12 + K + Y + V /\ 12 + K + Y + V <= Len(buf)
  <2>1. HasValLen(buf) /\ HasKeyLen(buf) /\ Len(buf) >= frame_end(buf)
    BY DEF Complete, HasValLen
  <2> QED BY <1>1, <2>1, KeyLen, ValLen DEF FrameLen
<1>3. /\ r.keyspace \in Bytes /\ Len(r.keyspace) = K
      /\ r.key \in Bytes /\ Len(r.key) = Y
      /\ r.value \in Bytes /\ Len(r.value) = V
  BY Sizes
<1>4. /\ Holds(encode_request(r), 4, r.keyspace)
      /\ Holds(encode_request(r), 8 + K, r.key)
      /\ Holds(encode_request(r), 12 + K + Y, r.value)
  BY EncodedBytes DEF Laid
<1>5. SubSeq(buf, HEADER_MIN + 1, KeyLenAt(buf)) = r.keyspace
  <2>1. SubSeq(buf, 4 + 1, 4 + K) = r.keyspace
    <3> DEFINE n == 4
               m == 4 + 1
               e == 4 + K
    <3>1. n \in Nat /\ m \in Nat /\ m = n + 1 /\ e \in Nat /\ e <= Len(buf)
      BY <1>1, <1>2
    <3>2. e = n + Len(r.keyspace)
      BY <1>1, <1>3
    <3>3. Holds(encode_request(r), n, r.keyspace)
      BY <1>4
    <3> HIDE DEF n, m, e
    <3>4. SubSeq(buf, m, e) = r.keyspace
      BY <1>3, <3>1, <3>2, <3>3, FieldCut
    <3> QED BY <3>4 DEF m, e
  <2> QED BY <1>2, <2>1 DEF HEADER_MIN
<1>6. SubSeq(buf, KeyLenAt(buf) + 5, ValLenAt(buf)) = r.key
  <2>1. SubSeq(buf, (8 + K) + 1, 8 + K + Y) = r.key
    <3> DEFINE n == 8 + K
               m == (8 + K) + 1
               e == 8 + K + Y
    <3>1. n \in Nat /\ m \in Nat /\ m = n + 1 /\ e \in Nat /\ e <= Len(buf)
      BY <1>1, <1>2
    <3>2. e = n + Len(r.key)
      BY <1>1, <1>3
    <3>3. Holds(encode_request(r), n, r.key)
      BY <1>4
    <3> HIDE DEF n, m, e
    <3>4. SubSeq(buf, m, e) = r.key
      BY <1>3, <3>1, <3>2, <3>3, FieldCut
    <3> QED BY <3>4 DEF m, e
  <2>2. KeyLenAt(buf) + 5 = (8 + K) + 1
    BY <1>1, <1>2
  <2> QED BY <1>2, <2>1, <2>2
<1>7. SubSeq(buf, ValLenAt(buf) + 5, frame_end(buf)) = r.value
  <2>1. SubSeq(buf, (12 + K + Y) + 1, 12 + K + Y + V) = r.value
    <3> DEFINE n == 12 + K + Y
               m == (12 + K + Y) + 1
               e == 12 + K + Y + V
    <3>1. n \in Nat /\ m \in Nat /\ m = n + 1 /\ e \in Nat /\ e <= Len(buf)
      BY <1>1, <1>2
    <3>2. e = n + Len(r.value)
      BY <1>1, <1>3
    <3>3. Holds(encode_request(r), n, r.value)
      BY <1>4
    <3> HIDE DEF n, m, e
    <3>4. SubSeq(buf, m, e) = r.value
      BY <1>3, <3>1, <3>2, <3>3, FieldCut
    <3> QED BY <3>4 DEF m, e
  <2>2. ValLenAt(buf) + 5 = (12 + K + Y) + 1
    BY <1>1, <1>2
  <2> QED BY <1>2, <2>1, <2>2
<1>8. buf[1] = r.op
  <2>1. 1 <= FrameLen(r) /\ 1 \in 1..Len(buf)
    BY <1>1, <1>2 DEF FrameLen
  <2> QED BY <2>1, EncodedBytes DEF Begins, Laid
<1>9. r = [op |-> r.op, keyspace |-> r.keyspace, key |-> r.key, value |-> r.value]
  BY DEF Request
<1> QED BY <1>2, <1>5, <1>6, <1>7, <1>8, <1>9 DEF Decoded, FrameLen

(* What decode_one refuses has a field that is too long.                   *)
LEMMA MalformedTooLong ==
    ASSUME NEW r \in Request, Fits(r), NEW buf \in Bytes, Begins(buf, r), Malformed(buf)
    PROVE  TooLong(r)
<1>1. CASE HasHeader(buf) /\ keyspace_len(buf) > MAX_FRAME
  BY <1>1, KeyspaceLen DEF TooLong, KS, KY, VL
<1>2. CASE HasKeyLen(buf) /\ key_len(buf) > MAX_FRAME
  BY <1>2, KeyLen DEF TooLong, KS, KY, VL
<1>3. CASE HasValLen(buf) /\ val_len(buf) > MAX_FRAME
  BY <1>3, ValLen DEF TooLong, KS, KY, VL
<1> QED BY <1>1, <1>2, <1>3 DEF Malformed

(* Once all of a frame is there, decode_one takes it, unless a field is too*)
(* long: what encode_request wrote is decoded as it was, whatever follows  *)
(* it (codec.rs:17-89, protocol.rs:82-99).                                 *)
THEOREM RoundTrip ==
    ASSUME NEW r \in Request, Fits(r), ~TooLong(r), NEW rest \in Bytes
    PROVE  LET buf == encode_request(r) \o rest
           IN  /\ Complete(buf) /\ Decoded(buf) = r
               /\ frame_end(buf) = Len(encode_request(r))
<1> DEFINE buf == encode_request(r) \o rest
<1>1. encode_request(r) \in Bytes /\ Len(encode_request(r)) = FrameLen(r)
  BY EncodedBytes
<1>2. KS(r) \in Nat /\ KY(r) \in Nat /\ VL(r) \in Nat
  BY Sizes
<1>3. buf \in Bytes /\ Len(buf) \in Nat /\ Len(buf) >= FrameLen(r)
  <2>1. /\ buf \in Bytes /\ Len(buf) = Len(encode_request(r)) + Len(rest)
        /\ Len(encode_request(r)) \in Nat /\ Len(rest) \in Nat
    BY <1>1, ConcatBytes
  <2> HIDE DEF buf
  <2> QED BY <1>1, <2>1
<1>4. Begins(buf, r)
  <2>1. ASSUME NEW i \in 1..Len(buf), i <= FrameLen(r) PROVE buf[i] = encode_request(r)[i]
    <3>1. i \in 1..Len(encode_request(r))
      BY <1>1, <2>1
    <3> QED BY <1>1, <3>1, ConcatBytes
  <2> QED BY <2>1 DEF Begins
<1> HIDE DEF buf
<1>5. Len(buf) >= 12 + KS(r) + KY(r) + VL(r)
  BY <1>3 DEF FrameLen
<1>6. HasHeader(buf)
  BY <1>2, <1>3, <1>5 DEF HasHeader, HEADER_MIN
<1>7. HasKeyLen(buf) /\ keyspace_len(buf) = KS(r)
  <2>1. keyspace_len(buf) = KS(r)
    BY <1>3, <1>4, <1>6, KeyspaceLen
  <2> QED BY <1>2, <1>3, <1>5, <1>6, <2>1 DEF HasKeyLen, KeyLenAt, HEADER_MIN
<1>8. HasValLen(buf) /\ key_len(buf) = KY(r)
  <2>1. KeyLenAt(buf) = 4 + KS(r) /\ key_len(buf) = KY(r)
    BY <1>3, <1>4, <1>7, KeyLen
  <2>2. Len(buf) >= ValLenAt(buf) + 4
    BY <1>2, <1>3, <1>5, <2>1 DEF ValLenAt
  <2> QED BY <1>7, <2>1, <2>2 DEF HasValLen
<1>9. frame_end(buf) = FrameLen(r)
  BY <1>3, <1>4, <1>8, ValLen
<1>10. ~Malformed(buf)
  BY <1>3, <1>4, MalformedTooLong
<1>11. Complete(buf)
  BY <1>3, <1>8, <1>9, <1>10 DEF Complete
<1>12. Decoded(buf) = r
  BY <1>3, <1>4, <1>11, CompleteIsSent
<1> QED BY <1>1, <1>9, <1>11, <1>12 DEF buf

(***************************************************************************)
(* Types.                                                                  *)
(***************************************************************************)

(* The lengths in any bytes.                                               *)
LEMMA LengthsRead ==
    ASSUME NEW buf \in Bytes
    PROVE  /\ HasHeader(buf) => keyspace_len(buf) \in Nat /\ keyspace_len(buf) <= Base * Base - 1
           /\ HasKeyLen(buf) => KeyLenAt(buf) \in Nat /\ key_len(buf) \in Nat
           /\ HasValLen(buf) => ValLenAt(buf) \in Nat /\ val_len(buf) \in Nat
<1>1. Len(buf) \in Nat /\ \A i \in 1..Len(buf) : buf[i] \in Byte
  BY LenProperties, ElementOfSeq DEF Bytes
<1>2. ASSUME HasHeader(buf)
      PROVE  keyspace_len(buf) \in Nat /\ keyspace_len(buf) <= Base * Base - 1
  <2>1. buf[3] \in Byte /\ buf[4] \in Byte
    BY <1>1, <1>2 DEF HasHeader, HEADER_MIN
  <2>2. /\ buf[3] \in Nat /\ buf[3] <= Base - 1
        /\ buf[4] \in Nat /\ buf[4] <= Base - 1
    BY <2>1, BaseType DEF Byte
  <2>3. keyspace_len(buf) = buf[3] + Base * buf[4]
    BY DEF keyspace_len, u16_from_le
  <2>4. Base * buf[4] \in Nat /\ Base * buf[4] <= Base * (Base - 1)
    BY <2>2, BaseType
  <2>5. Base * (Base - 1) = Base * Base - Base
    BY BaseType
  <2> QED BY <2>2, <2>3, <2>4, <2>5, BaseType
<1>3. ASSUME NEW p \in Nat, Len(buf) >= p + 4
      PROVE  u32_from_le(buf, p) \in Nat
  <2>1. /\ buf[p + 1] \in Byte /\ buf[p + 2] \in Byte
        /\ buf[p + 3] \in Byte /\ buf[p + 4] \in Byte
    BY <1>1, <1>3
  <2>2. /\ buf[p + 1] \in Nat /\ buf[p + 2] \in Nat
        /\ buf[p + 3] \in Nat /\ buf[p + 4] \in Nat
    BY <2>1, BaseType DEF Byte
  <2> QED BY <2>2, BaseType DEF u32_from_le
<1>4. ASSUME HasKeyLen(buf) PROVE KeyLenAt(buf) \in Nat /\ key_len(buf) \in Nat
  <2>1. KeyLenAt(buf) \in Nat
    BY <1>2, <1>4 DEF HasKeyLen, KeyLenAt, HEADER_MIN
  <2> QED BY <1>3, <1>4, <2>1 DEF HasKeyLen, key_len
<1>5. ASSUME HasValLen(buf) PROVE ValLenAt(buf) \in Nat /\ val_len(buf) \in Nat
  <2>1. ValLenAt(buf) \in Nat
    BY <1>4, <1>5 DEF HasValLen, ValLenAt
  <2> QED BY <1>3, <1>5, <2>1 DEF HasValLen, val_len
<1> QED BY <1>2, <1>4, <1>5

LEMMA SubSeqBytes ==
    ASSUME NEW buf \in Bytes, NEW m \in Nat, m > 0, NEW n \in Nat, n <= Len(buf)
    PROVE  SubSeq(buf, m, n) \in Bytes
<1>1. \A i \in m..n : buf[i] \in Byte
  BY LenProperties, ElementOfSeq DEF Bytes
<1> QED BY <1>1, SubSeqProperties DEF Bytes

(* A complete frame is a request, and lies within the buffer.              *)
LEMMA DecodedType ==
    ASSUME NEW buf \in Bytes, Complete(buf)
    PROVE  /\ Decoded(buf) \in Request
           /\ frame_end(buf) \in Nat /\ frame_end(buf) > 0 /\ frame_end(buf) <= Len(buf)
<1>1. /\ HasHeader(buf) /\ HasKeyLen(buf) /\ HasValLen(buf)
      /\ frame_end(buf) <= Len(buf) /\ Len(buf) \in Nat
  BY LenProperties DEF Complete, HasValLen, HasKeyLen, Bytes
<1>2. /\ KeyLenAt(buf) \in Nat /\ ValLenAt(buf) \in Nat /\ frame_end(buf) \in Nat
      /\ KeyLenAt(buf) <= Len(buf) /\ ValLenAt(buf) <= Len(buf) /\ frame_end(buf) > 0
  BY <1>1, LengthsRead DEF HasKeyLen, HasValLen, frame_end
<1>3. SubSeq(buf, HEADER_MIN + 1, KeyLenAt(buf)) \in Bytes
  BY <1>1, <1>2, SubSeqBytes DEF HEADER_MIN
<1>4. SubSeq(buf, KeyLenAt(buf) + 5, ValLenAt(buf)) \in Bytes
  BY <1>1, <1>2, SubSeqBytes
<1>5. SubSeq(buf, ValLenAt(buf) + 5, frame_end(buf)) \in Bytes
  BY <1>1, <1>2, SubSeqBytes
<1>6. buf[1] \in Byte
  <2>1. 1 \in 1..Len(buf)
    BY <1>1 DEF HasHeader, HEADER_MIN
  <2> QED BY <2>1, ElementOfSeq DEF Bytes
<1>7. Decoded(buf) \in Request
  BY <1>3, <1>4, <1>5, <1>6 DEF Decoded, Request
<1> QED BY <1>1, <1>2, <1>7

(* What has been read and not split off.                                   *)
LEMMA Buffered ==
    ASSUME TypeOK
    PROVE  /\ in_buf \in Bytes /\ Len(in_buf) = taken - consumed
           /\ \A i \in 1..Len(in_buf) : in_buf[i] = stream[consumed + i]
<1>1. /\ stream \in Bytes /\ Len(stream) \in Nat /\ consumed \in Nat /\ taken \in Nat
      /\ consumed <= taken /\ taken <= Len(stream)
  <2>1. stream \in Bytes /\ consumed \in Nat /\ taken \in Nat /\ written \in Nat
        /\ consumed <= taken /\ taken <= written /\ written <= Len(stream)
    BY DEF TypeOK
  <2>2. Len(stream) \in Nat
    BY <2>1, LenProperties DEF Bytes
  <2> QED BY <2>1, <2>2
<1>2. \A i \in (consumed + 1)..taken : stream[i] \in Byte
  BY <1>1, ElementOfSeq DEF Bytes
<1> DEFINE m == consumed + 1
<1>3. /\ SubSeq(stream, m, taken) \in Seq(Byte)
      /\ Len(SubSeq(stream, m, taken)) = IF m <= taken THEN taken - m + 1 ELSE 0
      /\ \A i \in 1..(taken - m + 1) : SubSeq(stream, m, taken)[i] = stream[m + i - 1]
  <2>1. m \in Int /\ taken \in Int /\ \A i \in m..taken : stream[i] \in Byte
    BY <1>1, <1>2
  <2> HIDE DEF m
  <2> QED BY <2>1, SubSeqProperties
<1>4. Len(SubSeq(stream, m, taken)) = taken - consumed
  BY <1>1, <1>3
<1>5. \A i \in 1..(taken - consumed) : SubSeq(stream, m, taken)[i] = stream[consumed + i]
  BY <1>1, <1>3
<1> QED BY <1>3, <1>4, <1>5 DEF in_buf, Bytes

(* Reading leaves less in the socket buffer.                               *)
LEMMA ReadLeavesLess ==
    ASSUME NEW w \in Nat, NEW t \in Nat, NEW u \in Int, NEW room \in Nat,
           u >= t + 1, u <= w, w - t <= room
    PROVE  u \in Nat /\ w - u <= room
OBVIOUS

THEOREM InitTypes == Init => TypeOK
<1> SUFFICES ASSUME Init PROVE TypeOK
  OBVIOUS
<1>1. <<>> \in Seq(Request) /\ <<>> \in Bytes /\ Len(<<>>) = 0
  BY DEF Bytes
<1> QED BY <1>1, FramingAssumption DEF Init, TypeOK

LEMMA TypeStep == TypeOK /\ [Next]_vars => TypeOK'
<1> SUFFICES ASSUME TypeOK, [Next]_vars PROVE TypeOK'
  OBVIOUS
<1> USE FramingAssumption
<1>0. /\ stream \in Bytes /\ Len(stream) \in Nat /\ Len(requests) \in Nat /\ Len(decoded) \in Nat
      /\ requests \in Seq(Request) /\ decoded \in Seq(Request)
      /\ consumed \in Nat /\ taken \in Nat /\ written \in Nat
  BY LenProperties DEF TypeOK, Bytes
<1>1. CASE Encode
  <2> PICK r \in Sent : /\ requests' = Append(requests, r)
                        /\ stream' = stream \o encode_request(r)
    BY <1>1 DEF Encode
  <2>1. r \in Request /\ encode_request(r) \in Bytes
    BY EncodedBytes
  <2>2. /\ stream' \in Bytes /\ Len(stream') = Len(stream) + Len(encode_request(r))
        /\ Len(encode_request(r)) \in Nat
    BY <1>0, <2>1, ConcatBytes
  <2>3. requests' \in Seq(Request) /\ Len(requests') = Len(requests) + 1
    BY <1>0, <2>1
  <2>4. Len(requests') <= Length
    BY <1>0, <1>1, <2>3 DEF Encode
  <2>5. written <= Len(stream')
    BY <1>0, <2>2 DEF TypeOK
  <2> QED BY <1>1, <2>2, <2>3, <2>4, <2>5 DEF Encode, TypeOK, peer, outVars
<1>2. CASE PeerWrites
  <2>1. /\ written' \in Nat /\ taken <= written' /\ written' <= Len(stream)
        /\ written' - taken <= InRoom
    BY <1>0, <1>2 DEF PeerWrites, TypeOK
  <2> QED BY <1>2, <2>1 DEF PeerWrites, TypeOK, peer, outVars
<1>3. CASE PeerReads
  <2>1. outbound' \in 0..out_room
    BY <1>3 DEF PeerReads, TypeOK
  <2> QED BY <1>3, <2>1 DEF PeerReads, TypeOK, peer, inVars
<1>4. CASE Decode
  <2>1. in_buf \in Bytes /\ Len(in_buf) = taken - consumed
    BY Buffered
  <2>2. /\ Decoded(in_buf) \in Request /\ frame_end(in_buf) \in Nat
        /\ frame_end(in_buf) <= Len(in_buf)
    BY <1>4, <2>1, DecodedType DEF Decode
  <2>3. consumed' = consumed + frame_end(in_buf)
    BY <1>4 DEF Decode
  <2>4. consumed' \in Nat /\ consumed' <= taken
    BY <1>0, <2>1, <2>2, <2>3
  <2>5. decoded' \in Seq(Request) /\ Len(decoded') = Len(decoded) + 1
    BY <1>0, <1>4, <2>2 DEF Decode
  <2>6. batch' \in 0..MaxBatch
    BY <1>4 DEF Decode, RoomInBatch, TypeOK
  <2>7. answered \in 0..Len(decoded')
    BY <1>0, <2>5 DEF TypeOK
  <2> QED BY <1>4, <2>4, <2>5, <2>6, <2>7 DEF Decode, TypeOK, peer, inVars, outVars
<1>5. CASE Refuse
  BY <1>5 DEF Refuse, TypeOK, peer, inVars, outVars
<1>6. CASE Drained
  <2>1. CASE NeedsRead
    BY <1>6, <2>1 DEF Drained, TypeOK, peer, inVars
  <2>2. CASE ~NeedsRead
    <3> PICK s \in Reply, l \in Reply : out_buf' \in (batch * s)..(batch * l)
      BY <1>6, <2>2 DEF Drained
    <3>1. batch \in Nat /\ s \in Nat /\ batch * s \in Nat
      BY DEF TypeOK
    <3>2. out_buf' \in Nat
      BY <3>1
    <3>3. batch' = 0 /\ pc' = "write"
      BY <1>6, <2>2 DEF Drained
    <3> QED BY <1>6, <3>2, <3>3 DEF Drained, TypeOK, peer, inVars
  <2> QED BY <2>1, <2>2
<1>7. CASE Read
  <2>1. taken' \in Nat /\ consumed <= taken' /\ taken' <= written /\ written - taken' <= InRoom
    <3>1. taken' \in (taken + 1)..written
      BY <1>7 DEF Read
    <3>2. consumed <= taken /\ written - taken <= InRoom
      BY DEF TypeOK
    <3>3. taken' \in Int /\ taken' >= taken + 1 /\ taken' <= written
      BY <1>0, <3>1
    <3>4. InRoom \in Nat
      OBVIOUS
    <3>5. written \in Nat /\ taken \in Nat /\ consumed \in Nat
      BY <1>0
    <3>6. taken' \in Nat /\ written - taken' <= InRoom
      BY <3>2, <3>3, <3>4, <3>5, ReadLeavesLess
    <3>7. consumed <= taken'
      BY <3>2, <3>3, <3>5
    <3> QED BY <3>3, <3>6, <3>7
  <2> QED BY <1>7, <2>1 DEF Read, TypeOK, peer, outVars
<1>8. CASE Close
  BY <1>8 DEF Close, TypeOK, peer, inVars, outVars
<1>9. CASE Write
  <2> PICK n \in 1..out_buf : /\ outbound + n <= out_room
                              /\ outbound' = outbound + n
                              /\ out_buf' = out_buf - n
    BY <1>9 DEF Write
  <2>1. outbound' \in 0..out_room /\ out_buf' \in Nat
    BY DEF TypeOK
  <2>2. answered' \in 0..Len(decoded) /\ pc' \in {"drain", "read", "write", "refused", "closed"}
    BY <1>0, <1>9 DEF Write, TypeOK
  <2> QED BY <1>9, <2>1, <2>2 DEF Write, TypeOK, peer, inVars
<1>10. CASE UNCHANGED vars
  BY <1>10 DEF vars, TypeOK, peer, inVars, outVars
<1> QED BY <1>1, <1>2, <1>3, <1>4, <1>5, <1>6, <1>7, <1>8, <1>9, <1>10 DEF Next, Serve

(* Every variable has its type; a connection never has more requests in a  *)
(* batch than MAX_BATCH, or splits off more than it has read               *)
(* (conn.rs:44-52, 121-209).                                               *)
THEOREM TypeCorrect == Spec => []TypeOK
<1> QED BY InitTypes, TypeStep, PTL DEF Spec

(***************************************************************************)
(* Memory.                                                                 *)
(***************************************************************************)

(* Bytes in which no frame is complete and no length too large are few.    *)
LEMMA PartialIsShort ==
    ASSUME NEW buf \in Bytes, ~Complete(buf), ~Malformed(buf)
    PROVE  Len(buf) < HEADER_MIN + (Base * Base - 1) + 4 + MAX_FRAME + 4 + MAX_FRAME
<1> DEFINE most == Base * Base - 1
<1>0. Len(buf) \in Nat /\ most \in Nat /\ MAX_FRAME \in Nat
  <2>1. Len(buf) \in Nat
    BY LenProperties DEF Bytes
  <2>2. Base * Base \in Nat /\ Base * Base > 0
    BY BaseType
  <2> QED BY <2>1, <2>2, BaseType
<1>1. HasHeader(buf) => keyspace_len(buf) \in Nat /\ keyspace_len(buf) <= most
  BY LengthsRead
<1>2. HasKeyLen(buf) => key_len(buf) \in Nat /\ key_len(buf) <= MAX_FRAME
  BY <1>0, LengthsRead DEF Malformed
<1>3. HasValLen(buf) => val_len(buf) \in Nat /\ val_len(buf) <= MAX_FRAME
  BY <1>0, LengthsRead DEF Malformed
<1> HIDE DEF most
<1>4. SUFFICES Len(buf) < 4 + most + 4 + MAX_FRAME + 4 + MAX_FRAME
  BY DEF HEADER_MIN, most
<1>5. CASE ~HasHeader(buf)
  BY <1>0, <1>5 DEF HasHeader, HEADER_MIN
<1>6. CASE HasHeader(buf) /\ ~HasKeyLen(buf)
  BY <1>0, <1>1, <1>6 DEF HasKeyLen, KeyLenAt, HEADER_MIN
<1>7. CASE HasKeyLen(buf) /\ ~HasValLen(buf)
  <2>1. HasHeader(buf)
    BY <1>7 DEF HasKeyLen
  <2> QED BY <1>0, <1>1, <1>2, <1>7, <2>1 DEF HasValLen, ValLenAt, KeyLenAt, HEADER_MIN
<1>8. CASE HasValLen(buf)
  <2>1. HasHeader(buf) /\ HasKeyLen(buf) /\ Len(buf) < frame_end(buf)
    <3>1. HasHeader(buf) /\ HasKeyLen(buf) /\ ~(Len(buf) >= frame_end(buf))
      BY <1>8 DEF HasValLen, HasKeyLen, Complete
    <3>2. frame_end(buf) \in Nat
      BY <1>8, LengthsRead DEF frame_end
    <3> QED BY <1>0, <3>1, <3>2
  <2> QED BY <1>0, <1>1, <1>2, <1>3, <1>8, <2>1 DEF frame_end, ValLenAt, KeyLenAt, HEADER_MIN
<1> QED BY <1>5, <1>6, <1>7, <1>8

LEMMA MemoryStep == TypeOK /\ OneFrameBuffered /\ [Next]_vars => OneFrameBuffered'
<1> SUFFICES ASSUME TypeOK, OneFrameBuffered, [Next]_vars, pc' = "read"
             PROVE  Len(in_buf)' < HEADER_MIN + (Base * Base - 1) + 4 + MAX_FRAME + 4 + MAX_FRAME
  BY DEF OneFrameBuffered
<1>1. TypeOK'
  BY TypeStep
<1>2. Len(in_buf) = taken - consumed /\ Len(in_buf)' = taken' - consumed'
  <2>1. Len(in_buf) = taken - consumed
    BY Buffered
  <2>2. (TypeOK => Len(in_buf) = taken - consumed)'
    BY Buffered, PTL
  <2> QED BY <1>1, <2>1, <2>2
<1>3. CASE pc = "read"
  <2>1. taken' = taken /\ consumed' = consumed
    <3>1. CASE Encode BY <3>1 DEF Encode
    <3>2. CASE PeerWrites BY <3>2 DEF PeerWrites
    <3>3. CASE PeerReads BY <3>3 DEF PeerReads, inVars
    <3>4. CASE Serve BY <1>3, <3>4 DEF Serve, Decode, Refuse, Drained, Read, Write
    <3>5. CASE Close BY <3>5 DEF Close, inVars
    <3>6. CASE UNCHANGED vars BY <3>6 DEF vars, inVars
    <3> QED BY <3>1, <3>2, <3>3, <3>4, <3>5, <3>6 DEF Next
  <2> QED BY <1>2, <1>3, <2>1 DEF OneFrameBuffered
<1>4. CASE pc # "read"
  <2>1. Drained /\ NeedsRead
    <3>1. Drained
      BY <1>4 DEF Next, Serve, Encode, PeerWrites, PeerReads, Decode, Refuse, Drained,
                  Read, Write, Close, vars
    <3> QED BY <3>1 DEF Drained
  <2>2. RoomInBatch
    BY <2>1, FramingAssumption DEF NeedsRead, RoomInBatch
  <2>3. ~Complete(in_buf) /\ ~Malformed(in_buf)
    BY <2>1, <2>2 DEF Drained
  <2>4. Len(in_buf) < HEADER_MIN + (Base * Base - 1) + 4 + MAX_FRAME + 4 + MAX_FRAME
    BY <2>3, Buffered, PartialIsShort
  <2>5. taken' = taken /\ consumed' = consumed
    BY <2>1 DEF Drained, inVars
  <2> QED BY <1>2, <2>4, <2>5
<1> QED BY <1>3, <1>4

(* While it waits for bytes, a connection holds less than one frame of the *)
(* largest size, whatever it has been sent (codec.rs:32-57).               *)
THEOREM MemoryBounded == Spec => []OneFrameBuffered
<1>1. Init => OneFrameBuffered
  BY DEF Init, OneFrameBuffered
<1> QED BY <1>1, TypeCorrect, MemoryStep, PTL DEF Spec

(***************************************************************************)
(* Requests.                                                               *)
(***************************************************************************)

(* Where each frame of the stream ends.                                    *)
Cut(ends) ==
    /\ ends \in [0..Len(requests) -> Nat]
    /\ ends[0] = 0 /\ ends[Len(requests)] = Len(stream)
    /\ \A i \in 1..Len(requests) :
          /\ ends[i] = ends[i - 1] + FrameLen(requests[i]) /\ ends[i] <= Len(stream)
          /\ \A j \in 1..FrameLen(requests[i]) :
                stream[ends[i - 1] + j] = encode_request(requests[i])[j]

(* The requests decoded so far fit their fields.                           *)
Fine == \A i \in 1..Len(requests) : i <= Len(decoded) => Fits(requests[i])

(* As long as they do, what has been split off is whole frames.            *)
Aligned ==
    \E ends : /\ Cut(ends)
              /\ Fine => Len(decoded) <= Len(requests) /\ consumed = ends[Len(decoded)]

LEMMA Lengths ==
    ASSUME TypeOK
    PROVE  /\ requests \in Seq(Request) /\ Len(requests) \in Nat
           /\ decoded \in Seq(Request) /\ Len(decoded) \in Nat
           /\ stream \in Bytes /\ Len(stream) \in Nat
           /\ consumed \in Nat /\ taken \in Nat
BY LenProperties DEF TypeOK, Bytes

LEMMA FrameLenType == ASSUME NEW r \in Request PROVE FrameLen(r) \in Nat
<1>1. KS(r) \in Nat /\ KY(r) \in Nat /\ VL(r) \in Nat
  BY Sizes
<1> QED BY <1>1 DEF FrameLen

(* The buffer begins with the next request, if there is one.               *)
LEMMA NextInBuffer ==
    ASSUME TypeOK, Aligned, Fine
    PROVE  /\ Len(decoded) <= Len(requests)
           /\ Len(decoded) = Len(requests) => Len(in_buf) <= 0
           /\ Len(decoded) < Len(requests) => Begins(in_buf, requests[Len(decoded) + 1])
<1> PICK ends : Cut(ends) /\ Len(decoded) <= Len(requests) /\ consumed = ends[Len(decoded)]
  BY DEF Aligned
<1>1. ASSUME Len(decoded) = Len(requests) PROVE Len(in_buf) <= 0
  <2>1. consumed = Len(stream)
    BY <1>1 DEF Cut
  <2>2. taken <= Len(stream)
    <3>1. written \in Nat /\ taken <= written /\ written <= Len(stream)
      BY DEF TypeOK
    <3> QED BY <3>1, Lengths
  <2> QED BY <2>1, <2>2, Lengths, Buffered
<1>2. ASSUME Len(decoded) < Len(requests)
      PROVE  Begins(in_buf, requests[Len(decoded) + 1])
  <2> DEFINE k == Len(decoded) + 1
             r == requests[k]
  <2>1. k \in 1..Len(requests) /\ k - 1 = Len(decoded)
    BY <1>2, Lengths
  <2>2. r \in Request
    BY <2>1, Lengths, ElementOfSeq
  <2>3. \A j \in 1..FrameLen(r) : stream[consumed + j] = encode_request(r)[j]
    BY <2>1 DEF Cut
  <2>4. ASSUME NEW i \in 1..Len(in_buf), i <= FrameLen(r)
        PROVE  in_buf[i] = encode_request(r)[i]
    <3>1. i \in 1..FrameLen(r)
      <4>1. Len(in_buf) \in Int
        BY Lengths, Buffered
      <4> QED BY <2>2, <2>4, <4>1, FrameLenType
    <3> QED BY <2>3, <3>1, Buffered
  <2> QED BY <2>4 DEF Begins
<1> QED BY <1>1, <1>2

(* Where all requests so far fit, the next one decoded is the next sent.   *)
LEMMA DecodesNext ==
    ASSUME TypeOK, Aligned, Fine, Complete(in_buf),
           Len(decoded) < Len(requests) => Fits(requests[Len(decoded) + 1])
    PROVE  /\ Len(decoded) < Len(requests)
           /\ Decoded(in_buf) = requests[Len(decoded) + 1]
           /\ frame_end(in_buf) = FrameLen(requests[Len(decoded) + 1])
<1>1. in_buf \in Bytes /\ Len(in_buf) \in Int /\ Len(in_buf) > 0
  <2>1. in_buf \in Bytes
    BY Buffered
  <2>2. frame_end(in_buf) \in Nat /\ frame_end(in_buf) > 0 /\ frame_end(in_buf) <= Len(in_buf)
    BY <2>1, DecodedType
  <2>3. Len(in_buf) \in Nat
    BY <2>1, LenProperties DEF Bytes
  <2> QED BY <2>1, <2>2, <2>3
<1>2. Len(decoded) < Len(requests)
  BY <1>1, NextInBuffer, Lengths
<1>3. requests[Len(decoded) + 1] \in Request
  <2>1. Len(decoded) + 1 \in 1..Len(requests)
    BY <1>2, Lengths
  <2> QED BY <2>1, Lengths, ElementOfSeq
<1> QED BY <1>1, <1>2, <1>3, NextInBuffer, CompleteIsSent

LEMMA AlignedStep ==
    TypeOK /\ Aligned /\ [Next]_vars => Aligned'
<1> SUFFICES ASSUME TypeOK, Aligned, [Next]_vars PROVE Aligned'
  OBVIOUS
<1> PICK ends : /\ Cut(ends)
                /\ Fine => Len(decoded) <= Len(requests) /\ consumed = ends[Len(decoded)]
  BY DEF Aligned
<1>1. CASE Encode
  <2> PICK r \in Sent : /\ requests' = Append(requests, r)
                        /\ stream' = stream \o encode_request(r)
    BY <1>1 DEF Encode
  <2> DEFINE n == Len(requests)
  <2> PICK longer :
        longer = [i \in 0..(n + 1) |-> IF i = n + 1 THEN Len(stream) + FrameLen(r) ELSE ends[i]]
    OBVIOUS
  <2>1. /\ r \in Request /\ FrameLen(r) \in Nat
        /\ encode_request(r) \in Bytes /\ Len(encode_request(r)) = FrameLen(r)
    BY FramingAssumption, FrameLenType, EncodedBytes
  <2>2. /\ n \in Nat /\ Len(requests') = n + 1 /\ requests'[n + 1] = r
        /\ \A i \in 1..n : requests'[i] = requests[i] /\ requests[i] \in Request
    BY <2>1, Lengths, AppendProperties, ElementOfSeq
  <2>3. /\ Len(stream) \in Nat /\ Len(stream') = Len(stream) + FrameLen(r)
        /\ \A i \in 1..Len(stream) : stream'[i] = stream[i]
        /\ \A j \in 1..FrameLen(r) : stream'[Len(stream) + j] = encode_request(r)[j]
    <3>1. stream \in Bytes /\ Len(stream) \in Nat
      BY Lengths
    <3>2. /\ Len(stream \o encode_request(r)) = Len(stream) + Len(encode_request(r))
          /\ \A i \in 1..Len(stream) : (stream \o encode_request(r))[i] = stream[i]
          /\ \A j \in 1..Len(encode_request(r)) :
                (stream \o encode_request(r))[Len(stream) + j] = encode_request(r)[j]
      BY <2>1, <3>1, ConcatBytes
    <3> QED BY <2>1, <3>1, <3>2
  <2>4. longer \in [0..(n + 1) -> Nat] /\ longer[n + 1] = Len(stream')
    BY <2>1, <2>2, <2>3 DEF Cut
  <2>5. \A i \in 0..n : longer[i] = ends[i]
    BY <2>2
  <2>6. ends[0] = 0 /\ ends[n] = Len(stream)
    BY DEF Cut
  <2>7. ASSUME NEW i \in 1..(n + 1)
        PROVE  /\ longer[i] = longer[i - 1] + FrameLen(requests'[i])
               /\ longer[i] <= Len(stream')
               /\ \A j \in 1..FrameLen(requests'[i]) :
                     stream'[longer[i - 1] + j] = encode_request(requests'[i])[j]
    <3>1. CASE i = n + 1
      <4>1. longer[i - 1] = Len(stream) /\ longer[i] = Len(stream) + FrameLen(r)
        BY <3>1, <2>2, <2>3, <2>4, <2>5, <2>6
      <4>2. requests'[i] = r
        BY <3>1, <2>2
      <4>3. longer[i] <= Len(stream')
        BY <4>1, <2>1, <2>3
      <4> QED BY <4>1, <4>2, <4>3, <2>3
    <3>2. CASE i # n + 1
      <4>1. /\ i \in 1..n /\ i \in 0..n /\ i - 1 \in 0..n
            /\ requests'[i] = requests[i] /\ requests[i] \in Request
        BY <3>2, <2>2
      <4>2. /\ ends[i] = ends[i - 1] + FrameLen(requests[i])
            /\ \A j \in 1..FrameLen(requests[i]) :
                  stream[ends[i - 1] + j] = encode_request(requests[i])[j]
            /\ ends[i - 1] \in Nat /\ ends[i] <= Len(stream)
        BY <4>1 DEF Cut
      <4>3. FrameLen(requests[i]) \in Nat
        BY <4>1, FrameLenType
      <4>4. ASSUME NEW j \in 1..FrameLen(requests[i])
            PROVE  stream'[ends[i - 1] + j] = encode_request(requests[i])[j]
        <5>1. ends[i - 1] + j \in 1..Len(stream)
          BY <4>2, <4>3, <2>3
        <5> QED BY <5>1, <4>2, <2>3
      <4>5. longer[i] = ends[i] /\ longer[i - 1] = ends[i - 1] /\ longer[i] <= Len(stream')
        <5>1. longer[i] = ends[i] /\ longer[i - 1] = ends[i - 1] /\ ends[i] \in Nat
          BY <4>1, <2>5 DEF Cut
        <5> QED BY <5>1, <4>2, <2>1, <2>3
      <4> QED BY <4>1, <4>2, <4>4, <4>5
    <3> QED BY <3>1, <3>2
  <2>8. Cut(longer)'
    <3>1. longer[0] = 0
      BY <2>2, <2>5, <2>6
    <3>2. longer \in [0..Len(requests') -> Nat] /\ longer[Len(requests')] = Len(stream')
      BY <2>2, <2>4
    <3>3. 1..Len(requests') = 1..(n + 1)
      BY <2>2
    <3>4. ASSUME NEW i \in 1..Len(requests')
          PROVE  /\ longer[i] = longer[i - 1] + FrameLen(requests'[i])
                 /\ longer[i] <= Len(stream')
                 /\ \A j \in 1..FrameLen(requests'[i]) :
                       stream'[longer[i - 1] + j] = encode_request(requests'[i])[j]
      <4>1. i \in 1..(n + 1)
        BY <3>3
      <4> HIDE DEF n
      <4> QED BY <4>1, <2>7
    <3> HIDE DEF n
    <3> QED BY <3>1, <3>2, <3>4 DEF Cut
  <2>9. decoded' = decoded /\ consumed' = consumed
    BY <1>1 DEF Encode
  <2>10. ASSUME Fine'
         PROVE  Len(decoded) <= Len(requests') /\ consumed = longer[Len(decoded)]
    <3>1. Fine
      <4>1. ASSUME NEW i \in 1..n, i <= Len(decoded) PROVE Fits(requests[i])
        <5>1. i \in 1..Len(requests') /\ requests'[i] = requests[i] /\ i <= Len(decoded')
          BY <4>1, <2>2, <2>9
        <5>2. Fits(requests'[i])
          BY <5>1, <2>10 DEF Fine
        <5> QED BY <5>1, <5>2
      <4> QED BY <4>1 DEF Fine
    <3>2. Len(decoded) \in 0..n /\ consumed = ends[Len(decoded)]
      BY <3>1, Lengths
    <3> QED BY <3>2, <2>2, <2>5
  <2>11. Fine' => Len(decoded)' <= Len(requests)' /\ consumed' = longer[Len(decoded)']
    BY <2>9, <2>10
  <2> QED BY <2>8, <2>11 DEF Aligned
<1>2. CASE Decode
  <2>1. requests' = requests /\ stream' = stream
    BY <1>2 DEF Decode, inVars
  <2>2. /\ Complete(in_buf) /\ consumed' = consumed + frame_end(in_buf)
        /\ Len(decoded') = Len(decoded) + 1
    <3>1. in_buf \in Bytes
      BY Buffered
    <3>2. Decoded(in_buf) \in Request
      BY <1>2, <3>1, DecodedType DEF Decode
    <3> QED BY <1>2, <3>2, Lengths, AppendProperties DEF Decode
  <2>3. ASSUME Fine'
        PROVE  Len(decoded') <= Len(requests) /\ consumed' = ends[Len(decoded')]
    <3>1. Fine /\ (Len(decoded) < Len(requests) => Fits(requests[Len(decoded) + 1]))
      BY <2>1, <2>2, <2>3, Lengths DEF Fine
    <3>2. /\ Len(decoded) < Len(requests)
          /\ frame_end(in_buf) = FrameLen(requests[Len(decoded) + 1])
      BY <2>2, <3>1, DecodesNext
    <3> DEFINE k == Len(decoded) + 1
    <3>3. k \in 1..Len(requests) /\ k - 1 = Len(decoded)
      BY <3>2, Lengths
    <3>4. ends[k] = ends[k - 1] + FrameLen(requests[k])
      BY <3>3 DEF Cut
    <3>5. consumed = ends[Len(decoded)]
      BY <3>1
    <3> QED BY <2>2, <3>2, <3>3, <3>4, <3>5
  <2>4. Cut(ends)'
    BY <2>1 DEF Cut
  <2> QED BY <2>1, <2>3, <2>4 DEF Aligned
<1>3. CASE UNCHANGED <<requests, stream, decoded, consumed>>
  BY <1>3 DEF Aligned, Cut, Fine
<1> QED BY <1>1, <1>2, <1>3 DEF Next, Serve, PeerWrites, PeerReads, Refuse, Drained, Read,
                               Write, Close, vars, inVars

LEMMA SentStep ==
    TypeOK /\ Aligned /\ DecodedAsSent /\ [Next]_vars => DecodedAsSent'
<1> SUFFICES ASSUME TypeOK, Aligned, DecodedAsSent, [Next]_vars PROVE DecodedAsSent'
  OBVIOUS
<1>0. /\ Len(requests) \in Nat /\ Len(decoded) \in Nat /\ requests \in Seq(Request)
      /\ decoded \in Seq(Request)
  BY Lengths
<1>1. CASE Encode
  <2> PICK r \in Sent : requests' = Append(requests, r)
    BY <1>1 DEF Encode
  <2>1. /\ Len(requests') = Len(requests) + 1
        /\ \A i \in 1..Len(requests) : requests'[i] = requests[i]
    BY <1>0, FramingAssumption, AppendProperties
  <2>2. decoded' = decoded /\ pc' = pc /\ pc # "refused"
    BY <1>1 DEF Encode, Open
  <2>3. ASSUME NEW i \in 1..Len(decoded), FitUpTo(i)' PROVE decoded[i] = requests'[i]
    <3>1. CASE i <= Len(requests)
      <4>1. FitUpTo(i)
        BY <3>1, <2>1, <2>3, <1>0 DEF FitUpTo
      <4> QED BY <3>1, <4>1, <2>1, <1>0 DEF DecodedAsSent
    <3>2. CASE i > Len(requests)
      <4>1. \A j \in 1..Len(requests) : Fits(requests[j])
        BY <3>2, <2>1, <2>3, <1>0 DEF FitUpTo
      <4>2. Len(decoded) <= Len(requests)
        BY <4>1, NextInBuffer DEF Fine
      <4> QED BY <3>2, <4>2, <1>0
    <3>3. i <= Len(requests) \/ i > Len(requests)
      BY <1>0
    <3> QED BY <3>1, <3>2, <3>3
  <2> QED BY <2>2, <2>3 DEF DecodedAsSent
<1>2. CASE Decode
  <2>1. in_buf \in Bytes /\ Complete(in_buf)
    BY <1>2, Buffered DEF Decode
  <2>2. Decoded(in_buf) \in Request
    BY <2>1, DecodedType
  <2>3. /\ requests' = requests /\ pc' = pc /\ pc # "refused"
        /\ Len(decoded') = Len(decoded) + 1 /\ decoded'[Len(decoded) + 1] = Decoded(in_buf)
        /\ \A i \in 1..Len(decoded) : decoded'[i] = decoded[i]
    BY <1>0, <1>2, <2>2, AppendProperties DEF Decode, inVars
  <2>4. ASSUME NEW i \in 1..(Len(decoded) + 1), FitUpTo(i) PROVE decoded'[i] = requests[i]
    <3>1. CASE i <= Len(decoded)
      BY <3>1, <2>3, <2>4, <1>0 DEF DecodedAsSent
    <3>2. CASE i = Len(decoded) + 1
      <4>1. Fine /\ Fits(requests[Len(decoded) + 1])
        BY <3>2, <2>4, <1>0 DEF FitUpTo, Fine
      <4> QED BY <3>2, <4>1, <2>1, <2>3, DecodesNext
    <3> QED BY <3>1, <3>2, <1>0
  <2>5. \A i : FitUpTo(i)' <=> FitUpTo(i)
    BY <2>3 DEF FitUpTo
  <2> QED BY <2>3, <2>4, <2>5 DEF DecodedAsSent
<1>3. CASE Refuse
  <2>1. /\ requests' = requests /\ decoded' = decoded /\ Malformed(in_buf) /\ in_buf \in Bytes
    BY <1>3, Buffered DEF Refuse, inVars
  <2>2. ASSUME FitUpTo(Len(decoded) + 1) PROVE TooLong(requests[Len(decoded) + 1])
    <3>1. Fine /\ Fits(requests[Len(decoded) + 1]) /\ Len(decoded) < Len(requests)
      BY <2>2, <1>0 DEF FitUpTo, Fine
    <3>2. requests[Len(decoded) + 1] \in Request
      <4>1. Len(decoded) + 1 \in 1..Len(requests)
        BY <3>1, <1>0
      <4> QED BY <4>1, <1>0, ElementOfSeq
    <3> QED BY <3>1, <3>2, <2>1, NextInBuffer, MalformedTooLong
  <2>3. \A i : FitUpTo(i)' <=> FitUpTo(i)
    BY <2>1 DEF FitUpTo
  <2> QED BY <2>1, <2>2, <2>3 DEF DecodedAsSent
<1>4. CASE requests' = requests /\ decoded' = decoded /\ (pc' = "refused" => pc = "refused")
  <2>1. \A i : FitUpTo(i)' <=> FitUpTo(i)
    BY <1>4 DEF FitUpTo
  <2> QED BY <1>4, <2>1 DEF DecodedAsSent
<1>5. CASE PeerWrites \/ PeerReads \/ Drained \/ Read \/ Write \/ Close \/ UNCHANGED vars
  <2>1. requests' = requests /\ decoded' = decoded
    BY <1>5 DEF PeerWrites, PeerReads, Drained, Read, Write, Close, vars, inVars
  <2>2. pc' = "refused" => pc = "refused"
    BY <1>5 DEF PeerWrites, PeerReads, Drained, Read, Write, Close, vars
  <2> QED BY <1>4, <2>1, <2>2
<1> QED BY <1>1, <1>2, <1>3, <1>5 DEF Next, Serve

(* However the bytes are cut into reads, every request decoded is the one  *)
(* that was encoded in its place, and none is refused that a node could    *)
(* take (codec.rs:15-89, protocol.rs:82-99, conn.rs:121-158).              *)
THEOREM AlwaysDecodedAsSent == Spec => []DecodedAsSent
<1>1. Init => Aligned /\ DecodedAsSent
  <2> SUFFICES ASSUME Init PROVE Aligned /\ DecodedAsSent
    OBVIOUS
  <2> DEFINE none == [i \in 0..0 |-> 0]
  <2>1. Len(requests) = 0 /\ Len(stream) = 0 /\ Len(decoded) = 0 /\ consumed = 0 /\ pc = "drain"
    BY DEF Init
  <2>2. Cut(none)
    BY <2>1 DEF Cut
  <2>3. none[0] = 0
    OBVIOUS
  <2>4. Aligned
    BY <2>1, <2>2, <2>3 DEF Aligned
  <2> QED BY <2>1, <2>4 DEF DecodedAsSent
<1> QED BY <1>1, TypeCorrect, AlignedStep, SentStep, PTL DEF Spec
=============================================================================
