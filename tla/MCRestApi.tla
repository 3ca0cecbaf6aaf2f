----------------------------- MODULE MCRestApi -----------------------------
(***************************************************************************)
(* The requests and settings RestApi is checked on.                        *)
(***************************************************************************)
EXTENDS RestApi, TLC

CONSTANTS c1, c2

Req(door, op, key, ttl, header, query, body) ==
    [door |-> door, op |-> op, key |-> key, ttl |-> ttl, header |-> header,
     query |-> query, body |-> body, size |-> 1]

RestReq(op, key, ttl, body) == Req("rest", op, key, ttl, ApiKey, Absent, body)

(* Every kind of TTL; reads and deletes; the key in the header, in the     *)
(* query, or nowhere; a body over one limit and under the other; the empty *)
(* key; the wire.                                                          *)
MCRequest ==
    { RestReq("SET", "k", 0, 1), RestReq("SET", "k", 1, 1),
      RestReq("SET", "k", 5, 1), RestReq("SET", "k", Absent, 3),
      RestReq("GET", "k", Absent, 0), RestReq("GET", "", Absent, 0),
      RestReq("DEL", "k", Absent, 0),
      Req("rest", "SET", "k", 1, Absent, Absent, 1),
      Req("rest", "GET", "k", Absent, Absent, ApiKey, 0),
      Req("rest", "PROBE", "", Absent, Absent, Absent, 0),
      Req("wire", "SET", "k", Absent, Absent, Absent, 1),
      Req("wire", "GET", "", Absent, Absent, Absent, 0) }

MCKeyLen == [k \in Key |-> IF k = "" THEN 0 ELSE 1]

(* Before the epoch, the instant an entry written then dies of a TTL of    *)
(* one second, and one by which an entry written at that instant has died. *)
MCWallTime == {-1, 1000, 2500}

(* Every expiry the clock readings and TTLs lead to, the widest, and what  *)
(* the sums beyond that would be, kept whole or wrapped.                   *)
MCExpiry ==
    LET sums == {t + 1000 * s : t \in {0, 1000, 2500}, s \in {1, 5}}
    IN  {0} \cup sums \cup {n % (MaxMillis + 1) : n \in sums}

Symmetry == Permutations(Client)
=============================================================================
