----------------------------- MODULE MCWireConn ----------------------------
(***************************************************************************)
(* The streams of a few requests that WireConn is checked on.              *)
(***************************************************************************)
EXTENDS WireConn

Req(op, keyspace, value, big) ==
    [op |-> op, keyspace |-> keyspace, value |-> value, big |-> big]

(* The right key, the wrong one and none, every operation on the default   *)
(* keyspace by either of its names, another keyspace, one that does not    *)
(* exist, an oversized key, an unknown operation and a frame no decoder    *)
(* accepts.                                                                *)
MCFrame ==
    { Req("AUTH", Nothing, ApiKey, FALSE), Req("AUTH", Nothing, "wrong", FALSE),
      Req("AUTH", Nothing, NoKey, FALSE),
      Req("SET", Nothing, "v1", FALSE), Req("SET", "other", "v2", FALSE),
      Req("SET", Default, "v3", TRUE),
      Req("GET", Nothing, NoKey, FALSE), Req("GET", Default, NoKey, FALSE),
      Req("GET", "other", NoKey, FALSE), Req("GET", "ghost", NoKey, FALSE),
      Req("DEL", Default, NoKey, FALSE), Req("PING", Nothing, NoKey, FALSE),
      Req("malformed", Nothing, NoKey, FALSE), Req("unknown", Nothing, NoKey, FALSE) }
=============================================================================
