----------------------------- MODULE MCFraming -----------------------------
(***************************************************************************)
(* Framing with bytes of two values, so that lengths reach the ends of     *)
(* their fields.                                                           *)
(***************************************************************************)
EXTENDS Framing

Req(op, keyspace, key, value) ==
    [op |-> op, keyspace |-> keyspace, key |-> key, value |-> value]

(* No keyspace and no value; every field full; a value beyond MAX_FRAME;   *)
(* a keyspace whose length does not fit its field, so that the bytes after *)
(* it are read as a key's length, which is beyond MAX_FRAME.               *)
MCSent ==
    { Req(1, <<>>, <<1>>, <<>>), Req(0, <<1, 0, 0>>, <<0, 1, 1>>, <<1, 1, 0>>),
      Req(1, <<1, 1, 1>>, <<1, 0, 1>>, <<1, 0, 1, 0, 1, 0, 1, 0>>),
      Req(1, <<1, 1, 1, 1>>, <<0>>, <<>>) }
=============================================================================
