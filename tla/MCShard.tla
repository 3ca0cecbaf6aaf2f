------------------------------ MODULE MCShard ------------------------------
(***************************************************************************)
(* Small instances of Shard.                                               *)
(***************************************************************************)
EXTENDS ShardContract, TLC

CONSTANTS k1, k2, k3, c1, c2

(* Key k2 is longer than the others: with it an entry costs more than the  *)
(* whole budget of an instance with Capacity = 4.                          *)
MCKeyLen == [k \in Key |-> IF k = k2 THEN 3 ELSE 0]

(* Keys of one length.                                                     *)
MCSameLen == [k \in Key |-> 0]

(* Clients are alike.                                                      *)
Symmetry == Permutations(Client)
=============================================================================
