------------------------------ MODULE MCSizing -----------------------------
(***************************************************************************)
(* Small machines and configurations for Sizing.  Memory is counted in     *)
(* units of 64 KB, so 1 MB is 16 and 64 GB is 2^20.                        *)
(***************************************************************************)
EXTENDS Sizing

MCMb == 16
MCWordSize == 2^28

(* One core, a count that is no power of two, one that is, and one more    *)
(* than the largest count 512 shards serve.                                *)
MCCores == {1, 3, 8, 129}

(* Too small for any cache, at the edges of the headroom and of the        *)
(* smallest cache worth having, where the share binds instead, and large.  *)
MCMemory == {n * MCMb : n \in {128, 256, 320, 512, 65536}}

(* Nothing, fewer megabytes than shards, one per shard, and plenty.        *)
MCExplicit == {0, 1, 5, 64, 1000}

(* Past the largest capacity in megabytes, and past 4 * 129 shards.        *)
MCPowersOfTwo == {2^i : i \in 0..20}
=============================================================================
