---------------------------- MODULE MCChainStore ----------------------------
(* Small instances of ChainStore: a genesis block and two old blocks that a   *)
(* syncing node fetches, and one recent block.                                *)
EXTENDS ChainStore, TLC

CONSTANTS g, o1, o2, f1

MCBlocks == {g, o1, o2, f1}
MCTimestamp == (g :> 0) @@ (o1 :> 1) @@ (o2 :> 1) @@ (f1 :> 3)
=============================================================================
