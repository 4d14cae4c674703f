------------------------------- MODULE Chains -------------------------------
(***************************************************************************)
(* Chains of blocks as sequences, genesis first: the block at height h is  *)
(* chain[h + 1] and the chain height, the next block's, is Len(chain).     *)
(***************************************************************************)
EXTENDS Naturals, Sequences

Tip(chain) == chain[Len(chain)]

DropTip(chain) == SubSeq(chain, 1, Len(chain) - 1)

\* chain cut to its first n blocks.
CutTo(chain, n) == IF Len(chain) > n THEN SubSeq(chain, 1, n) ELSE chain

BlocksOf(chain) == {chain[i] : i \in 1 .. Len(chain)}

\* base is where chain starts.
StartsWith(chain, base) ==
  /\ Len(base) <= Len(chain)
  /\ SubSeq(chain, 1, Len(base)) = base
=============================================================================
