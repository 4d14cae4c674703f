--------------------------- MODULE MCSyncProtocol ---------------------------
(***************************************************************************)
(* A small block tree for SyncProtocol: g-a1-a2-a3 and a branch g-b1 that  *)
(* is shorter than g-a1-a2 and heavier.                                    *)
(***************************************************************************)
EXTENDS SyncProtocol, TLC

CONSTANTS p, q

Peers == {p, q}
PeersAlike == Permutations(Peers)

TreeBlocks == {"g", "a1", "a2", "a3", "b1"}
TreeChainOf == ("g" :> <<"g">>) @@ ("a1" :> <<"g", "a1">>) @@ ("a2" :> <<"g", "a1", "a2">>)
               @@ ("a3" :> <<"g", "a1", "a2", "a3">>) @@ ("b1" :> <<"g", "b1">>)
TreeWork == ("g" :> 1) @@ ("a1" :> 2) @@ ("a2" :> 3) @@ ("b1" :> 4) @@ ("a3" :> 5)
=============================================================================
