--------------------------- MODULE MCChainSwitch ---------------------------
(***************************************************************************)
(* Small block trees for ChainSwitch.                                      *)
(***************************************************************************)
EXTENDS ChainSwitch, TLC

\* Three branches, g-m1-m2-m3, m1-n2-n3 and g-a1-a2 with the ends a3, b3 and c3-c4.
\* Blocks of the same height weigh the same or, n3 and b3, more; n3 outweighs c4 as well.
\* m1 and a1 hold the same transaction, t2 and t3 spend the same key image (so a3 double
\* spends), the ring of t4 refers to an output of m1, and b3 is unsound.
TreeBlocks == {"g", "m1", "m2", "m3", "n2", "n3", "a1", "a2", "a3", "b3", "c3", "c4"}
TreeParent == ("m1" :> "g") @@ ("m2" :> "m1") @@ ("m3" :> "m2") @@ ("n2" :> "m1")
              @@ ("n3" :> "n2") @@ ("a1" :> "g") @@ ("a2" :> "a1") @@ ("a3" :> "a2")
              @@ ("b3" :> "a2") @@ ("c3" :> "a2") @@ ("c4" :> "c3")
TreeHeight == ("g" :> 0) @@ ("m1" :> 1) @@ ("m2" :> 2) @@ ("m3" :> 3) @@ ("n2" :> 2)
              @@ ("n3" :> 3) @@ ("a1" :> 1) @@ ("a2" :> 2) @@ ("a3" :> 3)
              @@ ("b3" :> 3) @@ ("c3" :> 3) @@ ("c4" :> 4)
TreeWork == ("g" :> 1) @@ ("m1" :> 3) @@ ("m2" :> 5) @@ ("m3" :> 7) @@ ("n2" :> 5)
            @@ ("n3" :> 10) @@ ("a1" :> 3) @@ ("a2" :> 5) @@ ("a3" :> 7)
            @@ ("b3" :> 8) @@ ("c3" :> 7) @@ ("c4" :> 9)
TreeTxs == {"t1", "t2", "t3", "t4"}
TreeTxsOf == ("g" :> {}) @@ ("m1" :> {"t1"}) @@ ("m2" :> {"t2"}) @@ ("m3" :> {})
             @@ ("n2" :> {"t3"}) @@ ("n3" :> {"t4"}) @@ ("a1" :> {"t1"})
             @@ ("a2" :> {"t3"}) @@ ("a3" :> {"t2"}) @@ ("b3" :> {}) @@ ("c3" :> {})
             @@ ("c4" :> {})
TreeKeyImages == ("t1" :> {"k1"}) @@ ("t2" :> {"k2"}) @@ ("t3" :> {"k2"})
                 @@ ("t4" :> {"k4"})
TreeUses == ("t1" :> {"g"}) @@ ("t2" :> {"g"}) @@ ("t3" :> {"g"})
            @@ ("t4" :> {"m1"})
TreeUnsound == {"b3"}
TreeNetwork == <<"a1", "a2", "c3", "c4">>

\* A fork with two transactions: m1 and a1 share t1, t2 is in m2; a3 comes when a2 has
\* already caused a switch.
ForkBlocks == {"g", "m1", "m2", "a1", "a2", "a3"}
ForkParent == ("m1" :> "g") @@ ("m2" :> "m1") @@ ("a1" :> "g") @@ ("a2" :> "a1")
              @@ ("a3" :> "a2")
ForkHeight == ("g" :> 0) @@ ("m1" :> 1) @@ ("m2" :> 2) @@ ("a1" :> 1) @@ ("a2" :> 2)
              @@ ("a3" :> 3)
ForkWork == ("g" :> 1) @@ ("m1" :> 2) @@ ("m2" :> 3) @@ ("a1" :> 2) @@ ("a2" :> 4)
            @@ ("a3" :> 5)
ForkTxs == {"t1", "t2"}
ForkTxsOf == ("g" :> {}) @@ ("m1" :> {"t1"}) @@ ("m2" :> {"t2"}) @@ ("a1" :> {"t1"})
             @@ ("a2" :> {}) @@ ("a3" :> {})
ForkKeyImages == ("t1" :> {"k1"}) @@ ("t2" :> {"k2"})
ForkUses == ("t1" :> {"g"}) @@ ("t2" :> {"m1"})
ForkNetwork == <<"a1", "a2">>

NoCheckpoints == <<>>

\* A checkpoint on the third branch, which has the least work.
OneCheckpoint == (3 :> "c3")
LightWork == [TreeWork EXCEPT !["m1"] = 20, !["m2"] = 22, !["m3"] = 24,
                              !["n2"] = 22, !["n3"] = 24]

\* The same where no other branch comes up to the checkpoint; m1, d1 and a1 share t1, so
\* a switch always finds its transactions; d1 is the heaviest, a3 is not the checkpoint.
EarlyBlocks == {"g", "m1", "d1", "a1", "a2", "a3", "c3", "c4"}
EarlyParent == ("d1" :> "g") @@ [b \in EarlyBlocks \ {"g", "d1"} |-> TreeParent[b]]
EarlyHeight == ("d1" :> 1) @@ [b \in EarlyBlocks \ {"d1"} |-> TreeHeight[b]]
EarlyWork == ("d1" :> 21) @@ [b \in EarlyBlocks \ {"d1"} |-> LightWork[b]]
EarlyTxs == {"t1"}
EarlyTxsOf == [b \in EarlyBlocks |-> IF b \in {"m1", "d1", "a1"} THEN {"t1"} ELSE {}]
EarlyUses == ("t1" :> {"g"})
=============================================================================
