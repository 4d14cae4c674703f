------------------------- MODULE MCTransactionPool -------------------------
(***************************************************************************)
(* Small pools for TransactionPool.                                        *)
(***************************************************************************)
EXTENDS TransactionPool, TLC

\* t1 and t2 share a key image; t3 spends the other one of t2.
SomeTxs == {"t1", "t2", "t3"}
SomeInputs == ("t1" :> <<"k1">>) @@ ("t2" :> <<"k1", "k2">>) @@ ("t3" :> <<"k2">>)
SomePriority == ("t1" :> 2) @@ ("t2" :> 1) @@ ("t3" :> 3)
SomeUses == ("t1" :> {}) @@ ("t2" :> {}) @@ ("t3" :> {"b1"})

\* Two branches: one confirms t1, the other t2; t3 refers to an output of the first.
SomeBlocks == {"g", "b1", "b2", "b3"}
SomeParent == ("b1" :> "g") @@ ("b2" :> "g") @@ ("b3" :> "b1")
SomeTxsOf == ("g" :> {}) @@ ("b1" :> {"t1"}) @@ ("b2" :> {"t2"}) @@ ("b3" :> {"t3"})

\* Two transactions that share a key image, each in a block of its own branch.
TwoTxs == {"t1", "t2"}
TwoInputs == [t \in TwoTxs |-> SomeInputs[t]]
TwoPriority == [t \in TwoTxs |-> SomePriority[t]]
TwoUses == [t \in TwoTxs |-> {}]
TwoBlocks == {"g", "b1", "b2"}
TwoParent == ("b1" :> "g") @@ ("b2" :> "g")
TwoTxsOf == ("g" :> {}) @@ ("b1" :> {"t1"}) @@ ("b2" :> {"t2"})
=============================================================================
