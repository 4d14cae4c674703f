---------------------------- MODULE ChainSwitch ----------------------------
(***************************************************************************)
(* How class Blockchain adds blocks, keeps alternative chains and switches *)
(* to one of them.  The main chain lives in the storage whose promises are *)
(* in ChainLog: its last m_batchCount blocks are lost when a put fails.    *)
(* Blocks that leave the main chain give their transactions back to the    *)
(* pool, blocks that join it take theirs from there.                       *)
(*                                                                         *)
(* addNewBlock holds the locks of the pool and of the chain to its end, so *)
(* nothing but a crash or a failing LMDB call comes between the steps of a *)
(* switch.  Blocks are the ones that pass the checks which depend on the   *)
(* block and its ancestors alone (version, timestamp, proof of work,       *)
(* signature); the others change nothing.                                  *)
(***************************************************************************)
EXTENDS Chains, Checkpoints

CONSTANTS
  Blocks, Genesis,
  Parent,         \* previousBlockHash, of every block but Genesis
  Height,         \* the height a block is built for
  CumDifficulty,  \* cumulative difficulty of a block and its ancestors
  Txs,
  TxsOf,          \* the transactions of a block, the coinbase left out
  KeyImages,      \* KeyImages[t]: the key images transaction t spends
  Uses,           \* Uses[t]: the blocks whose outputs its rings refer to
  Unsound,        \* the blocks only pushBlock finds wrong (size, miner reward)
  BatchSize,      \* BATCH_SIZE
  Network,        \* the chain the peers are on and keep sending
  Faults,         \* the failures that may happen ...
  MaxFaults       \* ... and how many of them

ASSUME TreeAssumption ==
  /\ Genesis \in Blocks /\ BlocksOf(Network) \subseteq Blocks
  /\ Parent \in [Blocks \ {Genesis} -> Blocks]
  /\ Height \in [Blocks -> Nat] /\ Height[Genesis] = 0
  /\ CumDifficulty \in [Blocks -> Nat]
  /\ \A b \in Blocks \ {Genesis} :
       /\ Height[b] = Height[Parent[b]] + 1
       /\ CumDifficulty[b] > CumDifficulty[Parent[b]]
  /\ TxsOf \in [Blocks -> SUBSET Txs]
  /\ Uses \in [Txs -> SUBSET Blocks]
  /\ Unsound \subseteq Blocks
  /\ BatchSize \in Nat \ {0} /\ MaxFaults \in Nat
  /\ Faults \subseteq {"push", "sync", "flush", "throw", "crash"}

VARIABLES
  main,          \* the main chain
  m_batchCount,  \* how many of its last blocks are not committed
  alts,          \* m_alternative_chains, and m_orphanBlocksIndex beside it
  pool,          \* the transactions of m_tx_pool
  sw,            \* the switch in progress
  heard,         \* the chain a reader of the message queues has put together
  faults         \* the failures so far

vars == <<main, m_batchCount, alts, pool, sw, heard, faults>>

\* No switch.  In one, alt is the alternative chain, next the position in it of the block
\* to connect, gone the blocks disconnected, back how many of them are connected again,
\* old the main chain when the switch began.
Idle == [at |-> "idle", alt |-> <<>>, next |-> 1, split |-> 0, gone |-> <<>>, back |-> 0,
         discard |-> FALSE, old |-> <<>>]

Init ==
  /\ main = <<Genesis>> /\ m_batchCount = 0
  /\ alts = {} /\ pool = {}
  /\ sw = Idle
  /\ heard = main
  /\ faults = 0

TxsIn(blocks) == UNION {TxsOf[b] : b \in blocks}

SpentBy(txs) == UNION {KeyImages[t] : t \in txs}

haveBlock(b) == b \in BlocksOf(main) \/ b \in alts

\* Transactions that may not stand in one chain.
Conflict(t, u) == t # u /\ KeyImages[t] \cap KeyImages[u] # {}

\* Mutant: key images already spent in the chain are not looked up.
TransactionsFitUnspent(b, chain) ==
  /\ TxsOf[b] \cap TxsIn(BlocksOf(chain)) = {}
  /\ \A t, u \in TxsOf[b] : ~Conflict(t, u)

\* pushTransaction and checkTransactionInputs for the transactions of b: none is in the
\* chain, no key image is spent twice, and outside the checkpoint zone the rings resolve.
TransactionsFit(b, chain) ==
  /\ TxsOf[b] \cap TxsIn(BlocksOf(chain)) = {}
  /\ SpentBy(TxsOf[b]) \cap SpentBy(TxsIn(BlocksOf(chain))) = {}
  /\ \A t, u \in TxsOf[b] : ~Conflict(t, u)
  /\ ~is_in_checkpoint_zone(Len(chain)) =>
       \A t \in TxsOf[b] : Uses[t] \subseteq BlocksOf(chain)

\* Mutant: the checkpoints are only compared in alternative chains.
ContinuesUnchecked(b, chain) ==
  /\ b \notin BlocksOf(chain)
  /\ Parent[b] = Tip(chain)

\* What pushBlock asks of a block before it writes ...
Continues(b, chain) ==
  /\ b \notin BlocksOf(chain)
  /\ Parent[b] = Tip(chain)
  /\ is_in_checkpoint_zone(Len(chain)) => check_block(Len(chain), b)

\* ... and in all.
Fits(b, chain) ==
  /\ Continues(b, chain)
  /\ TransactionsFit(b, chain)
  /\ b \notin Unsound

\* The chain without the open batch.
Committed == CutTo(main, Len(main) - m_batchCount)

Fault(f) ==
  /\ f \in Faults /\ faults < MaxFaults
  /\ faults' = faults + 1

---------------------------------------------------------------------------
(* pushBlock: the ways it ends.  loadTransactions takes the transactions   *)
(* of the block out of the pool; on any failure they are put back.         *)

\* Mutants: the batch is closed one block late; the transactions stay in the pool.
PushedLate(b) ==
  /\ TxsOf[b] \subseteq pool /\ Fits(b, main)
  /\ main' = Append(main, b)
  /\ pool' = pool \ TxsOf[b]
  /\ \/ m_batchCount' = 0
     \/ m_batchCount < BatchSize /\ m_batchCount' = m_batchCount + 1
  /\ UNCHANGED faults

PushedFromCopies(b) ==
  /\ TxsOf[b] \subseteq pool /\ Fits(b, main)
  /\ main' = Append(main, b)
  /\ m_batchCount' = 0
  /\ UNCHANGED <<pool, faults>>

\* The block is in the chain; while syncing the batch stays open.
Pushed(b) ==
  /\ TxsOf[b] \subseteq pool /\ Fits(b, main)
  /\ main' = Append(main, b)
  /\ pool' = pool \ TxsOf[b]
  /\ \/ m_batchCount' = 0
     \/ m_batchCount + 1 < BatchSize /\ m_batchCount' = m_batchCount + 1
  /\ UNCHANGED faults

\* A transaction is missing, or a check fails.
Refused(b) ==
  /\ ~(TxsOf[b] \subseteq pool /\ Fits(b, main))
  /\ UNCHANGED <<main, m_batchCount, pool, faults>>

\* A put, of a block that fits or not, or the commit fails: the whole batch is aborted.
PushThrew(b) ==
  /\ Fault("push")
  /\ TxsOf[b] \subseteq pool /\ Continues(b, main)
  /\ main' = Committed
  /\ m_batchCount' = 0
  /\ UNCHANGED pool

\* The flush after the commit fails: the block is in the chain, yet pushBlock says no.
SyncThrew(b) ==
  /\ Fault("sync")
  /\ TxsOf[b] \subseteq pool /\ Fits(b, main)
  /\ main' = Append(main, b)
  /\ m_batchCount' = 0
  /\ UNCHANGED pool

NotPushed(b) == Refused(b) \/ PushThrew(b) \/ SyncThrew(b)

\* The flush in the catch blocks of pushBlock fails as well: the exception leaves the
\* class, and the transactions taken from the pool go with it.
PushEscaped(b) ==
  /\ Fault("throw")
  /\ TxsOf[b] \subseteq pool /\ Continues(b, main)
  /\ main' = Committed
  /\ m_batchCount' = 0
  /\ pool' = pool \ TxsOf[b]
  /\ sw' = Idle
  /\ UNCHANGED <<alts, heard>>

\* addNewBlock, the block continues the main chain.
PushTip(b) ==
  /\ sw = Idle /\ ~haveBlock(b) /\ Parent[b] = Tip(main)
  /\ \/ Pushed(b) /\ heard' = Append(heard, b) /\ UNCHANGED <<alts, sw>>
     \/ NotPushed(b) /\ UNCHANGED <<alts, sw, heard>>
     \/ PushEscaped(b)

---------------------------------------------------------------------------
(* handle_alternative_block                                                *)

\* The alternative chain up to b, b included, among the alternative blocks as.
AltChain(b, as) ==
  LET path[a \in Blocks] == IF a \in as THEN Append(path[Parent[a]], a) ELSE <<>>
  IN  path[b]

\* The first block of an alternative chain must hang on the main chain, below its top.
Attached(path, chain) ==
  path # <<>> => /\ Len(chain) > Height[path[1]]
                 /\ chain[Height[path[1]]] = Parent[path[1]]

\* The checks, in state chain of the main chain; path leads to the parent of b.
AltAccepted(b, path, chain) ==
  /\ is_alternative_block_allowed(Len(chain), Height[b])
  /\ path = <<>> => Parent[b] \in BlocksOf(chain)
  /\ Attached(path, chain)
  /\ check_block(Height[b], b)

\* Mutant: the longer chain wins.
OutweighsByHeight(b, chain) == is_a_checkpoint(Height[b]) \/ Len(chain) <= Height[b]

\* It is a checkpoint, or has more work behind it than the tip.
Outweighs(b, chain) ==
  is_a_checkpoint(Height[b]) \/ CumDifficulty[Tip(chain)] < CumDifficulty[b]

\* flushBatch leaves chain: it goes on when its commit fails ...
Flushed(chain) ==
  \/ chain = main /\ UNCHANGED faults
  \/ m_batchCount > 0 /\ Fault("flush") /\ chain = Committed

\* ... but not when the flush to disk after the commit does.
FlushEscaped ==
  /\ m_batchCount > 0 /\ Fault("throw")
  /\ m_batchCount' = 0
  /\ sw' = Idle
  /\ UNCHANGED <<main, pool, heard>>

\* switch_to_alternative_blockchain up to the first pop.
BeginSwitch(path, discard) ==
  \E chain \in {main, Committed} :
    /\ Flushed(chain)
    /\ main' = chain /\ m_batchCount' = 0
    /\ sw' = IF Len(chain) > Height[path[1]]
               THEN [Idle EXCEPT !.at = "pop", !.alt = path, !.split = Height[path[1]],
                                 !.discard = discard, !.old = chain]
               ELSE Idle
    /\ UNCHANGED <<pool, heard>>

\* addNewBlock for a block that does not continue the main chain.
AddAlternative(b) ==
  LET path == AltChain(Parent[b], alts)
  IN  /\ sw = Idle /\ ~haveBlock(b) /\ Parent[b] # Tip(main)
      /\ AltAccepted(b, path, main)
      /\ alts' = alts \cup {b}
      /\ IF Outweighs(b, main)
           THEN \/ BeginSwitch(Append(path, b), is_a_checkpoint(Height[b]))
                \/ FlushEscaped
           ELSE UNCHANGED <<main, m_batchCount, pool, sw, heard, faults>>

---------------------------------------------------------------------------
(* switch_to_alternative_blockchain and rollback_blockchain_switching      *)

\* Mutant: the transactions of the block are dropped with it.
PoppedWithItsTxs ==
  /\ main' = DropTip(main)
  /\ UNCHANGED <<m_batchCount, alts, pool, heard, faults>>

\* popBlock: the transactions go back to the pool, then the block is removed.
Popped ==
  /\ pool' = pool \cup TxsOf[Tip(main)]
  /\ main' = DropTip(main)
  /\ UNCHANGED <<m_batchCount, alts, heard, faults>>

\* Mutant: the disconnected blocks are kept last first.
DisconnectBackwards ==
  /\ sw.at = "pop"
  /\ Popped
  /\ sw' = [sw EXCEPT !.gone = Append(@, Tip(main)),
                      !.at = IF Len(main) - 1 = sw.split THEN "push" ELSE @]

\* A main chain block is disconnected.
Disconnect ==
  /\ sw.at = "pop"
  /\ Popped
  /\ sw' = [sw EXCEPT !.gone = <<Tip(main)>> \o @,
                      !.at = IF Len(main) - 1 = sw.split THEN "push" ELSE @]

\* A rollback takes an alternative block off again.
Unwind ==
  /\ sw.at = "unwind"
  /\ Popped
  /\ sw' = [sw EXCEPT !.at = IF Len(main) - 1 = sw.split THEN "restore" ELSE @]

\* removeLastBlock throws, after the transactions went to the pool.
PopEscaped ==
  /\ sw.at \in {"pop", "unwind"} /\ Fault("throw")
  /\ pool' = pool \cup TxsOf[Tip(main)]
  /\ sw' = Idle
  /\ UNCHANGED <<main, m_batchCount, alts, heard>>

\* How many of the disconnected blocks handle_alternative_block takes, in order, when the
\* main chain has become chain: it stops at the first it does not.
Retained(chain) ==
  LET fine(i) ==
        LET as == alts \cup BlocksOf(SubSeq(sw.gone, 1, i - 1))
        IN  /\ AltAccepted(sw.gone[i], AltChain(Parent[sw.gone[i]], as), chain)
            /\ sw.gone[i] \notin as
      n == CHOOSE k \in 0 .. Len(sw.gone) :
             /\ \A i \in 1 .. k : fine(i)
             /\ k < Len(sw.gone) => ~fine(k + 1)
  IN  BlocksOf(SubSeq(sw.gone, 1, n))

\* Mutant: the message names the first new block as the common root.
AfterSwitchTooHigh(chain, path) == CutTo(chain, Height[path[1]] + 1) \o path

\* The messages of a switch, read by someone who follows the chain.
AfterSwitch(chain, path) == CutTo(chain, Height[path[1]]) \o path

\* Mutant: the alternative chain is not forgotten when it has become the main chain.
ConnectKeepsAlts ==
  LET b     == sw.alt[sw.next]
      taken == IF sw.discard THEN {} ELSE Retained(Append(main, b))
  IN  /\ sw.at = "push"
      /\ Pushed(b)
      /\ IF sw.next < Len(sw.alt)
           THEN /\ sw' = [sw EXCEPT !.next = @ + 1]
                /\ UNCHANGED <<alts, heard>>
           ELSE /\ alts' = alts \cup taken
                /\ heard' = AfterSwitch(heard, sw.alt)
                /\ sw' = Idle

\* The next block of the alternative chain is connected; after the last one the
\* disconnected blocks become alternative, unless a checkpoint discards them.
Connect ==
  LET b     == sw.alt[sw.next]
      taken == IF sw.discard THEN {} ELSE Retained(Append(main, b))
  IN  /\ sw.at = "push"
      /\ Pushed(b)
      /\ IF sw.next < Len(sw.alt)
           THEN /\ sw' = [sw EXCEPT !.next = @ + 1]
                /\ UNCHANGED <<alts, heard>>
           ELSE /\ alts' = (alts \cup taken) \ BlocksOf(sw.alt)
                /\ heard' = AfterSwitch(heard, sw.alt)
                /\ sw' = IF \E a \in taken : Outweighs(a, Append(main, b))
                           THEN [sw EXCEPT !.at = "again"] ELSE Idle

\* The block cannot be connected: rollback_blockchain_switching begins with a flush.
ConnectFails ==
  /\ sw.at = "push"
  /\ NotPushed(sw.alt[sw.next])
  /\ sw' = [sw EXCEPT !.at = "flush"]
  /\ UNCHANGED <<alts, heard>>

\* Mutant: the blocks connected so far are not taken off again.
BeginRollbackOnTop ==
  /\ sw.at = "flush"
  /\ Flushed(main)
  /\ m_batchCount' = 0
  /\ sw' = [sw EXCEPT !.at = "restore"]
  /\ UNCHANGED <<main, alts, pool, heard>>

BeginRollback ==
  /\ sw.at = "flush"
  /\ \/ \E chain \in {main, Committed} :
          /\ Flushed(chain)
          /\ main' = chain /\ m_batchCount' = 0
          /\ sw' = [sw EXCEPT !.at = IF Len(chain) > sw.split THEN "unwind" ELSE "restore"]
          /\ UNCHANGED <<pool, heard>>
     \/ FlushEscaped
  /\ UNCHANGED alts

\* Mutant: the block that failed stays among the alternatives.
GiveUpLater ==
  /\ alts' = alts \ BlocksOf(SubSeq(sw.alt, sw.next + 1, Len(sw.alt)))
  /\ sw' = Idle

\* The block that failed and those behind it are forgotten.
GiveUp ==
  /\ alts' = alts \ BlocksOf(SubSeq(sw.alt, sw.next, Len(sw.alt)))
  /\ sw' = Idle

\* A disconnected block is connected again.
Restore ==
  /\ sw.at = "restore"
  /\ Pushed(sw.gone[sw.back + 1])
  /\ IF sw.back + 1 < Len(sw.gone)
       THEN sw' = [sw EXCEPT !.back = @ + 1] /\ UNCHANGED alts
       ELSE GiveUp
  /\ UNCHANGED heard

\* "PANIC!!! failed to add (again) block": the rest of the old chain is not restored.
RestoreFails ==
  /\ sw.at = "restore"
  /\ NotPushed(sw.gone[sw.back + 1])
  /\ GiveUp
  /\ UNCHANGED heard

\* An exception leaves a push of the switch or of its rollback.
SwitchEscaped ==
  \/ sw.at = "push" /\ PushEscaped(sw.alt[sw.next])
  \/ sw.at = "restore" /\ PushEscaped(sw.gone[sw.back + 1])

---------------------------------------------------------------------------
(* The rest of the node                                                    *)

\* add_new_tx for a transaction that comes alone or, keptByBlock, with a block.
ReceiveTx(t) ==
  /\ sw = Idle
  /\ t \notin pool /\ t \notin TxsIn(BlocksOf(main))
  /\ pool' = pool \cup {t}
  /\ UNCHANGED <<main, m_batchCount, alts, sw, heard, faults>>

\* The process dies and is started again, with what its pool file holds.
Crash ==
  /\ Fault("crash")
  /\ main' = Committed /\ m_batchCount' = 0
  /\ alts' = {}
  /\ pool' \in SUBSET Txs
  /\ sw' = Idle
  /\ heard' = main'

AddNewBlock(b) == PushTip(b) \/ AddAlternative(b)

Continue ==
  \/ Disconnect \/ Connect \/ ConnectFails
  \/ BeginRollback \/ Unwind \/ Restore \/ RestoreFails

Next ==
  \/ \E b \in Blocks : AddNewBlock(b)
  \/ Continue \/ PopEscaped \/ SwitchEscaped
  \/ \E t \in Txs : ReceiveTx(t)
  \/ Crash

Spec == Init /\ [][Next]_vars

\* The steps of a switch follow one another in one thread; peers answer every request for
\* the chain they are on, and send a block's transactions with it.
Fairness ==
  /\ WF_vars(Continue)
  /\ \A i \in 1 .. Len(Network) : SF_vars(AddNewBlock(Network[i]))
  /\ \A t \in TxsIn(BlocksOf(Network)) : SF_vars(ReceiveTx(t))

LiveSpec == Spec /\ Fairness

---------------------------------------------------------------------------
(* Properties *)

\* Types; a batch left open is short of BATCH_SIZE, and no block of a disconnected chain
\* starts a second switch inside the first (handle_alternative_block called from
\* switch_to_alternative_blockchain).
TypeOK ==
  /\ main \in Seq(Blocks) /\ heard \in Seq(Blocks)
  /\ m_batchCount \in 0 .. BatchSize - 1
  /\ alts \subseteq Blocks /\ pool \subseteq Txs
  /\ sw.at \in {"idle", "pop", "push", "flush", "unwind", "restore"}
  /\ sw.alt \in Seq(Blocks) /\ sw.gone \in Seq(Blocks) /\ sw.old \in Seq(Blocks)
  /\ sw.next \in Nat /\ sw.split \in Nat /\ sw.back \in Nat /\ sw.discard \in BOOLEAN
  /\ faults \in 0 .. MaxFaults

\* The main chain is one, from the genesis block on, whatever pushes, pops, rollbacks,
\* failures and crashes led to it: each block on its parent at its height, no transaction
\* twice, no key image spent twice, checkpoints kept.
MainIsConsistent ==
  /\ main # <<>> /\ main[1] = Genesis
  /\ \A i \in 2 .. Len(main) : Parent[main[i]] = main[i - 1]
  /\ \A i \in 1 .. Len(main) : i > 1 => check_block(i - 1, main[i])
  /\ \A i, j \in 1 .. Len(main) : i < j =>
       /\ TxsOf[main[i]] \cap TxsOf[main[j]] = {}
       /\ SpentBy(TxsOf[main[i]]) \cap SpentBy(TxsOf[main[j]]) = {}

\* During a switch the main chain is the part below the split and then the blocks of one
\* of the two chains, never a mixture, whatever fails (switch_to_alternative_blockchain,
\* rollback_blockchain_switching).
SwitchShape ==
  sw # Idle =>
    LET root == SubSeq(sw.old, 1, sw.split)
    IN  CASE sw.at = "pop" -> main \o sw.gone = sw.old
          [] sw.at \in {"push", "flush", "unwind"} ->
               /\ root \o sw.gone = sw.old
               /\ \E n \in 0 .. Len(sw.alt) : main = root \o SubSeq(sw.alt, 1, n)
          [] sw.at = "restore" -> /\ root \o sw.gone = sw.old
                                 /\ main = root \o SubSeq(sw.gone, 1, sw.back)

\* As long as no LMDB call fails, a switch ends with the whole alternative chain connected
\* or with the old chain as it was, although the blocks are taken off and put on one by one.
SwitchAllOrNothing ==
  [][(sw # Idle /\ sw' = Idle /\ faults' = 0) =>
       main' \in {sw.old, SubSeq(sw.old, 1, sw.split) \o sw.alt}]_vars

\* As long as no call fails, the main chain changes hands only for more work, or for a
\* checkpoint.
MoreWorkWins ==
  [][(sw # Idle /\ sw' = Idle /\ faults' = 0 /\ main' # sw.old) =>
       \/ sw.discard /\ is_a_checkpoint(Height[Tip(main')])
       \/ CumDifficulty[Tip(main')] > CumDifficulty[Tip(sw.old)]]_vars

\* A transaction the node has is never lost by blocks joining and leaving the main chain,
\* also when a block is refused half way (loadTransactions, saveTransactions, popBlock).
NoTransactionLost ==
  [][faults' = 0 =>
       pool \cup TxsIn(BlocksOf(main)) \subseteq (pool \cup TxsIn(BlocksOf(main)))']_vars

\* The pool holds no transaction of the main chain, until a call fails.
PoolBesideChain == faults = 0 => pool \cap TxsIn(BlocksOf(main)) = {}

\* Between two blocks, no block of the main chain is kept as an alternative, until a call
\* fails.
AltsBesideChain == (sw = Idle /\ faults = 0) => alts \cap BlocksOf(main) = {}

\* NewBlockMessage and ChainSwitchMessage are enough to follow the main chain, until a call
\* fails.
MessagesTellTheChain == (sw = Idle /\ faults = 0) => heard = main

\* A checkpoint that peers have reached is reached: the chain that leads to it is an
\* alternative the node takes up however much work it is on another one ("checkpoint is
\* found in alternative chain").
CheckpointReached == <>(\A h \in DOMAIN m_points : m_points[h] \in BlocksOf(main))

\* A node whose peers keep sending their chain, the one with the most work, gets there:
\* "the chain reverts to the last committed height; the protocol handler re-syncs from
\* there".
Resyncs == <>(BlocksOf(Network) \subseteq BlocksOf(main))
=============================================================================
