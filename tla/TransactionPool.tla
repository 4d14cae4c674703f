-------------------------- MODULE TransactionPool --------------------------
(***************************************************************************)
(* Class tx_memory_pool, with the chain that takes transactions from it    *)
(* and gives them back.  Every operation runs under m_transactions_lock,   *)
(* and those of the chain under both locks, so each is one step.           *)
(*                                                                         *)
(* A pool p is a record: txs are the transactions of m_transactions, kept  *)
(* those with keptByBlock, time their receiveTime; spent is                *)
(* m_spent_key_images, where a key image nobody spends has no entry; gone  *)
(* and goneAt are m_recentlyDeletedTransactions.                           *)
(***************************************************************************)
EXTENDS Integers, Chains

CONSTANTS
  Txs,
  Images,
  Inputs,    \* Inputs[t]: the key images of the inputs of t
  Priority,  \* the place of a transaction in the fee index, the best one first
  Blocks, Genesis,
  Parent,
  TxsOf,     \* the transactions of a block, the coinbase left out
  Uses,      \* Uses[t]: the blocks whose outputs the rings of t refer to
  LiveTime,     \* mempoolTxLiveTime
  AltLiveTime,  \* mempoolTxFromAltBlockLiveTime
  Periods,      \* numberOfPeriodsToForgetTxDeletedFromPool
  Modulus,      \* of the unsigned arithmetic on times, 2^64 in the code
  MaxTime,      \* bound: the clock stops here
  LastArrival   \* bound: nothing is added later

Image(t) == {Inputs[t][i] : i \in DOMAIN Inputs[t]}

\* The configuration of the code has the three times in this relation.
ASSUME PoolAssumption ==
  /\ Inputs \in [Txs -> Seq(Images)]
  /\ \A t \in Txs : \A i, j \in 1 .. Len(Inputs[t]) : Inputs[t][i] = Inputs[t][j] => i = j
  /\ Priority \in [Txs -> Nat] /\ \A t, u \in Txs : Priority[t] = Priority[u] => t = u
  /\ Genesis \in Blocks /\ TxsOf \in [Blocks -> SUBSET Txs]
  /\ Uses \in [Txs -> SUBSET Blocks]
  /\ LiveTime \in Nat /\ AltLiveTime \in Nat /\ Periods \in Nat
  /\ Periods * LiveTime <= AltLiveTime
  /\ Modulus \in Nat /\ MaxTime \in Nat /\ MaxTime < Modulus

VARIABLES
  up,         \* the node runs
  mem,        \* the pool in memory
  file,       \* the pool in txPoolFileName
  validated,  \* m_validated_transactions
  template,   \* the transactions of the last block template
  chain,
  now

vars == <<up, mem, file, validated, template, chain, now>>

Conflict(t, u) == t # u /\ Image(t) \cap Image(u) # {}

EmptyPool == [txs |-> {}, kept |-> {}, time |-> [t \in Txs |-> 0],
              spent |-> [k \in Images |-> {}], gone |-> {}, goneAt |-> [t \in Txs |-> 0]]

Init ==
  /\ up = TRUE
  /\ mem = EmptyPool /\ file = EmptyPool
  /\ validated = {} /\ template = {}
  /\ chain = <<Genesis>>
  /\ now = 0

---------------------------------------------------------------------------
(* The pool's own operations, on a pool p.                                 *)

haveSpentInputs(p, t) == \E k \in Image(t) : p.spent[k] # {}

\* addTransactionInputs: the key images it enters before it returns.
Entered(p, t, keptByBlock) ==
  {Inputs[t][i] : i \in {n \in DOMAIN Inputs[t] : \A j \in 1 .. n :
     /\ keptByBlock \/ p.spent[Inputs[t][j]] = {}
     /\ t \notin p.spent[Inputs[t][j]]}}

\* Insert the transactions ts, none of which is in the pool.
Insert(p, ts, keptByBlock, at) ==
  [p EXCEPT !.txs   = @ \cup ts,
            !.kept  = IF keptByBlock THEN @ \cup ts ELSE @,
            !.time  = [t \in Txs |-> IF t \in ts THEN at ELSE p.time[t]],
            !.spent = [k \in Images |->
                         p.spent[k] \cup {t \in ts : k \in Entered(p, t, keptByBlock)}]]

\* removeTransactionInputs: the key images it clears before it returns.
Cleared(p, t) ==
  {Inputs[t][i] : i \in {n \in DOMAIN Inputs[t] : \A j \in 1 .. n :
     t \in p.spent[Inputs[t][j]]}}

\* Mutant: a transaction that is taken leaves its key images behind.
RemoveKeepsImages(p, ts) ==
  [p EXCEPT !.txs  = @ \ ts,
            !.kept = @ \ ts,
            !.time = [t \in Txs |-> IF t \in ts THEN 0 ELSE p.time[t]]]

\* removeTransaction
Remove(p, ts) ==
  [p EXCEPT !.txs   = @ \ ts,
            !.kept  = @ \ ts,
            !.time  = [t \in Txs |-> IF t \in ts THEN 0 ELSE p.time[t]],
            !.spent = [k \in Images |-> p.spent[k] \ {t \in ts : k \in Cleared(p, t)}]]

\* Unsigned.
Age(at, since) == (at - since) % Modulus

\* Mutants: kept transactions live no longer than the others; they live for ever.
OutdatedAlike(p, at) == {t \in p.txs : Age(at, p.time[t]) > LiveTime}

OutdatedNotKept(p, at) == {t \in p.txs \ p.kept : Age(at, p.time[t]) > LiveTime}

Outdated(p, at) ==
  {t \in p.txs : Age(at, p.time[t]) > IF t \in p.kept THEN AltLiveTime ELSE LiveTime}

\* Transactions deleted long ago are forgotten ...
Forget(p, at) ==
  LET still == {t \in p.gone : Age(at, p.goneAt[t]) <= Periods * LiveTime}
  IN  [p EXCEPT !.gone   = still,
                !.goneAt = [t \in Txs |-> IF t \in still THEN p.goneAt[t] ELSE 0]]

\* ... the outdated ones are deleted and dated, unless they have a date.
Delete(p, at) ==
  LET old == Outdated(p, at)
  IN  [Remove(p, old) EXCEPT
         !.gone   = @ \cup old,
         !.goneAt = [t \in Txs |-> IF t \in old \ p.gone THEN at ELSE p.goneAt[t]]]

\* Mutant: deleted first, forgotten then.
RemoveExpiredLater(p, at) == Forget(Delete(p, at), at)

removeExpiredTransactions(p, at) == Delete(Forget(p, at), at)

---------------------------------------------------------------------------
(* The chain                                                               *)

TxsIn(blocks) == UNION {TxsOf[b] : b \in blocks}

\* haveTransactionKeyImagesAsSpent
SpentInChain(t) == \E u \in TxsIn(BlocksOf(chain)) : Image(t) \cap Image(u) # {}

\* checkTransactionInputs
InputsValid(t) == ~SpentInChain(t) /\ Uses[t] \subseteq BlocksOf(chain)

Fits(b) ==
  /\ \A t \in TxsOf[b] : InputsValid(t)
  /\ \A t, u \in TxsOf[b] : ~Conflict(t, u)

\* Mutant: take_tx leaves the transaction in the cache.
PushBlockCached(b) ==
  /\ up /\ b \notin BlocksOf(chain) /\ b # Genesis /\ Parent[b] = Tip(chain)
  /\ TxsOf[b] \subseteq mem.txs /\ Fits(b)
  /\ chain' = Append(chain, b)
  /\ mem' = Remove(mem, TxsOf[b])
  /\ UNCHANGED <<up, file, validated, template, now>>

\* pushBlock succeeds: loadTransactions has taken the transactions of the block.
PushBlock(b) ==
  /\ up /\ b \notin BlocksOf(chain) /\ b # Genesis /\ Parent[b] = Tip(chain)
  /\ TxsOf[b] \subseteq mem.txs /\ Fits(b)
  /\ chain' = Append(chain, b)
  /\ mem' = Remove(mem, TxsOf[b])
  /\ validated' = validated \ TxsOf[b]
  /\ UNCHANGED <<up, file, template, now>>

\* pushBlock fails: the transactions it took, all or those before a missing one, are put
\* back as transactions of a block.
PushFails(b) ==
  /\ up /\ b \notin BlocksOf(chain) /\ b # Genesis /\ Parent[b] = Tip(chain)
  /\ now <= LastArrival
  /\ \E taken \in SUBSET (TxsOf[b] \cap mem.txs) :
       /\ TxsOf[b] \subseteq mem.txs => taken = TxsOf[b]
       /\ mem' = Insert(Remove(mem, taken), taken, TRUE, now)
       /\ validated' = validated \ taken
  /\ UNCHANGED <<up, file, template, chain, now>>

\* popBlock: what is in the pool again already is not inserted.
PopBlock ==
  /\ up /\ Len(chain) > 1 /\ now <= LastArrival
  /\ mem' = Insert(mem, TxsOf[Tip(chain)] \ mem.txs, TRUE, now)
  /\ chain' = DropTip(chain)
  /\ UNCHANGED <<up, file, validated, template, now>>

---------------------------------------------------------------------------
(* Transactions, templates, time and restarts                              *)

\* Core::add_new_tx and add_tx for a transaction that came with a block ...
AddKept(t) ==
  /\ up /\ now <= LastArrival
  /\ t \notin TxsIn(BlocksOf(chain)) /\ t \notin mem.txs
  /\ mem' = Insert(mem, {t}, TRUE, now)
  /\ UNCHANGED <<up, file, validated, template, chain, now>>

\* Mutant: the key images of the pool are not looked up.
AddNewUnchecked(t) ==
  /\ up /\ now <= LastArrival
  /\ t \notin TxsIn(BlocksOf(chain)) /\ t \notin mem.txs
  /\ InputsValid(t)
  /\ t \notin mem.gone
  /\ mem' = Insert(mem, {t}, FALSE, now)
  /\ UNCHANGED <<up, file, validated, template, chain, now>>

\* ... and for one that came alone.
AddNew(t) ==
  /\ up /\ now <= LastArrival
  /\ t \notin TxsIn(BlocksOf(chain)) /\ t \notin mem.txs
  /\ ~haveSpentInputs(mem, t)
  /\ InputsValid(t)
  /\ t \notin mem.gone
  /\ mem' = Insert(mem, {t}, FALSE, now)
  /\ UNCHANGED <<up, file, validated, template, chain, now>>

\* is_transaction_ready_to_go for the transactions tried that are not in the cache; what
\* the pool noted of an earlier check (maxUsedBlock, lastFailedBlock) may still refuse one.
FoundReady(tried) == SUBSET {t \in tried \ validated : InputsValid(t)}

\* Mutant: conflicting transactions are not kept apart.
ChosenAll(picked, ready) == picked = ready

\* BlockTemplate: in the order of the fee index, a transaction is left out when one that is
\* already in spends a key image of it.
Chosen(picked, ready) ==
  \A t \in ready :
    t \in picked <=> \A u \in picked : Priority[u] < Priority[t] => ~Conflict(t, u)

\* fill_block_template; the transactions tried are those of sufficient fee that find room.
FillTemplate ==
  /\ up
  /\ \E tried \in SUBSET mem.txs : \E fresh \in FoundReady(tried) :
       LET ready == (tried \cap validated) \cup fresh
       IN  /\ template' \in SUBSET ready /\ Chosen(template', ready)
           /\ validated' = validated \cup fresh
  /\ UNCHANGED <<up, mem, file, chain, now>>

\* get_difference
GetDifference ==
  /\ up
  /\ \E fresh \in FoundReady(mem.txs) : validated' = validated \cup fresh
  /\ UNCHANGED <<up, mem, file, template, chain, now>>

\* on_idle
Expire ==
  /\ up
  /\ mem' = removeExpiredTransactions(mem, now)
  /\ validated' = validated \ Outdated(mem, now)
  /\ UNCHANGED <<up, file, template, chain, now>>

\* deinit
Stop ==
  /\ up /\ up' = FALSE
  /\ file' = mem
  /\ UNCHANGED <<mem, validated, template, chain, now>>

\* The process dies, at worst while it writes the file, which then does not load.
Crash ==
  /\ up /\ up' = FALSE
  /\ file' \in {file, EmptyPool}
  /\ UNCHANGED <<mem, validated, template, chain, now>>

\* init
Start ==
  /\ ~up /\ up' = TRUE
  /\ mem' = removeExpiredTransactions(file, now)
  /\ validated' = {} /\ template' = {}
  /\ UNCHANGED <<file, chain, now>>

Tick ==
  /\ now < MaxTime /\ now' = now + 1
  /\ UNCHANGED <<up, mem, file, validated, template, chain>>

Next ==
  \/ \E b \in Blocks : PushBlock(b) \/ PushFails(b)
  \/ PopBlock
  \/ \E t \in Txs : AddKept(t) \/ AddNew(t)
  \/ FillTemplate \/ GetDifference
  \/ Expire \/ Stop \/ Crash \/ Start \/ Tick

Spec == Init /\ [][Next]_vars

\* The clock runs, on_idle is called again and again, and a node that stopped is started.
LiveSpec == Spec /\ WF_vars(Tick) /\ WF_vars(Expire) /\ WF_vars(Start)

---------------------------------------------------------------------------
(* Properties *)

PoolType ==
  [txs : SUBSET Txs, kept : SUBSET Txs, time : [Txs -> Nat],
   spent : [Images -> SUBSET Txs], gone : SUBSET Txs, goneAt : [Txs -> Nat]]

\* Types; only transactions of the pool are cached as ready.
TypeOK ==
  /\ up \in BOOLEAN
  /\ mem \in PoolType /\ file \in PoolType
  /\ validated \subseteq Txs /\ template \subseteq Txs
  /\ up => validated \subseteq mem.txs
  /\ chain \in Seq(Blocks)
  /\ now \in Nat

Users(p, k) == {t \in p.txs : k \in Image(t)}

\* m_spent_key_images is exactly the index of the pool's inputs, in memory and on disk,
\* through blocks that take transactions and give them back, expiry and restarts: the
\* "internal error" and "failed to find" branches of addTransactionInputs and
\* removeTransactionInputs are never taken.
KeyImagesIndexed ==
  \A p \in {mem, file} : \A k \in Images : p.spent[k] = Users(p, k)

\* The pool takes part in a double spend only for blocks: of the transactions with one key
\* image at most one was not kept by a block (haveSpentInputs in add_tx).
OneNotKept ==
  \A t, u \in mem.txs \ mem.kept : ~Conflict(t, u)

\* A transaction that expires is remembered from that moment on, for the "time to forget
\* tx", although an older date is not overwritten (emplace in removeExpiredTransactions).
DeletionIsDated ==
  [][up /\ up' /\ chain' = chain =>
       \A t \in mem.txs \ mem'.txs : t \in mem'.gone /\ mem'.goneAt[t] = now]_vars

\* Only transactions that are older than their life time expire, whatever the unsigned
\* subtraction of the times does.
OnlyOldExpire ==
  [][up /\ up' /\ chain' = chain =>
       \A t \in mem.txs \ mem'.txs :
         now > mem.time[t] + IF t \in mem.kept THEN AltLiveTime ELSE LiveTime]_vars

\* The transactions of a template can stand in one block, though the pool holds double
\* spends (BlockTemplate).
TemplateHasNoConflict == \A t, u \in template : ~Conflict(t, u)

\* "check for key_images collisions with blockchain, just to be sure": a template takes no
\* transaction whose key images the chain has spent.
TemplateIsUnspent ==
  [][template' # template => \A t \in template' : ~SpentInChain(t)]_vars

\* No transaction stays in the pool for ever: a block takes it, or it expires.
LeavesPool == \A t \in Txs : t \in mem.txs ~> t \notin mem.txs
=============================================================================
