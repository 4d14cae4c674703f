----------------------- MODULE TransactionPoolProofs -----------------------
(***************************************************************************)
(* The invariants of TransactionPool for all transactions, blocks and      *)
(* times.  The core is Sound, a predicate on one pool that every operation *)
(* of tx_memory_pool preserves and that the pool file inherits.            *)
(***************************************************************************)
EXTENDS TransactionPool, TLAPS

\* What holds of a pool at time at: its index is exact, no double spend among the
\* transactions not kept by a block, no time in the future, and a transaction that is back
\* after it was deleted came with a block, after its deletion.
Sound(p, at) ==
  /\ p \in PoolType
  /\ p.kept \subseteq p.txs
  /\ \A k \in Images : p.spent[k] = Users(p, k)
  /\ \A t, u \in p.txs \ p.kept : ~Conflict(t, u)
  /\ \A t \in p.txs : p.time[t] <= at
  /\ \A t \in p.gone : p.goneAt[t] <= at
  /\ \A t \in p.txs \cap p.gone : t \in p.kept /\ p.goneAt[t] <= p.time[t]

\* The inductive invariant.
IInv ==
  /\ Sound(mem, now) /\ Sound(file, now)
  /\ now \in 0 .. MaxTime
  /\ up \in BOOLEAN
  /\ validated \subseteq Txs /\ template \subseteq Txs
  /\ up => validated \subseteq mem.txs
  /\ chain \in Seq(Blocks) /\ Len(chain) > 0
  /\ TemplateHasNoConflict

---------------------------------------------------------------------------
(* Fields of the pools the operations make                                 *)

\* What removeTransaction changes.
LEMMA RemoveIs ==
  ASSUME NEW p \in PoolType, NEW ts \in SUBSET Txs
  PROVE  LET q == Remove(p, ts)
         IN  /\ q \in PoolType
             /\ q.txs = p.txs \ ts
             /\ q.kept = p.kept \ ts
             /\ q.time = [t \in Txs |-> IF t \in ts THEN 0 ELSE p.time[t]]
             /\ q.spent = [k \in Images |-> p.spent[k] \ {t \in ts : k \in Cleared(p, t)}]
             /\ q.gone = p.gone /\ q.goneAt = p.goneAt
BY DEF Remove, PoolType

\* What forgetting old deletions changes.
LEMMA ForgetIs ==
  ASSUME NEW p \in PoolType, NEW at \in Nat
  PROVE  LET q     == Forget(p, at)
             still == {t \in p.gone : Age(at, p.goneAt[t]) <= Periods * LiveTime}
         IN  /\ q \in PoolType
             /\ q.txs = p.txs /\ q.kept = p.kept /\ q.time = p.time /\ q.spent = p.spent
             /\ q.gone = still
             /\ q.goneAt = [t \in Txs |-> IF t \in still THEN p.goneAt[t] ELSE 0]
BY DEF Forget, PoolType

\* What deleting the outdated transactions changes.
LEMMA DeleteIs ==
  ASSUME NEW p \in PoolType, NEW at \in Nat
  PROVE  LET q   == Delete(p, at)
             old == Outdated(p, at)
             r   == Remove(p, old)
         IN  /\ q \in PoolType
             /\ old \subseteq p.txs
             /\ q.txs = r.txs /\ q.kept = r.kept /\ q.time = r.time /\ q.spent = r.spent
             /\ q.gone = p.gone \cup old
             /\ q.goneAt = [t \in Txs |-> IF t \in old \ p.gone THEN at ELSE p.goneAt[t]]
<1> DEFINE old == Outdated(p, at)
           r   == Remove(p, old)
<1>1. old \subseteq p.txs /\ old \in SUBSET Txs
  BY DEF Outdated, PoolType
<1>2. r \in PoolType /\ r.gone = p.gone /\ r.goneAt = p.goneAt
  BY <1>1, RemoveIs
<1>3. Delete(p, at) =
        [r EXCEPT !.gone   = @ \cup old,
                  !.goneAt = [t \in Txs |-> IF t \in old \ p.gone THEN at ELSE p.goneAt[t]]]
  BY DEF Delete
<1> HIDE DEF old, r
<1>4. /\ p.goneAt \in [Txs -> Nat] /\ p.gone \subseteq Txs
      /\ [t \in Txs |-> IF t \in old \ p.gone THEN at ELSE p.goneAt[t]] \in [Txs -> Nat]
  BY DEF PoolType
<1>5. QED
  <2> DEFINE dates == [t \in Txs |-> IF t \in old \ p.gone THEN at ELSE p.goneAt[t]]
             q     == Delete(p, at)
  <2>0. dates \in [Txs -> Nat] /\ q = [r EXCEPT !.gone = @ \cup old, !.goneAt = dates]
    BY <1>3, <1>4
  <2> HIDE DEF dates, q
  <2>1. /\ q \in PoolType
        /\ q.txs = r.txs /\ q.kept = r.kept /\ q.time = r.time /\ q.spent = r.spent
        /\ q.gone = p.gone \cup old /\ q.goneAt = dates
    BY <1>1, <1>2, <1>4, <2>0 DEF PoolType
  <2> QED  BY <1>1, <2>1 DEF old, r, dates, q

---------------------------------------------------------------------------
(* The loops over the inputs run to their end                              *)

\* Every input of a transaction that is not in the pool is entered, if a block keeps it or
\* nobody in the pool spends its key images.
LEMMA EnteredAll ==
  ASSUME NEW p, NEW t \in Txs, NEW keep \in BOOLEAN,
         \A k \in Image(t) : t \notin p.spent[k],
         keep \/ ~haveSpentInputs(p, t)
  PROVE  Entered(p, t, keep) = Image(t)
<1>1. \A n \in DOMAIN Inputs[t] : \A j \in 1 .. n : Inputs[t][j] \in Image(t)
  <2>1. Inputs[t] \in Seq(Images)
    BY PoolAssumption
  <2>2. DOMAIN Inputs[t] = 1 .. Len(Inputs[t]) /\ Len(Inputs[t]) \in Nat
    BY <2>1
  <2>3. \A n \in DOMAIN Inputs[t] : \A j \in 1 .. n : j \in DOMAIN Inputs[t]
    BY <2>2
  <2> QED  BY <2>3 DEF Image
<1>2. \A k \in Image(t) : (keep \/ p.spent[k] = {}) /\ t \notin p.spent[k]
  BY DEF haveSpentInputs
<1>3. {n \in DOMAIN Inputs[t] : \A j \in 1 .. n :
         /\ keep \/ p.spent[Inputs[t][j]] = {}
         /\ t \notin p.spent[Inputs[t][j]]} = DOMAIN Inputs[t]
  BY <1>1, <1>2, Zenon
<1>4. QED
  BY <1>3 DEF Entered, Image

\* Every input of a transaction that the index knows is cleared.
LEMMA ClearedAll ==
  ASSUME NEW p, NEW t \in Txs, \A k \in Image(t) : t \in p.spent[k]
  PROVE  Cleared(p, t) = Image(t)
<1>1. \A n \in DOMAIN Inputs[t] : \A j \in 1 .. n : Inputs[t][j] \in Image(t)
  <2>1. Inputs[t] \in Seq(Images)
    BY PoolAssumption
  <2>2. DOMAIN Inputs[t] = 1 .. Len(Inputs[t]) /\ Len(Inputs[t]) \in Nat
    BY <2>1
  <2>3. \A n \in DOMAIN Inputs[t] : \A j \in 1 .. n : j \in DOMAIN Inputs[t]
    BY <2>2
  <2> QED  BY <2>3 DEF Image
<1>2. {n \in DOMAIN Inputs[t] : \A j \in 1 .. n :
         t \in p.spent[Inputs[t][j]]} = DOMAIN Inputs[t]
  BY <1>1, Zenon
<1>3. QED
  BY <1>2 DEF Cleared, Image

\* Inputs spend key images.
LEMMA ImageType ==
  ASSUME NEW t \in Txs
  PROVE  Image(t) \subseteq Images
<1>1. Inputs[t] \in Seq(Images)
  BY PoolAssumption
<1>2. \A i \in DOMAIN Inputs[t] : Inputs[t][i] \in Images
  BY <1>1
<1>3. QED
  BY <1>2 DEF Image

\* No time lies in the future, so the unsigned subtraction does not wrap.
LEMMA AgeIs ==
  ASSUME NEW at \in 0 .. MaxTime, NEW since \in Nat, since <= at
  PROVE  Age(at, since) = at - since
<1>1. at - since \in 0 .. Modulus - 1 /\ Modulus \in Nat \ {0}
  BY PoolAssumption
<1>2. \A m \in Nat \ {0} : \A d \in 0 .. m - 1 : d % m = d
  OBVIOUS
<1>3. QED
  BY <1>1, <1>2 DEF Age

---------------------------------------------------------------------------
(* The operations preserve Sound                                           *)

\* The pool a node starts with when no file loads.
LEMMA EmptySound ==
  ASSUME NEW at \in Nat
  PROVE  Sound(EmptyPool, at)
<1> DEFINE none == EmptyPool
<1>1. none \in PoolType
  BY DEF EmptyPool, PoolType
<1>2. /\ none.txs = {} /\ none.kept = {} /\ none.gone = {}
      /\ \A k \in Images : none.spent[k] = {}
  BY DEF EmptyPool
<1> HIDE DEF none
<1>3. Sound(none, at)
  BY <1>1, <1>2 DEF Sound, Users
<1> QED  BY <1>3 DEF none

\* Time passes.
LEMMA LaterSound ==
  ASSUME NEW p, NEW at \in Nat, NEW later \in Nat, Sound(p, at), at <= later
  PROVE  Sound(p, later)
<1>1. p.time \in [Txs -> Nat] /\ p.goneAt \in [Txs -> Nat]
      /\ p.txs \subseteq Txs /\ p.gone \subseteq Txs
  BY DEF Sound, PoolType
<1>2. /\ \A t \in p.txs : p.time[t] <= later
      /\ \A t \in p.gone : p.goneAt[t] <= later
  BY <1>1 DEF Sound
<1>3. QED
  BY <1>2 DEF Sound

\* Transactions of a block enter the pool, or one that conflicts with no other.
LEMMA InsertSound ==
  ASSUME NEW p, NEW at \in Nat, Sound(p, at),
         NEW ts \in SUBSET Txs, ts \cap p.txs = {}, NEW keep \in BOOLEAN,
         keep \/ \E u \in Txs : ts = {u} /\ ~haveSpentInputs(p, u) /\ u \notin p.gone
  PROVE  Sound(Insert(p, ts, keep, at), at)
<1> DEFINE q == Insert(p, ts, keep, at)
<1>1. p \in PoolType
  BY DEF Sound
<1>2. /\ q \in PoolType
      /\ q.txs = p.txs \cup ts
      /\ q.kept = IF keep THEN p.kept \cup ts ELSE p.kept
      /\ q.time = [t \in Txs |-> IF t \in ts THEN at ELSE p.time[t]]
      /\ q.spent = [k \in Images |-> p.spent[k] \cup {t \in ts : k \in Entered(p, t, keep)}]
      /\ q.gone = p.gone /\ q.goneAt = p.goneAt
  BY <1>1 DEF Insert, PoolType
<1> HIDE DEF q
<1>3. /\ p.time \in [Txs -> Nat] /\ p.goneAt \in [Txs -> Nat]
      /\ p.txs \subseteq Txs /\ p.gone \subseteq Txs /\ p.kept \subseteq p.txs
  BY DEF Sound, PoolType
<1>4. \A t \in ts : Entered(p, t, keep) = Image(t)
  <2> SUFFICES ASSUME NEW t \in ts PROVE Entered(p, t, keep) = Image(t)
    OBVIOUS
  <2>1. \A k \in Image(t) : t \notin p.spent[k]
    BY ImageType DEF Sound, Users
  <2>2. keep \/ ~haveSpentInputs(p, t)
    OBVIOUS
  <2> QED  BY <2>1, <2>2, EnteredAll
<1>5. \A k \in Images : q.spent[k] = Users(q, k)
  BY <1>2, <1>4 DEF Sound, Users
<1>6. \A t, u \in q.txs \ q.kept : ~Conflict(t, u)
  <2>1. CASE keep
    BY <2>1, <1>2 DEF Sound
  <2>2. CASE ~keep
    <3>1. PICK w \in Txs : ts = {w} /\ ~haveSpentInputs(p, w)
      BY <2>2
    <3>2. \A t \in p.txs : Image(t) \cap Image(w) = {}
      BY <3>1, ImageType DEF Sound, Users, haveSpentInputs
    <3>3. \A t \in q.txs \ q.kept : t = w \/ t \in p.txs \ p.kept
      BY <2>2, <3>1, <1>2
    <3>4. \A t, u \in p.txs \ p.kept : ~Conflict(t, u)
      BY DEF Sound
    <3> QED  BY <3>2, <3>3, <3>4 DEF Conflict
  <2> QED  BY <2>1, <2>2
<1>7. /\ \A t \in q.txs : q.time[t] <= at
      /\ \A t \in q.gone : q.goneAt[t] <= at
  BY <1>2, <1>3 DEF Sound
<1>8. \A t \in q.txs \cap q.gone : t \in q.kept /\ q.goneAt[t] <= q.time[t]
  BY <1>2, <1>3 DEF Sound
<1>9. q.kept \subseteq q.txs
  BY <1>2, <1>3
<1>10. Sound(q, at)
  BY <1>2, <1>5, <1>6, <1>7, <1>8, <1>9 DEF Sound
<1> QED  BY <1>10 DEF q

\* Transactions leave the pool.
LEMMA RemoveSound ==
  ASSUME NEW p, NEW at \in Nat, Sound(p, at), NEW ts \in SUBSET p.txs
  PROVE  Sound(Remove(p, ts), at)
<1> DEFINE q == Remove(p, ts)
<1>1. p \in PoolType /\ p.txs \subseteq Txs
  BY DEF Sound, PoolType
<1>2. /\ q \in PoolType
      /\ q.txs = p.txs \ ts
      /\ q.kept = p.kept \ ts
      /\ q.time = [t \in Txs |-> IF t \in ts THEN 0 ELSE p.time[t]]
      /\ q.spent = [k \in Images |-> p.spent[k] \ {t \in ts : k \in Cleared(p, t)}]
      /\ q.gone = p.gone /\ q.goneAt = p.goneAt
  BY <1>1, RemoveIs
<1> HIDE DEF q
<1>3. \A t \in ts : Cleared(p, t) = Image(t)
  <2> SUFFICES ASSUME NEW t \in ts PROVE Cleared(p, t) = Image(t)
    OBVIOUS
  <2>1. \A k \in Image(t) : t \in p.spent[k]
    BY <1>1, ImageType DEF Sound, Users
  <2> QED  BY <1>1, <2>1, ClearedAll
<1>4. \A k \in Images : q.spent[k] = Users(q, k)
  BY <1>2, <1>3 DEF Sound, Users
<1>5. /\ \A t \in q.txs : t \in p.txs /\ q.time[t] = p.time[t]
      /\ \A t \in q.txs : t \in p.kept => t \in q.kept
  BY <1>1, <1>2
<1>6. QED
  <2>1. Sound(q, at)
    BY <1>2, <1>4, <1>5 DEF Sound
  <2> QED  BY <2>1 DEF q

\* Old deletions are forgotten.
LEMMA ForgetSound ==
  ASSUME NEW p, NEW at \in Nat, Sound(p, at)
  PROVE  Sound(Forget(p, at), at)
<1> DEFINE q == Forget(p, at)
           still == {t \in p.gone : Age(at, p.goneAt[t]) <= Periods * LiveTime}
<1>1. p \in PoolType /\ p.gone \subseteq Txs
  BY DEF Sound, PoolType
<1>2. /\ q \in PoolType
      /\ q.txs = p.txs /\ q.kept = p.kept /\ q.time = p.time /\ q.spent = p.spent
      /\ q.gone = still
      /\ q.goneAt = [t \in Txs |-> IF t \in still THEN p.goneAt[t] ELSE 0]
  BY <1>1, ForgetIs
<1>3. still \subseteq p.gone
  OBVIOUS
<1> HIDE DEF q, still
<1>4. \A t \in q.gone : t \in p.gone /\ q.goneAt[t] = p.goneAt[t]
  BY <1>1, <1>2, <1>3
<1>5. \A k \in Images : Users(q, k) = Users(p, k)
  BY <1>2 DEF Users
<1>6. QED
  <2>1. Sound(q, at)
    BY <1>2, <1>4, <1>5 DEF Sound
  <2> QED  BY <2>1 DEF q

\* What expires has no date yet: a transaction that came back with a block outlives the date
\* of its first deletion, as Periods * LiveTime <= AltLiveTime.
LEMMA OldIsUndated ==
  ASSUME NEW p, NEW at \in 0 .. MaxTime, Sound(p, at)
  PROVE  LET q == Forget(p, at)
         IN  /\ Outdated(q, at) = Outdated(p, at)
             /\ Outdated(q, at) \cap q.gone = {}
<1> DEFINE q == Forget(p, at)
           still == {t \in p.gone : Age(at, p.goneAt[t]) <= Periods * LiveTime}
<1>1. p \in PoolType /\ at \in Nat
  BY PoolAssumption DEF Sound
<1>2. /\ q.txs = p.txs /\ q.kept = p.kept /\ q.time = p.time
      /\ q.gone = still
  BY <1>1, ForgetIs
<1> HIDE DEF q
<1>3. Outdated(q, at) = Outdated(p, at)
  BY <1>2 DEF Outdated
<1>4. ASSUME NEW t \in Outdated(q, at), t \in q.gone
      PROVE  FALSE
  <2>1. t \in p.txs \cap p.gone /\ Age(at, p.goneAt[t]) <= Periods * LiveTime
    BY <1>2, <1>4 DEF Outdated
  <2>2. t \in p.kept /\ p.goneAt[t] <= p.time[t] /\ p.time[t] <= at /\ p.goneAt[t] <= at
    BY <2>1 DEF Sound
  <2>3. p.goneAt[t] \in Nat /\ p.time[t] \in Nat
    BY <2>1, <1>1 DEF PoolType
  <2>4. Age(at, p.time[t]) > AltLiveTime
    BY <1>2, <1>4, <2>2 DEF Outdated
  <2>5. Age(at, p.time[t]) = at - p.time[t] /\ Age(at, p.goneAt[t]) = at - p.goneAt[t]
    BY <2>2, <2>3, AgeIs
  <2>6. Periods * LiveTime <= AltLiveTime /\ AltLiveTime \in Nat /\ Periods * LiveTime \in Nat
    BY PoolAssumption
  <2> DEFINE g == p.goneAt[t]
             r == p.time[t]
             x == Periods * LiveTime
  <2>7. at - g <= x /\ at - r > AltLiveTime /\ g <= r /\ x <= AltLiveTime
    BY <2>1, <2>2, <2>4, <2>5, <2>6
  <2>8. g \in Nat /\ r \in Nat /\ x \in Nat /\ AltLiveTime \in Nat /\ at \in Nat
    BY <2>3, <2>6, <1>1
  <2> HIDE DEF g, r, x
  <2> QED  BY <2>7, <2>8
<1>5. QED
  <2>1. Outdated(q, at) \cap q.gone = {}
    BY <1>4
  <2> QED  BY <1>3, <2>1 DEF q

\* Outdated transactions are deleted and dated.
LEMMA DeleteSound ==
  ASSUME NEW p, NEW at \in Nat, Sound(p, at)
  PROVE  Sound(Delete(p, at), at)
<1> DEFINE q   == Delete(p, at)
           old == Outdated(p, at)
           r   == Remove(p, old)
<1>1. p \in PoolType /\ p.txs \subseteq Txs /\ p.gone \subseteq Txs
      /\ p.time \in [Txs -> Nat] /\ p.goneAt \in [Txs -> Nat]
  BY DEF Sound, PoolType
<1>2. /\ q \in PoolType
      /\ old \subseteq p.txs
      /\ q.txs = r.txs /\ q.kept = r.kept /\ q.time = r.time /\ q.spent = r.spent
      /\ q.gone = p.gone \cup old
      /\ q.goneAt = [t \in Txs |-> IF t \in old \ p.gone THEN at ELSE p.goneAt[t]]
  BY <1>1, DeleteIs
<1>3. Sound(r, at)
  BY <1>2, RemoveSound
<1>4. r.txs = p.txs \ old /\ r.gone = p.gone /\ r.goneAt = p.goneAt
  <2>1. old \in SUBSET Txs
    BY <1>1, <1>2
  <2> HIDE DEF old
  <2> QED  BY <1>1, <2>1, RemoveIs
<1> HIDE DEF q, old, r
<1>5. \A t \in q.gone : q.goneAt[t] <= at
  BY <1>1, <1>2 DEF Sound
<1>6. \A t \in q.txs \cap q.gone : t \in r.gone /\ q.goneAt[t] = r.goneAt[t]
  BY <1>1, <1>2, <1>4
<1>7. \A k \in Images : Users(q, k) = Users(r, k)
  BY <1>2 DEF Users
<1>8. QED
  <2>1. Sound(q, at)
    BY <1>2, <1>3, <1>5, <1>6, <1>7 DEF Sound
  <2> QED  BY <2>1 DEF q

\* removeExpiredTransactions removes the outdated transactions and dates each with now.
LEMMA ExpireSound ==
  ASSUME NEW p, NEW at \in 0 .. MaxTime, Sound(p, at)
  PROVE  LET q == removeExpiredTransactions(p, at)
         IN  /\ Sound(q, at)
             /\ q.txs = p.txs \ Outdated(p, at)
             /\ \A t \in Outdated(p, at) : t \in q.gone /\ q.goneAt[t] = at
<1> DEFINE f == Forget(p, at)
           q == Delete(f, at)
           old == Outdated(f, at)
<1>1. at \in Nat
  BY PoolAssumption
<1>2. Sound(f, at)
  BY <1>1, ForgetSound
<1>3. Sound(q, at)
  BY <1>1, <1>2, DeleteSound
<1>4. f \in PoolType /\ p \in PoolType
  BY <1>2 DEF Sound
<1>5. f.txs = p.txs
  BY <1>1, <1>4, ForgetIs
<1>6. old = Outdated(p, at) /\ old \cap f.gone = {}
  BY OldIsUndated
<1>7. old \subseteq f.txs /\ f.txs \subseteq Txs
  BY <1>1, <1>4, DeleteIs DEF PoolType
<1>8. /\ q.txs = Remove(f, old).txs
      /\ q.gone = f.gone \cup old
      /\ q.goneAt = [t \in Txs |-> IF t \in old \ f.gone THEN at ELSE f.goneAt[t]]
  BY <1>1, <1>4, DeleteIs
<1>9. Remove(f, old).txs = f.txs \ old
  BY <1>4, <1>7, RemoveIs
<1> HIDE DEF f, old
<1>10. \A t \in old : t \in q.gone /\ q.goneAt[t] = at
  BY <1>6, <1>7, <1>8
<1>11. removeExpiredTransactions(p, at) = q
  BY DEF removeExpiredTransactions, f
<1> HIDE DEF q
<1> QED  BY <1>3, <1>5, <1>6, <1>8, <1>9, <1>10, <1>11

---------------------------------------------------------------------------
(* The inductive invariant                                                 *)

\* Of two transactions that conflict the template has at most the one that came first in
\* the fee index.
LEMMA ChosenApart ==
  ASSUME NEW ready \in SUBSET Txs, NEW picked \in SUBSET ready, Chosen(picked, ready)
  PROVE  \A t, u \in picked : ~Conflict(t, u)
<1> SUFFICES ASSUME NEW t \in picked, NEW u \in picked, Conflict(t, u)
             PROVE  FALSE
  OBVIOUS
<1>1. t # u /\ Conflict(u, t)
  BY DEF Conflict
<1>2. Priority[t] \in Nat /\ Priority[u] \in Nat /\ Priority[t] # Priority[u]
  BY <1>1, PoolAssumption
<1>3. Priority[t] < Priority[u] \/ Priority[u] < Priority[t]
  BY <1>2
<1>4. QED
  BY <1>1, <1>3 DEF Chosen

\* A new node satisfies the invariant.
LEMMA InitInv == Init => IInv
<1> SUFFICES ASSUME Init PROVE IInv
  OBVIOUS
<1>1. now \in 0 .. MaxTime /\ now \in Nat
  BY PoolAssumption DEF Init
<1>2. Sound(mem, now) /\ Sound(file, now)
  BY <1>1, EmptySound DEF Init
<1>3. chain \in Seq(Blocks) /\ Len(chain) > 0
  BY PoolAssumption DEF Init
<1>4. QED
  BY <1>1, <1>2, <1>3 DEF IInv, Init, TemplateHasNoConflict

\* A block more or a block less makes a chain, and another one.
LEMMA ChainSteps ==
  ASSUME IInv
  PROVE  /\ \A b \in Blocks : Append(chain, b) \in Seq(Blocks) /\ Len(Append(chain, b)) > 0
                               /\ Append(chain, b) # chain
         /\ Len(chain) > 1 => /\ DropTip(chain) \in Seq(Blocks) /\ Len(DropTip(chain)) > 0
                               /\ DropTip(chain) # chain
         /\ TxsOf[Tip(chain)] \in SUBSET Txs
<1>1. chain \in Seq(Blocks) /\ Len(chain) > 0
  BY DEF IInv
<1>2. \A b \in Blocks : Append(chain, b) \in Seq(Blocks) /\ Len(Append(chain, b)) = Len(chain) + 1
  BY <1>1
<1>3. Len(chain) > 1 => DropTip(chain) \in Seq(Blocks) /\ Len(DropTip(chain)) = Len(chain) - 1
  BY <1>1 DEF DropTip
<1>4. Tip(chain) \in Blocks
  BY <1>1 DEF Tip
<1>5. Len(chain) \in Nat
  BY <1>1
<1>6. QED
  BY <1>1, <1>2, <1>3, <1>4, <1>5, PoolAssumption

\* Every step preserves it.
LEMMA StepInv == IInv /\ [Next]_vars => IInv'
<1> SUFFICES ASSUME IInv, [Next]_vars PROVE IInv'
  OBVIOUS
<1> USE DEF TemplateHasNoConflict
<1>1. now \in Nat /\ mem \in PoolType /\ mem.txs \subseteq Txs
      /\ Sound(mem, now) /\ Sound(file, now)
  BY PoolAssumption DEF IInv, Sound, PoolType
<1>2. ASSUME NEW b \in Blocks, PushBlock(b) PROVE IInv'
  <2>1. TxsOf[b] \in SUBSET mem.txs /\ mem' = Remove(mem, TxsOf[b]) /\ now' = now
    BY <1>2 DEF PushBlock
  <2> DEFINE ts == TxsOf[b]
  <2>a. ts \in SUBSET mem.txs /\ ts \in SUBSET Txs
    BY <1>1, <2>1
  <2>2. Sound(mem', now') /\ mem'.txs = mem.txs \ ts
    <3> HIDE DEF ts
    <3>1. Sound(Remove(mem, ts), now)
      BY <1>1, <2>a, RemoveSound
    <3>2. Remove(mem, ts).txs = mem.txs \ ts
      BY <1>1, <2>a, RemoveIs
    <3> QED  BY <2>1, <3>1, <3>2 DEF ts
  <2>3. chain' \in Seq(Blocks) /\ Len(chain') > 0
    BY <1>2, ChainSteps DEF PushBlock
  <2> QED  BY <1>1, <1>2, <2>2, <2>3 DEF IInv, PushBlock
<1>3. ASSUME NEW b \in Blocks, PushFails(b) PROVE IInv'
  <2>1. PICK taken \in SUBSET (TxsOf[b] \cap mem.txs) :
          /\ mem' = Insert(Remove(mem, taken), taken, TRUE, now)
          /\ validated' = validated \ taken
    BY <1>3 DEF PushFails
  <2>2. taken \in SUBSET mem.txs /\ taken \in SUBSET Txs
    BY <1>1, <2>1
  <2> DEFINE r == Remove(mem, taken)
  <2>3. Sound(r, now) /\ r.txs = mem.txs \ taken /\ r \in PoolType
    <3>1. Sound(r, now)
      BY <1>1, <2>2, RemoveSound
    <3>2. r.txs = mem.txs \ taken /\ r \in PoolType
      BY <1>1, <2>2, RemoveIs
    <3> QED  BY <3>1, <3>2
  <2> HIDE DEF r
  <2>4. Sound(Insert(r, taken, TRUE, now), now)
    BY <1>1, <2>2, <2>3, InsertSound
  <2>5. Insert(r, taken, TRUE, now).txs = mem.txs
    BY <1>1, <2>2, <2>3 DEF Insert, PoolType
  <2>6. Sound(mem', now) /\ mem'.txs = mem.txs
    BY <2>1, <2>4, <2>5 DEF r
  <2> QED  BY <1>1, <1>3, <2>1, <2>6 DEF IInv, PushFails
<1>4. ASSUME PopBlock PROVE IInv'
  <2> DEFINE ts == TxsOf[Tip(chain)] \ mem.txs
  <2>1. ts \in SUBSET Txs /\ ts \cap mem.txs = {}
    BY ChainSteps
  <2>2. mem' = Insert(mem, ts, TRUE, now)
    BY <1>4 DEF PopBlock
  <2> HIDE DEF ts
  <2>3. Sound(mem', now)
    BY <1>1, <2>1, <2>2, InsertSound
  <2>4. mem.txs \subseteq mem'.txs
    BY <1>1, <2>1, <2>2 DEF Insert, PoolType
  <2>5. chain' \in Seq(Blocks) /\ Len(chain') > 0
    BY <1>4, ChainSteps DEF PopBlock
  <2> QED  BY <1>1, <1>4, <2>3, <2>4, <2>5 DEF IInv, PopBlock
<1>5. ASSUME NEW t \in Txs, AddKept(t) PROVE IInv'
  <2>1. {t} \in SUBSET Txs /\ {t} \cap mem.txs = {} /\ mem' = Insert(mem, {t}, TRUE, now)
    BY <1>5 DEF AddKept
  <2>2. Sound(mem', now)
    BY <1>1, <2>1, InsertSound
  <2>3. mem.txs \subseteq mem'.txs
    BY <1>1, <2>1 DEF Insert, PoolType
  <2> QED  BY <1>1, <1>5, <2>2, <2>3 DEF IInv, AddKept
<1>6. ASSUME NEW t \in Txs, AddNew(t) PROVE IInv'
  <2>1. {t} \in SUBSET Txs /\ {t} \cap mem.txs = {} /\ mem' = Insert(mem, {t}, FALSE, now)
        /\ ~haveSpentInputs(mem, t) /\ t \notin mem.gone
    BY <1>6 DEF AddNew
  <2>2. Sound(mem', now)
    BY <1>1, <2>1, InsertSound
  <2>3. mem.txs \subseteq mem'.txs
    BY <1>1, <2>1 DEF Insert, PoolType
  <2> QED  BY <1>1, <1>6, <2>2, <2>3 DEF IInv, AddNew
<1>7. ASSUME FillTemplate PROVE IInv'
  <2>1. PICK tried \in SUBSET mem.txs : \E fresh \in FoundReady(tried) :
          LET ready == (tried \cap validated) \cup fresh
          IN  /\ template' \in SUBSET ready /\ Chosen(template', ready)
              /\ validated' = validated \cup fresh
    BY <1>7 DEF FillTemplate
  <2>2. PICK fresh \in FoundReady(tried) :
          LET ready == (tried \cap validated) \cup fresh
          IN  /\ template' \in SUBSET ready /\ Chosen(template', ready)
              /\ validated' = validated \cup fresh
    BY <2>1
  <2> DEFINE ready == (tried \cap validated) \cup fresh
  <2>3. fresh \subseteq mem.txs
    BY <2>2 DEF FoundReady
  <2>4. ready \in SUBSET Txs
    BY <1>1, <2>3
  <2>5. template' \in SUBSET ready /\ Chosen(template', ready)
    BY <2>2
  <2> HIDE DEF ready
  <2>6. \A t, u \in template' : ~Conflict(t, u)
    BY <2>4, <2>5, ChosenApart
  <2>7. validated' = validated \cup fresh
    BY <2>2
  <2> QED  BY <1>1, <1>7, <2>3, <2>4, <2>5, <2>6, <2>7 DEF IInv, FillTemplate
<1>8. ASSUME GetDifference PROVE IInv'
  <2>1. PICK fresh \in FoundReady(mem.txs) : validated' = validated \cup fresh
    BY <1>8 DEF GetDifference
  <2>2. fresh \subseteq mem.txs
    BY <2>1 DEF FoundReady
  <2> QED  BY <1>1, <1>8, <2>1, <2>2 DEF IInv, GetDifference
<1>9. ASSUME Expire PROVE IInv'
  <2>1. now \in 0 .. MaxTime
    BY DEF IInv
  <2>2. Sound(mem', now) /\ mem'.txs = mem.txs \ Outdated(mem, now)
    BY <1>1, <1>9, <2>1, ExpireSound DEF Expire
  <2> QED  BY <1>1, <1>9, <2>2 DEF IInv, Expire
<1>10. ASSUME Stop PROVE IInv'
  BY <1>1, <1>10 DEF IInv, Stop
<1>11. ASSUME Crash PROVE IInv'
  <2>1. Sound(EmptyPool, now)
    BY <1>1, EmptySound
  <2> QED  BY <1>1, <1>11, <2>1 DEF IInv, Crash
<1>12. ASSUME Start PROVE IInv'
  <2>1. now \in 0 .. MaxTime
    BY DEF IInv
  <2>2. Sound(mem', now)
    BY <1>1, <1>12, <2>1, ExpireSound DEF Start
  <2> QED  BY <1>1, <1>12, <2>2 DEF IInv, Start
<1>13. ASSUME Tick PROVE IInv'
  <2>1. now' \in 0 .. MaxTime /\ now' \in Nat /\ now <= now'
    BY <1>1, <1>13, PoolAssumption DEF Tick
  <2>2. Sound(mem, now') /\ Sound(file, now')
    BY <1>1, <2>1, LaterSound
  <2> QED  BY <1>13, <2>1, <2>2 DEF IInv, Tick
<1>14. ASSUME UNCHANGED vars PROVE IInv'
  BY <1>14 DEF IInv, vars
<1>15. QED
  BY <1>2, <1>3, <1>4, <1>5, <1>6, <1>7, <1>8, <1>9, <1>10, <1>11, <1>12, <1>13, <1>14 DEF Next

---------------------------------------------------------------------------
(* Theorems *)

\* The inductive invariant holds for all transactions, blocks and times.
THEOREM PoolInv == Spec => []IInv
BY InitInv, StepInv, PTL DEF Spec

\* Types, and the cache m_validated_transactions only ever names transactions of the pool.
THEOREM PoolTypes == Spec => []TypeOK
<1>1. IInv => TypeOK
  BY PoolAssumption DEF IInv, TypeOK, Sound
<1>2. QED
  BY <1>1, PoolInv, PTL

\* m_spent_key_images is exactly the index of the inputs, in memory and in the file, so
\* that addTransactionInputs and removeTransactionInputs never meet an error.
THEOREM IndexIsExact == Spec => []KeyImagesIndexed
<1>1. IInv => KeyImagesIndexed
  BY DEF IInv, KeyImagesIndexed, Sound
<1>2. QED
  BY <1>1, PoolInv, PTL

\* Of the transactions that spend one key image at most one was not kept by a block.
THEOREM NoDoubleSpendAccepted == Spec => []OneNotKept
<1>1. IInv => OneNotKept
  BY DEF IInv, OneNotKept, Sound
<1>2. QED
  BY <1>1, PoolInv, PTL

\* fill_block_template never selects two transactions with one key image.
THEOREM TemplatesAreCompatible == Spec => []TemplateHasNoConflict
<1>1. IInv => TemplateHasNoConflict
  BY DEF IInv
<1>2. QED
  BY <1>1, PoolInv, PTL

\* While the node runs and the chain stands, only on_idle makes the pool smaller.
LEMMA OnlyExpireRemoves ==
  ASSUME IInv, [Next]_vars, up, up', chain' = chain, NEW t \in mem.txs \ mem'.txs
  PROVE  Expire
<1>1. mem \in PoolType /\ now \in Nat /\ mem.txs \subseteq Txs
  <2>1. mem \in PoolType
    BY DEF IInv, Sound
  <2>2. now \in Nat
    BY PoolAssumption DEF IInv
  <2>3. mem.txs \subseteq Txs
    BY <2>1 DEF PoolType
  <2> QED  BY <2>1, <2>2, <2>3
<1>2. ASSUME NEW b \in Blocks, PushBlock(b) PROVE FALSE
  BY <1>2, ChainSteps DEF PushBlock
<1>3. ASSUME NEW b \in Blocks, PushFails(b) PROVE FALSE
  <2>1. PICK taken \in SUBSET (TxsOf[b] \cap mem.txs) :
          mem' = Insert(Remove(mem, taken), taken, TRUE, now)
    BY <1>3 DEF PushFails
  <2> DEFINE r == Remove(mem, taken)
  <2>2. r.txs = mem.txs \ taken /\ r \in PoolType
    BY <1>1, RemoveIs
  <2> HIDE DEF r
  <2>3. Insert(r, taken, TRUE, now).txs = mem.txs
    BY <1>1, <2>2 DEF Insert, PoolType
  <2> QED  BY <2>1, <2>3 DEF r
<1>4. ASSUME PopBlock PROVE FALSE
  BY <1>4, ChainSteps DEF PopBlock
<1>5. ASSUME NEW u \in Txs, AddKept(u) \/ AddNew(u) PROVE FALSE
  <2>1. PICK keep \in BOOLEAN : mem' = Insert(mem, {u}, keep, now)
    BY <1>5 DEF AddKept, AddNew
  <2>2. mem'.txs = mem.txs \cup {u}
    BY <1>1, <2>1 DEF Insert, PoolType
  <2> QED  BY <2>2
<1>6. ASSUME FillTemplate \/ GetDifference \/ Stop \/ Crash \/ Tick \/ UNCHANGED vars
      PROVE  FALSE
  BY <1>6 DEF FillTemplate, GetDifference, Stop, Crash, Tick, vars
<1>7. ~Start
  BY DEF Start
<1>8. QED
  BY <1>2, <1>3, <1>4, <1>5, <1>6, <1>7 DEF Next

\* A transaction that expires is dated with the moment it expires, though emplace does not
\* overwrite a date: the pool has none for it.
THEOREM ExpiryIsDated == Spec => DeletionIsDated
<1>1. ASSUME IInv, [Next]_vars, up, up', chain' = chain, NEW t \in mem.txs \ mem'.txs
      PROVE  t \in mem'.gone /\ mem'.goneAt[t] = now
  <2>1. Expire
    BY <1>1, OnlyExpireRemoves
  <2>2. Sound(mem, now) /\ now \in 0 .. MaxTime
    BY <1>1 DEF IInv
  <2> QED  BY <1>1, <2>1, <2>2, ExpireSound DEF Expire
<1>2. IInv /\ [Next]_vars =>
        [up /\ up' /\ chain' = chain =>
           \A t \in mem.txs \ mem'.txs : t \in mem'.gone /\ mem'.goneAt[t] = now]_vars
  BY <1>1
<1>3. QED
  BY <1>2, PoolInv, PTL DEF Spec, DeletionIsDated

\* Only transactions older than their life time expire: the unsigned ages do not wrap.
THEOREM ExpiryIsLate == Spec => OnlyOldExpire
<1>1. ASSUME IInv, [Next]_vars, up, up', chain' = chain, NEW t \in mem.txs \ mem'.txs
      PROVE  now > mem.time[t] + IF t \in mem.kept THEN AltLiveTime ELSE LiveTime
  <2> DEFINE life == IF t \in mem.kept THEN AltLiveTime ELSE LiveTime
  <2>1. Expire
    BY <1>1, OnlyExpireRemoves
  <2>2. Sound(mem, now) /\ now \in 0 .. MaxTime /\ now \in Nat
    BY <1>1, PoolAssumption DEF IInv
  <2>3. t \in Outdated(mem, now)
    BY <1>1, <2>1, <2>2, ExpireSound DEF Expire
  <2>4. mem.time[t] \in Nat /\ mem.time[t] <= now
    BY <1>1, <2>2 DEF Sound, PoolType
  <2>5. Age(now, mem.time[t]) = now - mem.time[t]
    BY <2>2, <2>4, AgeIs
  <2>6. Age(now, mem.time[t]) > life
    BY <2>3 DEF Outdated
  <2>7. life \in Nat
    BY PoolAssumption
  <2> HIDE DEF life
  <2>8. now > mem.time[t] + life
    BY <2>2, <2>4, <2>5, <2>6, <2>7
  <2> QED  BY <2>8 DEF life
<1>2. IInv /\ [Next]_vars =>
        [up /\ up' /\ chain' = chain =>
           \A t \in mem.txs \ mem'.txs :
             now > mem.time[t] + IF t \in mem.kept THEN AltLiveTime ELSE LiveTime]_vars
  BY <1>1
<1>3. QED
  BY <1>2, PoolInv, PTL DEF Spec, OnlyOldExpire
=============================================================================
