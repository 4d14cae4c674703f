---------------------------- MODULE SyncProtocol ----------------------------
(***************************************************************************)
(* Chain synchronisation as one node does it: the connection loop of       *)
(* NodeServer and the handlers of CryptoNoteProtocolHandler, over an       *)
(* abstract Core that holds a tree of blocks.                              *)
(*                                                                         *)
(* Each connection leads to a peer that runs the same program and has a    *)
(* main chain of its own.  A connection is served by one coroutine, so a   *)
(* handler is one step; only processObjects yields, after each block, and  *)
(* lets the other connections run.  Links keep the order of messages.      *)
(*                                                                         *)
(* Blocks are sound and transactions are abstract: whether the node has    *)
(* those of a lite block is a choice.  Heights in messages count blocks,   *)
(* m_last_response_height is an index, as in the code.                     *)
(***************************************************************************)
EXTENDS Chains, Integers, FiniteSets

CONSTANTS
  Conns,          \* the connections, each to a peer of its own
  Blocks,
  Genesis,
  ChainOf,        \* ChainOf[b]: the chain that ends in b
  CumDifficulty,
  Batch,          \* BLOCKS_SYNCHRONIZING_DEFAULT_COUNT
  IdsCount,       \* BLOCKS_IDS_SYNCHRONIZING_DEFAULT_COUNT
  None,           \* boost::none
  PeerTips,       \* the tips the peers may start with
  Mined,          \* the blocks this node may mine
  Unasked,        \* the kinds of messages peers send unasked
  MaxLink,        \* bound on what a peer sends unasked
  MaxCuts         \* bound on connections cut from outside

ASSUME TreeAssumption ==
  /\ ChainOf[Genesis] = <<Genesis>>
  /\ \A b \in Blocks \ {Genesis} :
       /\ Tip(ChainOf[b]) = b
       /\ \E p \in Blocks : /\ DropTip(ChainOf[b]) = ChainOf[p]
                            /\ CumDifficulty[p] < CumDifficulty[b]
  /\ Batch \in Nat \ {0}
  /\ IdsCount \in Nat \ {0, 1}

VARIABLES
  core,             \* tip of the main chain, and every block of it or beside it
  ctx,              \* CryptoNoteConnectionContext of each connection
  toPeer,           \* messages on their way to the peer
  fromPeer,         \* messages on their way from the peer
  peerTip,          \* tip of each peer's main chain
  m_peersCount,
  m_observedHeight,
  m_synchronized,
  listed,           \* history: the ids of the last chain entry of each connection
  cuts              \* connections cut so far

links == <<toPeer, fromPeer>>
vars == <<core, ctx, toPeer, fromPeer, peerTip, m_peersCount, m_observedHeight,
          m_synchronized, listed, cuts>>

Count(b) == Len(ChainOf[b])

Larger(m, n) == IF m > n THEN m ELSE n

States == {"closed", "befor_handshake", "synchronizing", "idle", "normal",
           "sync_required", "pool_sync_required", "shutdown"}

\* A connection that is not in m_connections; also a fresh context but for its state.
Closed == [m_state |-> "closed", m_peer_counted |-> FALSE, m_pending_lite_block |-> None,
           m_needed_objects |-> <<>>, m_requested_objects |-> {},
           m_remote_blockchain_height |-> 0, m_last_response_height |-> 0,
           yielded |-> FALSE, blocks |-> <<>>]

\* The coroutine waits in readCommand.
Reading(c) ==
  /\ ctx[c].m_state \in {"synchronizing", "idle", "normal"}
  /\ ~ctx[c].yielded

Init ==
  /\ core = [tip |-> Genesis, known |-> {Genesis}]
  /\ ctx = [c \in Conns |-> Closed]
  /\ toPeer = [c \in Conns |-> <<>>]
  /\ fromPeer = [c \in Conns |-> <<>>]
  /\ peerTip \in [Conns -> PeerTips]
  /\ m_peersCount = 0
  /\ m_observedHeight = 0
  /\ m_synchronized = FALSE
  /\ listed = [c \in Conns |-> {}]
  /\ cuts = 0
-----------------------------------------------------------------------------
(***************************************************************************)
(* The core.                                                               *)
(***************************************************************************)

have_block(b) == b \in core.known

\* What block_verification_context says of b.
Verdict(b) ==
  LET prev == Tip(DropTip(ChainOf[b])) IN
  CASE have_block(b) -> "already_exists"
    [] ~have_block(b) /\ prev = core.tip -> "main"
    [] /\ ~have_block(b) /\ prev # core.tip /\ have_block(prev)
       -> IF CumDifficulty[b] > CumDifficulty[core.tip] THEN "switched" ELSE "alternative"
    [] OTHER -> "orphaned"

\* Mutant of handle_incoming_block: the block is not entered where haveBlock looks.
HandleUnentered(b) ==
  core' = IF Verdict(b) \in {"main", "switched"} THEN [core EXCEPT !.tip = b] ELSE core

handle_incoming_block(b) ==
  core' = CASE Verdict(b) \in {"main", "switched"} -> [tip |-> b, known |-> core.known \cup {b}]
            [] Verdict(b) = "alternative" -> [core EXCEPT !.known = @ \cup {b}]
            [] OTHER -> core

\* The ids at distance 0, 1, 3, 7, ... from the tip, and genesis.  They are sent by falling
\* height, so the first one the peer has is the highest one: a set tells as much.
buildSparseChain ==
  LET n == Count(core.tip) IN
  {ChainOf[core.tip][n + 1 - d] : d \in {2 ^ k : k \in 0 .. n} \cap 1 .. n} \cup {Genesis}

\* The answer of a peer with main chain chain: its ids from the highest one in ids on.
findBlockchainSupplement(chain, ids) ==
  LET at == {i \in 1 .. Len(chain) : chain[i] \in ids}
      from == CHOOSE i \in at : \A j \in at : j <= i
      to == IF from + IdsCount - 1 < Len(chain) THEN from + IdsCount - 1 ELSE Len(chain)
  IN [kind |-> "chain_entry", block_ids |-> SubSeq(chain, from, to),
      start_height |-> from - 1, total_height |-> Len(chain)]
-----------------------------------------------------------------------------
(***************************************************************************)
(* Observed height, and the requests handlers send.                        *)
(***************************************************************************)

recalculateMaxObservedHeight(c) ==
  LET heights == {ctx[d].m_remote_blockchain_height : d \in Conns \ {c}}
                 \cup {Count(core.tip)}
  IN CHOOSE h \in heights : \A k \in heights : k <= h

\* m_observedHeight after peerHeight came on c, whose context still has the height before.
ObservedAfter(c, peerHeight) ==
  LET before == ctx[c].m_remote_blockchain_height IN
  CASE peerHeight > before -> Larger(m_observedHeight, peerHeight)
    [] peerHeight < before /\ before = m_observedHeight -> recalculateMaxObservedHeight(c)
    [] OTHER -> m_observedHeight

RequestChain == [kind |-> "request_chain", block_ids |-> buildSparseChain]

\* Context x of c and messages msgs are what a handler leaves behind.
Leave(c, x, msgs) ==
  /\ ctx' = [ctx EXCEPT ![c] = x]
  /\ toPeer' = [toPeer EXCEPT ![c] = @ \o msgs]

\* How far one request reads m_needed_objects: up to its Batch-th block the node lacks.
Taken(needed, lacking) ==
  LET at == {i \in 1 .. Len(needed) : needed[i] \in lacking} IN
  IF Cardinality(at) < Batch
    THEN Len(needed)
    ELSE CHOOSE i \in at : Cardinality({j \in at : j <= i}) = Batch

\* The request for the next objects, from context x; check is check_having_blocks.
RequestObjects(c, x, check) ==
  LET needed == x.m_needed_objects
      lacking == IF check THEN Blocks \ core.known ELSE Blocks
      taken == Taken(needed, lacking)
      Lacks(b) == b \in lacking
      asked == SelectSeq(SubSeq(needed, 1, taken), Lacks)
  IN Leave(c, [x EXCEPT !.m_needed_objects = SubSeq(needed, taken + 1, Len(needed)),
                        !.m_requested_objects = @ \cup BlocksOf(asked)],
           <<[kind |-> "request_objects", blocks |-> asked]>>)

\* request_missing_objects from context x; where it returns false, onFalse is the state the
\* caller leaves the connection in.
request_missing_objects(c, x, check, onFalse) ==
  LET last == x.m_last_response_height
      remote == x.m_remote_blockchain_height
      more == x.m_needed_objects # <<>>
      done == last = remote - 1 /\ x.m_requested_objects = {}
  IN \/ /\ more
        /\ RequestObjects(c, x, check)
        /\ UNCHANGED m_synchronized
     \/ /\ ~more /\ last < remote - 1
        /\ Leave(c, x, <<RequestChain>>)
        /\ UNCHANGED m_synchronized
     \/ /\ ~more /\ last >= remote - 1 /\ done
        /\ Leave(c, [x EXCEPT !.m_state = "normal"], <<>>)
        /\ m_synchronized' = TRUE
     \/ /\ ~more /\ last >= remote - 1 /\ ~done
        /\ Leave(c, [x EXCEPT !.m_state = onFalse], <<>>)
        /\ UNCHANGED m_synchronized
-----------------------------------------------------------------------------
(***************************************************************************)
(* Opening, starting and closing a connection.                             *)
(***************************************************************************)

SyncData(c, initial) == [kind |-> "sync_data", top_id |-> peerTip[c],
                         current_height |-> Count(peerTip[c]), initial |-> initial]

\* A connection is made, by either side; the peer's half of the handshake is on its way.
Connect(c) ==
  /\ ctx[c].m_state = "closed"
  /\ ctx' = [ctx EXCEPT ![c].m_state = "befor_handshake"]
  /\ fromPeer' = [fromPeer EXCEPT ![c] = <<SyncData(c, TRUE)>>]
  /\ UNCHANGED <<core, toPeer, peerTip, m_peersCount, m_observedHeight, m_synchronized,
                 listed, cuts>>

\* Mutant of AfterSyncData: a connection that is synchronizing starts again.
AfterSyncDataRestarts(c, msg) ==
  IF have_block(msg.top_id)
    THEN IF msg.initial THEN "pool_sync_required" ELSE "normal"
    ELSE "sync_required"

\* The state that sync data leaves c in.  A peer far behind on a fork in the checkpoint zone
\* is given a fail mark besides; the state_shutdown that drop_connection sets for it is
\* overwritten by state_sync_required.
AfterSyncData(c, msg) ==
  CASE ctx[c].m_state = "synchronizing" -> "synchronizing"
    [] ctx[c].m_state # "synchronizing" /\ have_block(msg.top_id)
       -> IF msg.initial THEN "pool_sync_required" ELSE "normal"
    [] OTHER -> "sync_required"

\* Mutant of Counts: every sync data counts.
CountsAlways(c, msg) == TRUE

\* Sync data msg makes c one more peer.
Counts(c, msg) == msg.initial /\ ~ctx[c].m_peer_counted

process_payload_sync_data(c, msg) ==
  /\ ctx' = [ctx EXCEPT ![c].m_state = AfterSyncData(c, msg),
                        ![c].m_peer_counted = @ \/ Counts(c, msg),
                        ![c].m_remote_blockchain_height = msg.current_height]
  /\ m_observedHeight' = ObservedAfter(c, msg.current_height)
  /\ m_peersCount' = m_peersCount + (IF Counts(c, msg) THEN 1 ELSE 0)
  /\ m_synchronized' = (m_synchronized \/ AfterSyncData(c, msg) = "pool_sync_required")
  /\ UNCHANGED <<core, toPeer, listed>>

\* The top of the connection loop.
LoopTop(c) ==
  /\ \/ /\ ctx[c].m_state = "sync_required"
        /\ Leave(c, [ctx[c] EXCEPT !.m_state = "synchronizing"], <<RequestChain>>)
     \/ /\ ctx[c].m_state = "pool_sync_required"
        /\ Leave(c, [ctx[c] EXCEPT !.m_state = "normal"], <<>>)
  /\ UNCHANGED <<core, fromPeer, peerTip, m_peersCount, m_observedHeight, m_synchronized,
                 listed, cuts>>

\* The connection leaves m_connections; what is on its links is lost.
onConnectionClosed(c) ==
  /\ m_observedHeight' = recalculateMaxObservedHeight(c)
  /\ m_peersCount' = IF ctx[c].m_peer_counted /\ m_peersCount > 0
                       THEN m_peersCount - 1 ELSE m_peersCount
  /\ ctx' = [ctx EXCEPT ![c] = Closed]
  /\ toPeer' = [toPeer EXCEPT ![c] = <<>>]
  /\ fromPeer' = [fromPeer EXCEPT ![c] = <<>>]
  /\ listed' = [listed EXCEPT ![c] = {}]
  /\ UNCHANGED <<core, peerTip, m_synchronized>>

\* The loop ends after a handler asked for shutdown.
Shutdown(c) ==
  /\ ctx[c].m_state = "shutdown"
  /\ onConnectionClosed(c)
  /\ UNCHANGED cuts

\* The peer closes, the connection breaks, a write takes too long or its queue is full.
Cut(c) ==
  /\ cuts < MaxCuts
  /\ ctx[c].m_state # "closed" /\ ~ctx[c].yielded
  /\ onConnectionClosed(c)
  /\ cuts' = cuts + 1
-----------------------------------------------------------------------------
(***************************************************************************)
(* Blocks that peers announce.                                             *)
(***************************************************************************)

\* The connection's context after msg told the peer's height.
Told(c, msg) == [ctx[c] EXCEPT !.m_remote_blockchain_height = msg.current_height]

\* A block that came on c goes to the core; context x is what c has so far.
PushAnnounced(c, b, x) ==
  /\ handle_incoming_block(b)
  /\ IF Verdict(b) = "orphaned"
       THEN Leave(c, [x EXCEPT !.m_state = "synchronizing"], <<RequestChain>>)
       ELSE Leave(c, x, <<>>)

handle_notify_new_block(c, msg) ==
  /\ m_observedHeight' = ObservedAfter(c, msg.current_height)
  /\ IF ctx[c].m_state = "normal"
       THEN PushAnnounced(c, msg.block, Told(c, msg))
       ELSE Leave(c, Told(c, msg), <<>>) /\ UNCHANGED core
  /\ UNCHANGED <<m_peersCount, m_synchronized, listed>>

\* Block b came without its transactions, or they came after it in txs; x is c's context.
\* What the node has of the block's transactions besides may or may not be all the others.
doPushLiteBlock(c, b, x, txs) ==
  LET pending == x.m_pending_lite_block
      settled == [x EXCEPT !.m_pending_lite_block = None]
      dropped == [settled EXCEPT !.m_state = "shutdown"]
  IN \/ /\ pending # None /\ txs # pending
        /\ Leave(c, dropped, <<>>) /\ UNCHANGED core
     \/ /\ pending \in {None, txs}
        /\ PushAnnounced(c, b, settled)
     \/ /\ pending # None /\ txs = pending
        /\ Leave(c, dropped, <<>>) /\ UNCHANGED core
     \/ /\ pending = None
        /\ Leave(c, [x EXCEPT !.m_pending_lite_block = b],
                 <<[kind |-> "missing_txs", block |-> b]>>)
        /\ UNCHANGED core

handle_notify_new_lite_block(c, msg) ==
  /\ m_observedHeight' = ObservedAfter(c, msg.current_height)
  /\ IF ctx[c].m_state = "normal"
       THEN doPushLiteBlock(c, msg.block, Told(c, msg), None)
       ELSE Leave(c, Told(c, msg), <<>>) /\ UNCHANGED core
  /\ UNCHANGED <<m_peersCount, m_synchronized, listed>>

\* Transactions go to the pool, unless a lite block waits for some: msg.of is the block
\* whose missing transactions these are, None when they are others.
handle_notify_new_transactions(c, msg) ==
  /\ IF ctx[c].m_state = "normal" /\ ctx[c].m_pending_lite_block # None
       THEN doPushLiteBlock(c, ctx[c].m_pending_lite_block, ctx[c], msg.of)
       ELSE UNCHANGED <<core, ctx, toPeer>>
  /\ UNCHANGED <<m_peersCount, m_observedHeight, m_synchronized, listed>>
-----------------------------------------------------------------------------
(***************************************************************************)
(* The synchronisation itself.                                             *)
(***************************************************************************)

handle_response_chain_entry(c, msg) ==
  LET ids == msg.block_ids
      last == msg.start_height + Len(ids) - 1
      Lacks(b) == ~have_block(b)
      wrong == last > msg.total_height
      x == [ctx[c] EXCEPT
              !.m_state = IF wrong THEN "shutdown" ELSE @,
              !.m_remote_blockchain_height = msg.total_height,
              !.m_last_response_height = last,
              !.m_needed_objects = @ \o SelectSeq(ids, Lacks)]
  IN /\ IF ids = <<>> \/ ~have_block(ids[1])
          THEN /\ Leave(c, [ctx[c] EXCEPT !.m_state = "shutdown"], <<>>)
               /\ UNCHANGED <<m_synchronized, listed>>
          ELSE /\ request_missing_objects(c, x, FALSE, "shutdown")
               /\ listed' = [listed EXCEPT ![c] = BlocksOf(ids)]
     /\ UNCHANGED <<core, m_peersCount, m_observedHeight>>

\* Mutant of Idle: the lists are kept.
IdleKeepsLists(x) == [x EXCEPT !.m_state = "idle"]

\* Context x without anything left to fetch.
Idle(x) == [x EXCEPT !.m_state = "idle", !.m_needed_objects = <<>>,
                     !.m_requested_objects = {}]

\* processObjects from context x, up to its next yield.
processObjects(c, x, blocks) ==
  LET b == Head(blocks)
      yields == [x EXCEPT !.yielded = TRUE, !.blocks = Tail(blocks)]
      ends == [x EXCEPT !.yielded = FALSE, !.blocks = <<>>]
  IN /\ handle_incoming_block(b)
     /\ Leave(c, CASE Verdict(b) = "orphaned" -> [ends EXCEPT !.m_state = "shutdown"]
                   [] Verdict(b) = "already_exists" -> Idle(ends)
                   [] OTHER -> yields,
              <<>>)
     /\ UNCHANGED m_synchronized

\* The end of handle_response_get_objects, from context x.
ObjectsDone(c, x) ==
  /\ IF x.m_state = "synchronizing"
       THEN request_missing_objects(c, x, TRUE, x.m_state)
       ELSE Leave(c, x, <<>>) /\ UNCHANGED m_synchronized
  /\ UNCHANGED core

\* Mutant of Dismissed: one block more.
DismissedTooMany(blocks) ==
  IF core.tip \in BlocksOf(blocks)
    THEN SubSeq(blocks, 2 + CHOOSE i \in 1 .. Len(blocks) : blocks[i] = core.tip, Len(blocks))
    ELSE blocks

\* The blocks after the node's top, when it is among them.
Dismissed(blocks) ==
  IF core.tip \in BlocksOf(blocks)
    THEN SubSeq(blocks, 1 + CHOOSE i \in 1 .. Len(blocks) : blocks[i] = core.tip, Len(blocks))
    ELSE blocks

handle_response_get_objects(c, msg) ==
  LET ids == msg.blocks
      requested == ctx[c].m_requested_objects
      taken == [Told(c, msg) EXCEPT !.m_requested_objects = {}]
      refused == [Told(c, msg) EXCEPT !.m_state = "shutdown"]
      rest == Dismissed(ids)
      early == ids = <<>> \/ ctx[c].m_last_response_height > msg.current_height
      Stop(x) == Leave(c, x, <<>>) /\ UNCHANGED <<core, m_synchronized>>
  IN /\ IF early
          THEN /\ Stop([ctx[c] EXCEPT !.m_state = "shutdown"])
               /\ UNCHANGED m_observedHeight
          ELSE /\ m_observedHeight' = ObservedAfter(c, msg.current_height)
               /\ CASE ids[1] \notin requested -> Stop(refused)
                    [] /\ ids[1] \in requested
                       /\ Len(ids) > 1 /\ have_block(ids[2]) -> Stop(Idle(taken))
                    [] /\ ids[1] \in requested
                       /\ ~(Len(ids) > 1 /\ have_block(ids[2]))
                       /\ BlocksOf(ids) # requested -> Stop(refused)
                    [] OTHER -> IF rest = <<>> THEN ObjectsDone(c, taken)
                                               ELSE processObjects(c, taken, rest)
     /\ UNCHANGED <<m_peersCount, listed>>

\* The coroutine of c runs again after the yield.
Resume(c) ==
  /\ ctx[c].yielded
  /\ IF ctx[c].blocks = <<>>
       THEN ObjectsDone(c, [ctx[c] EXCEPT !.yielded = FALSE])
       ELSE processObjects(c, ctx[c], ctx[c].blocks)
  /\ UNCHANGED <<fromPeer, peerTip, m_peersCount, m_observedHeight, listed, cuts>>
-----------------------------------------------------------------------------
(***************************************************************************)
(* The coroutine of a connection reads a command.                          *)
(***************************************************************************)

Handle(c, msg) ==
  CASE msg.kind = "sync_data" -> process_payload_sync_data(c, msg)
    [] msg.kind = "new_block" -> handle_notify_new_block(c, msg)
    [] msg.kind = "new_lite_block" -> handle_notify_new_lite_block(c, msg)
    [] msg.kind = "new_transactions" -> handle_notify_new_transactions(c, msg)
    [] msg.kind = "chain_entry" -> handle_response_chain_entry(c, msg)
    [] msg.kind = "objects" -> handle_response_get_objects(c, msg)

Receive(c) ==
  /\ Reading(c) \/ ctx[c].m_state = "befor_handshake"
  /\ fromPeer[c] # <<>>
  /\ fromPeer' = [fromPeer EXCEPT ![c] = Tail(@)]
  /\ Handle(c, Head(fromPeer[c]))
  /\ UNCHANGED <<peerTip, cuts>>

\* The miner, or a client that submits a block, extends the main chain.
MineBlock(b) ==
  /\ Verdict(b) = "main"
  /\ handle_incoming_block(b)
  /\ UNCHANGED <<ctx, links, peerTip, m_peersCount, m_observedHeight, m_synchronized,
                 listed, cuts>>
-----------------------------------------------------------------------------
(***************************************************************************)
(* The peers, which run the same code.                                     *)
(***************************************************************************)

Sends(c, msg) == fromPeer' = [fromPeer EXCEPT ![c] = Append(@, msg)]

Handshaken(c) == ctx[c].m_state \notin {"closed", "befor_handshake"}

\* The peer's answer to msg: its handle_request_chain, handle_request_get_objects (with the
\* blocks of its main chain only) and handle_notify_missing_txs.
Answer(c, msg) ==
  LET chain == ChainOf[peerTip[c]]
      OnMain(b) == b \in BlocksOf(chain)
  IN CASE msg.kind = "request_chain" -> findBlockchainSupplement(chain, msg.block_ids)
       [] msg.kind = "request_objects" ->
            [kind |-> "objects", blocks |-> SelectSeq(msg.blocks, OnMain),
             current_height |-> Len(chain)]
       [] msg.kind = "missing_txs" -> [kind |-> "new_transactions", of |-> msg.block]

PeerAnswers(c) ==
  /\ toPeer[c] # <<>>
  /\ toPeer' = [toPeer EXCEPT ![c] = Tail(@)]
  /\ Sends(c, Answer(c, Head(toPeer[c])))
  /\ UNCHANGED <<core, ctx, peerTip, m_peersCount, m_observedHeight, m_synchronized,
                 listed, cuts>>

\* Mutant of timedSync: idle connections are left alone.
timedSyncNormal(c) ==
  /\ ctx[c].m_state = "normal"
  /\ \A i \in 1 .. Len(fromPeer[c]) : fromPeer[c][i].kind # "sync_data"
  /\ Sends(c, SyncData(c, FALSE))
  /\ UNCHANGED <<core, ctx, toPeer, peerTip, m_peersCount, m_observedHeight, m_synchronized,
                 listed, cuts>>

\* The timed sync of this node, which goes to normal and idle connections, is answered.
timedSync(c) ==
  /\ ctx[c].m_state \in {"normal", "idle"}
  /\ \A i \in 1 .. Len(fromPeer[c]) : fromPeer[c][i].kind # "sync_data"
  /\ Sends(c, SyncData(c, FALSE))
  /\ UNCHANGED <<core, ctx, toPeer, peerTip, m_peersCount, m_observedHeight, m_synchronized,
                 listed, cuts>>

\* The timed sync of the peer, which goes by the peer's state of the connection, not by this
\* node's; the answer of handle_timed_sync changes nothing that is modelled of the peer.
PeerTimedSync(c) ==
  /\ "timed_sync" \in Unasked
  /\ Handshaken(c) /\ Len(fromPeer[c]) < MaxLink
  /\ Sends(c, SyncData(c, FALSE))
  /\ UNCHANGED <<core, ctx, toPeer, peerTip, m_peersCount, m_observedHeight, m_synchronized,
                 listed, cuts>>

\* The peer's main chain becomes a heavier one, and the peer may announce its tip.
PeerMoves(c, b) ==
  /\ CumDifficulty[b] > CumDifficulty[peerTip[c]]
  /\ peerTip' = [peerTip EXCEPT ![c] = b]
  /\ \/ UNCHANGED fromPeer
     \/ /\ Handshaken(c) /\ Len(fromPeer[c]) < MaxLink
        /\ \E kind \in Unasked \cap {"new_block", "new_lite_block"} :
             Sends(c, [kind |-> kind, block |-> b, current_height |-> Count(b)])
  /\ UNCHANGED <<core, ctx, toPeer, m_peersCount, m_observedHeight, m_synchronized,
                 listed, cuts>>

\* The peer relays transactions of its own accord.  Only those that find a lite block waiting
\* matter, so one is waiting or on its way: the others go to the pool, which is not modelled.
PeerRelaysTransactions(c) ==
  /\ "new_transactions" \in Unasked
  /\ \/ ctx[c].m_pending_lite_block # None
     \/ \E i \in 1 .. Len(fromPeer[c]) : fromPeer[c][i].kind = "new_lite_block"
  /\ Handshaken(c) /\ Len(fromPeer[c]) < MaxLink
  /\ Sends(c, [kind |-> "new_transactions", of |-> None])
  /\ UNCHANGED <<core, ctx, toPeer, peerTip, m_peersCount, m_observedHeight, m_synchronized,
                 listed, cuts>>
-----------------------------------------------------------------------------

Next ==
  \/ \E c \in Conns :
       \/ Connect(c) \/ LoopTop(c) \/ Receive(c) \/ Resume(c) \/ Shutdown(c) \/ Cut(c)
       \/ PeerAnswers(c) \/ timedSync(c) \/ PeerTimedSync(c) \/ PeerRelaysTransactions(c)
       \/ \E b \in Blocks : PeerMoves(c, b)
  \/ \E b \in Mined : MineBlock(b)

\* Coroutines run, links deliver, peers answer, the connection maker and the timed sync
\* loop come round; peers need not move or relay, and nothing need be mined or cut.
Fairness ==
  \A c \in Conns :
    /\ WF_vars(Connect(c)) /\ WF_vars(LoopTop(c)) /\ WF_vars(Receive(c))
    /\ WF_vars(Resume(c)) /\ WF_vars(Shutdown(c))
    /\ WF_vars(PeerAnswers(c)) /\ WF_vars(timedSync(c))

Spec == Init /\ [][Next]_vars /\ Fairness
-----------------------------------------------------------------------------
(***************************************************************************)
(* Properties.                                                             *)
(***************************************************************************)

TypeOK ==
  /\ core.tip \in core.known /\ core.known \subseteq Blocks
  /\ \A c \in Conns :
       /\ ctx[c].m_state \in States
       /\ ctx[c].m_peer_counted \in BOOLEAN /\ ctx[c].yielded \in BOOLEAN
       /\ ctx[c].m_pending_lite_block \in Blocks \cup {None}
       /\ ctx[c].m_requested_objects \subseteq Blocks
       /\ BlocksOf(ctx[c].m_needed_objects) \cup BlocksOf(ctx[c].blocks) \subseteq Blocks
       /\ {ctx[c].m_remote_blockchain_height, ctx[c].m_last_response_height} \subseteq Nat
  /\ peerTip \in [Conns -> Blocks]
  /\ m_peersCount \in Nat /\ m_observedHeight \in Nat /\ m_synchronized \in BOOLEAN

\* The requests and answers of the synchronisation that are on their way on c.
Exchanges(c) ==
  {<<"to", i>> : i \in {j \in 1 .. Len(toPeer[c]) :
                          toPeer[c][j].kind \in {"request_chain", "request_objects"}}}
  \cup {<<"from", i>> : i \in {j \in 1 .. Len(fromPeer[c]) :
                                 fromPeer[c][j].kind \in {"chain_entry", "objects"}}}

\* A synchronizing connection waits for exactly one answer, unless it is busy with the
\* last one, and no other connection waits for any: a synchronisation can neither stall
\* nor mistake an answer.
OneExchange ==
  \A c \in Conns :
    Cardinality(Exchanges(c)) =
      IF ctx[c].m_state = "synchronizing" /\ ~ctx[c].yielded THEN 1 ELSE 0

\* What start_sync asserts, of every connection that could start: only a synchronizing
\* connection has objects to fetch, and it has requested just those its request names.
FetchListsMatch ==
  \A c \in Conns :
    LET x == ctx[c]
        asked == {i \in 1 .. Len(toPeer[c]) : toPeer[c][i].kind = "request_objects"}
        given == {i \in 1 .. Len(fromPeer[c]) : fromPeer[c][i].kind = "objects"}
    IN /\ x.m_state \in {"befor_handshake", "idle", "normal", "sync_required",
                         "pool_sync_required"}
            => x.m_needed_objects = <<>> /\ x.m_requested_objects = {}
       /\ x.m_state = "synchronizing" =>
            /\ \A i \in asked : x.m_requested_objects = BlocksOf(toPeer[c][i].blocks)
            /\ given = {} /\ asked = {} => x.m_requested_objects = {}
            /\ BlocksOf(x.m_needed_objects) \cap x.m_requested_objects = {}

\* m_peersCount counts the connections past their handshake, so mining stops exactly when
\* the last one closes.
PeersCounted == m_peersCount = Cardinality({c \in Conns : Handshaken(c)})

\* A connection that was synchronizing and reports SYNCHRONIZED OK has brought the node
\* every block its peer last listed.
SynchronizedHasAll ==
  [][\A c \in Conns :
       ctx[c].m_state = "synchronizing" /\ ctx'[c].m_state = "normal"
         => listed'[c] \subseteq core'.known]_vars

\* The chain of the node comes up to that of every peer, again and again, whatever the
\* peers and the other connections do meanwhile.
CatchesUp ==
  \A c \in Conns : []<>(CumDifficulty[core.tip] >= CumDifficulty[peerTip[c]])

\* request_missing_objects: "we know objects that we need, request this objects" - a request
\* for objects names at least one; the answer to another has the peer dropped with a fail.
RequestsNameObjects ==
  \A c \in Conns : \A i \in 1 .. Len(toPeer[c]) :
    toPeer[c][i].kind = "request_objects" => toPeer[c][i].blocks # <<>>
=============================================================================
