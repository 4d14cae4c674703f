------------------------------ MODULE ChainLog ------------------------------
(***************************************************************************)
(* What the block chain's storage promises its users, without transactions *)
(* or batches: a chain that grows and shrinks at its end, an older version *)
(* of it that a failure falls back to, and the versions the disk may hold. *)
(***************************************************************************)
EXTENDS Chains

CONSTANTS
  Blocks,
  Window      \* a failure takes fewer than Window blocks away

VARIABLES
  chain,      \* the chain users see
  saved,      \* the chain a failure or a crash of the process falls back to
  durable     \* the chains a crash of the system may leave

logVars == <<chain, saved, durable>>

LogInit ==
  /\ chain = <<>>
  /\ saved = <<>>
  /\ durable = {<<>>}

\* A save adds the saved chain to what the disk may hold, or flushes it.
DurableAfter(c) == durable' \in {durable \cup {c}, {c}}

\* A block joins the chain; the version to fall back to stays within the window.
Extend ==
  /\ \E b \in Blocks : chain' = Append(chain, b)
  /\ Len(chain') - Len(saved) < Window
  /\ UNCHANGED <<saved, durable>>

\* A block joins the chain and everything is saved.
ExtendAndSave ==
  /\ \E b \in Blocks : chain' = Append(chain, b)
  /\ saved' = chain'
  /\ DurableAfter(saved')

Save ==
  /\ saved' = chain
  /\ DurableAfter(saved')
  /\ UNCHANGED chain

\* The last block leaves a saved chain.
Retract ==
  /\ chain = saved /\ chain # <<>>
  /\ chain' = DropTip(chain)
  /\ saved' = chain'
  /\ DurableAfter(saved')

\* The whole chain is dropped.
Reset ==
  /\ chain' = <<>> /\ saved' = <<>>
  /\ DurableAfter(<<>>)

\* A failure: the chain falls back to the saved one, and nothing else changes hands.
FallBack ==
  /\ chain' = saved
  /\ durable' \in {durable, {saved}}
  /\ UNCHANGED saved

Flush ==
  /\ durable' = {saved}
  /\ UNCHANGED <<chain, saved>>

\* The system crashed: a version the disk may hold, or a database rebuilt from nothing.
PowerCut ==
  /\ chain' \in durable \cup {<<>>}
  /\ saved' = chain'
  /\ durable' = {chain'}

LogNext ==
  \/ Extend \/ ExtendAndSave \/ Save \/ Retract \/ Reset \/ FallBack \/ Flush \/ PowerCut

LogSpec == LogInit /\ [][LogNext]_logVars
=============================================================================
