------------------------------ MODULE LmdbEnv ------------------------------
(***************************************************************************)
(* The LMDB environment behind the block chain, as class LMDBBlockchainDB  *)
(* drives it: one top-level write transaction (m_writeTxn), at most one    *)
(* nested transaction inside it (then m_parentWriteTxn is the outer one),  *)
(* and the MDB_NOSYNC flag.  The thirteen tables are written together, so  *)
(* the contents of the environment are abstracted to the chain of blocks   *)
(* they hold, genesis first.                                               *)
(*                                                                         *)
(* An environment is a record                                              *)
(*    committed  the chain of the last committed top-level transaction:    *)
(*               what a reader outside any transaction sees, and what a    *)
(*               crash of the PROCESS leaves behind                        *)
(*    survivors  the chains a crash of the SYSTEM may leave behind: the    *)
(*               one flushed last and every one committed since without a  *)
(*               flush                                                     *)
(*    depth      how many write transactions are open: 0, 1 or 2           *)
(*    outer      the chain seen inside the top-level one, when it is open  *)
(*    inner      the chain seen inside the nested one, when it is open     *)
(*    nosync     the MDB_NOSYNC flag of the environment                    *)
(***************************************************************************)
EXTENDS Chains

Environment(B) ==
  [committed : Seq(B), survivors : SUBSET Seq(B),
   depth : {0, 1, 2}, outer : Seq(B), inner : Seq(B), nosync : BOOLEAN]

EmptyEnv ==
  [committed |-> <<>>, survivors |-> {<<>>},
   depth |-> 0, outer |-> <<>>, inner |-> <<>>, nosync |-> FALSE]

\* readTxn: reads go through the innermost write transaction when one is open.
View(db) ==
  IF db.depth = 2 THEN db.inner ELSE IF db.depth = 1 THEN db.outer ELSE db.committed

\* hasActiveTxn, hasNestedTxn
HasActiveTxn(db) == db.depth > 0

HasNestedTxn(db) == db.depth = 2

---------------------------------------------------------------------------
(* The transaction calls.  A transaction that ends forgets its chain.      *)

\* The assertion of beginWriteTxn, growMapIfNeeded and resizeMap.
MayBeginWriteTxn(db) == db.depth = 0

BeginWriteTxn(db) == [db EXCEPT !.depth = 1, !.outer = db.committed]

BeginNestedWriteTxn(db) == [db EXCEPT !.depth = 2, !.inner = db.outer]

CommitNestedWriteTxn(db) == [db EXCEPT !.depth = 1, !.outer = db.inner, !.inner = <<>>]

AbortNestedWriteTxn(db) == [db EXCEPT !.depth = 1, !.inner = <<>>]

AbortTxn(db) == [db EXCEPT !.depth = 0, !.outer = <<>>, !.inner = <<>>]

\* mdb_txn_commit without MDB_NOSYNC flushes the file, with it it does not.
CommitTxn(db) ==
  [db EXCEPT !.committed = db.outer,
             !.survivors = IF db.nosync THEN db.survivors \cup {db.outer} ELSE {db.outer},
             !.depth = 0, !.outer = <<>>, !.inner = <<>>]

\* The puts and deletes of one block, inside the innermost transaction.
Put(db, chain) ==
  IF HasNestedTxn(db) THEN [db EXCEPT !.inner = chain] ELSE [db EXCEPT !.outer = chain]

---------------------------------------------------------------------------
(* Durability. *)

SyncToDisk(db) == [db EXCEPT !.survivors = {db.committed}]

\* Leaving the fast mode forces a flush, entering it only sets the flag.
SetFastSyncMode(db, enable) ==
  IF enable
    THEN [db EXCEPT !.nosync = TRUE]
    ELSE SyncToDisk([db EXCEPT !.nosync = FALSE])

\* mdb_env_set_flags succeeded, mdb_env_sync did not: the flag is cleared, nothing is flushed.
SetFastSyncModeUnflushed(db) == [db EXCEPT !.nosync = FALSE]

---------------------------------------------------------------------------
(* Losing the process or the machine, and opening what is left.  open()    *)
(* creates the environment without MDB_NOSYNC.                             *)

ProcessCrash(db) == [AbortTxn(db) EXCEPT !.nosync = FALSE]

SystemCrash(db, chain) == [EmptyEnv EXCEPT !.committed = chain, !.survivors = {chain}]
=============================================================================
