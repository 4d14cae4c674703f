---------------------------- MODULE Checkpoints ----------------------------
(***************************************************************************)
(* Class Checkpoints as pure operators.  m_points maps a finite set of     *)
(* heights to the block each of them must hold; heights are unsigned       *)
(* integers of Width bits (32 in the code).                                *)
(***************************************************************************)
EXTENDS Integers

CONSTANTS
  m_points,                   \* the checkpoints, a function on heights
  m_reject_deep_reorg_depth,  \* 0: reorganizations may be of any depth
  Width

ASSUME CheckpointsAssumption ==
  /\ Width \in Nat \ {0}
  /\ m_reject_deep_reorg_depth \in 0 .. 2^Width - 1
  /\ DOMAIN m_points \subseteq 0 .. 2^Width - 1

\* Unsigned subtraction.
Minus(a, b) == (a - b) % 2^Width

is_in_checkpoint_zone(height) == \E h \in DOMAIN m_points : height <= h

is_a_checkpoint(height) == height \in DOMAIN m_points

check_block(height, block) == is_a_checkpoint(height) => m_points[height] = block

\* The guard against deep reorganizations.
TooDeep(blockchain_height, block_height) ==
  /\ m_reject_deep_reorg_depth > 0
  /\ block_height < Minus(blockchain_height, m_reject_deep_reorg_depth)
  /\ ~is_in_checkpoint_zone(block_height)

is_alternative_block_allowed(blockchain_height, block_height) ==
  /\ block_height # 0
  /\ ~TooDeep(blockchain_height, block_height)
  /\ \A h \in DOMAIN m_points : h <= blockchain_height => h < block_height
=============================================================================
