------------------------------ MODULE MCRbTree ------------------------------
(***************************************************************************)
(* Nodes for TLC: Keys of them that differ in their keys and, behind them, *)
(* twins of the first few that rb_replace_node can put in their place.     *)
(***************************************************************************)
EXTENDS RbTree, TLC

CONSTANTS Keys, Twins

MCNode == 1..(Keys + Twins)
MCkey == [n \in MCNode |-> IF n > Keys THEN 2 * (n - Keys) ELSE n]
=============================================================================
