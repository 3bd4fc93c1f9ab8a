---------------------------- MODULE MCBmbtRecord ----------------------------
(***************************************************************************)
(* Words of eight bits for TLC: a flag, five of offset, two and five of    *)
(* block, three of count; narrow block numbers of four, two of them value. *)
(* The arguments are the ends of each range and one that has bits on both  *)
(* sides of every cut; of the blocks 13 is null in the narrow build and    *)
(* 127 in the other.                                                       *)
(***************************************************************************)
EXTENDS BmbtRecord

MCOffs == {0, 25, 31}
MCBlocks == {0, 5, 13, 37, 127}
MCCounts == {0, 5, 7}
=============================================================================
