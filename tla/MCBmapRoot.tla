----------------------------- MODULE MCBmapRoot -----------------------------
(***************************************************************************)
(* A root of three keys, or two beside an attribute fork, over blocks of   *)
(* four, for TLC.                                                          *)
(***************************************************************************)
EXTENDS BmapRoot

CONSTANT Keyn

MCKey == 1 .. Keyn
MCBlock == 201 .. 204
MCLeaf(k) == 100 + k
=============================================================================
