----------------------------- MODULE MCShortDir -----------------------------
(***************************************************************************)
(* Four names for TLC, of given lengths.                                   *)
(***************************************************************************)
EXTENDS ShortDir, TLC

CONSTANTS n1, n2, n3, n4,  \* the names
          l1, l2, l3, l4   \* their lengths

MCName == {n1, n2, n3, n4}
MClen == n1 :> l1 @@ n2 :> l2 @@ n3 :> l3 @@ n4 :> l4
=============================================================================
