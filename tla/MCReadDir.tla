----------------------------- MODULE MCReadDir ------------------------------
(***************************************************************************)
(* Three names for TLC, of given lengths, and a reader.                    *)
(***************************************************************************)
EXTENDS ReadDir, TLC

CONSTANTS n1, n2, n3,  \* the names
          l1, l2, l3   \* their lengths

MCName == {n1, n2, n3}
MClen == n1 :> l1 @@ n2 :> l2 @@ n3 :> l3
=============================================================================
