----------------------------- MODULE Directory ------------------------------
(***************************************************************************)
(* What a directory promises, whatever form it is kept in: names, the      *)
(* inode number each one stands for, and the one of the parent.  ShortDir  *)
(* implements this.                                                        *)
(***************************************************************************)
CONSTANTS Name,    \* the names but for . and ..
          DotDot,  \* ..
          Ino,     \* inode numbers
          NULL     \* no entry

VARIABLES entry, parent

vars == <<entry, parent>>

Init == /\ entry = [n \in Name |-> NULL]
        /\ parent \in Ino

Add(n, ino) == /\ entry[n] = NULL
               /\ entry' = [entry EXCEPT ![n] = ino]
               /\ UNCHANGED parent

Remove(n) == /\ entry[n] # NULL
             /\ entry' = [entry EXCEPT ![n] = NULL]
             /\ UNCHANGED parent

\* A name that is not there is left alone.
Replace(n, ino) == IF n = DotDot
                   THEN parent' = ino /\ UNCHANGED entry
                   ELSE /\ entry[n] # NULL
                        /\ entry' = [entry EXCEPT ![n] = ino]
                        /\ UNCHANGED parent

Next == \/ \E n \in Name : Remove(n)
        \/ \E n \in Name, ino \in Ino : Add(n, ino)
        \/ \E n \in Name \cup {DotDot}, ino \in Ino : Replace(n, ino)

Spec == Init /\ [][Next]_vars
=============================================================================
