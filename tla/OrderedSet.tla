----------------------------- MODULE OrderedSet -----------------------------
(***************************************************************************)
(* What a tree of `fs/linux/rbtree.c' promises the code that keeps its     *)
(* objects in one: a set of nodes, no two of the same key, that changes by *)
(* one node at a time.  RbTree implements this.                            *)
(***************************************************************************)
CONSTANTS Node,  \* the nodes the callers embed in their objects
          key    \* what an object is ordered by

VARIABLE members \* the nodes in the tree

Init == members = {}

\* A node joins whose key nobody has ...
Insert(n) == /\ \A m \in members : key[m] # key[n]
             /\ members' = members \cup {n}

\* ... leaves ...
Erase(n) == /\ n \in members
            /\ members' = members \ {n}

\* ... or gives its place to another one of the same key.
Replace(m, n) == /\ m \in members
                 /\ n \notin members
                 /\ key[n] = key[m]
                 /\ members' = (members \ {m}) \cup {n}

Next == \/ \E n \in Node : Insert(n) \/ Erase(n)
        \/ \E m, n \in Node : Replace(m, n)

Spec == Init /\ [][Next]_members
=============================================================================
