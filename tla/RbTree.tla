------------------------------- MODULE RbTree -------------------------------
(***************************************************************************)
(* The red-black tree of `fs/linux/rbtree.c', pointer by pointer, with the *)
(* insert core of the example in `rbtree.h' and the augmented data of the  *)
(* rb_augment calls.  An operation is one call of a user of the tree; each *)
(* round of its loops is a step.                                           *)
(*                                                                         *)
(* The code is written twice, once for each side.  Here a side is an       *)
(* argument: kid[n][s] is rb_left or rb_right of n, and Other(s) the one   *)
(* across.                                                                 *)
(***************************************************************************)
EXTENDS Integers, FiniteSets

CONSTANTS Node,  \* the nodes that users embed in their objects
          NULL,  \* no node
          key    \* key[n]: what the object around n is ordered by

ASSUMPTION NodeAssumption == /\ IsFiniteSet(Node)
                             /\ NULL \notin Node
                             /\ key \in [Node -> Int]

VARIABLES heap,  \* root, and the fields of every node
          aug,   \* aug[n]: what func last computed for n
          op     \* the call under way and its locals

vars == <<heap, aug, op>>
-----------------------------------------------------------------------------
Side == {"left", "right"}
Other(s) == IF s = "left" THEN "right" ELSE "left"
Pointer == Node \cup {NULL}

\* rb_parent_color holds the parent and the colour; rb_root the one pointer.
Heap == [root : Pointer, up : [Node -> Pointer], red : [Node -> BOOLEAN],
         kid : [Node -> [Side -> Pointer]]]

\* The locals: the node a call was made for (`of'), node and parent of the
\* loops, and the node rb_augment_path is to start from.
Op == [pc : {"idle", "insert", "erase", "augment"}, of : Pointer,
       node : Pointer, parent : Pointer, deepest : Pointer]
Idle == [pc |-> "idle", of |-> NULL, node |-> NULL, parent |-> NULL, deepest |-> NULL]

\* Users initialise a node with rb_init_node: its parent is itself.
Init == /\ heap = [root |-> NULL, up |-> [n \in Node |-> n],
                   red |-> [n \in Node |-> TRUE],
                   kid |-> [n \in Node |-> [s \in Side |-> NULL]]]
        /\ aug = [n \in Node |-> 0]
        /\ op = Idle
-----------------------------------------------------------------------------
\* One assignment each.
Up(h, n, p) == [h EXCEPT !.up[n] = p]
Paint(h, n, isRed) == [h EXCEPT !.red[n] = isRed]
Hang(h, n, s, c) == [h EXCEPT !.kid[n][s] = c]
UpIf(h, n, p) == IF n = NULL THEN h ELSE Up(h, n, p)

\* rb_init_node. A user calls it again for a node that left the tree and that
\* the rest of the call does not touch.
InitNode(h, n) == [h EXCEPT !.up[n] = n, !.red[n] = TRUE, !.kid[n] = [s \in Side |-> NULL]]

\* "!n || rb_is_black(n)"
Black(h, n) == IF n = NULL THEN TRUE ELSE ~h.red[n]

\* Which child of p the node n is; as in the code, the other one if not left.
SideOf(h, n, p) == IF h.kid[p]["left"] = n THEN "left" ELSE "right"

\* What pointed to n, a child of p or the root, points to c.
Redirect(h, n, p, c) == IF p = NULL THEN [h EXCEPT !.root = c]
                        ELSE Hang(h, p, SideOf(h, n, p), c)

\* n goes down on side s, and its child across takes its place.
Rotate(h, n, s) ==
    LET c == h.kid[n][Other(s)]
        p == h.up[n]
        h1 == UpIf(Hang(h, n, Other(s), h.kid[c][s]), h.kid[c][s], n)
        h2 == Up(Hang(h1, c, s, n), c, p)
    IN Up(Redirect(h2, n, p, c), n, c)
-----------------------------------------------------------------------------
\* The last node from n on in direction s.
Far(h, n, s) ==
    LET f[m \in Node] == IF h.kid[m][s] = NULL THEN m ELSE f[h.kid[m][s]]
    IN f[n]

\* WRONG: the parent.
AboveOnce(h, n, s) == h.up[n]

\* The first ancestor that n is not on side s of.
Above(h, n, s) ==
    LET f[m \in Node] == IF h.up[m] # NULL /\ h.kid[h.up[m]][s] = m
                         THEN f[h.up[m]] ELSE h.up[m]
    IN f[n]

RbEnd(h, s) == IF h.root = NULL THEN NULL ELSE Far(h, h.root, s)
RbFirst(h) == RbEnd(h, "left")
RbLast(h) == RbEnd(h, "right")

RbStep(h, n, s) == IF h.up[n] = n THEN NULL
                   ELSE IF h.kid[n][s] # NULL THEN Far(h, h.kid[n][s], Other(s))
                   ELSE Above(h, n, s)
RbNext(h, n) == RbStep(h, n, "right")
RbPrev(h, n) == RbStep(h, n, "left")
-----------------------------------------------------------------------------
\* The user's search: the node of key k, or the parent and the side where a
\* node of that key goes.
Search(h, k) ==
    LET f[m \in Node] ==
          LET s == IF k < key[m] THEN "left" ELSE "right"
          IN IF k = key[m] THEN [found |-> m, parent |-> NULL, side |-> s]
             ELSE IF h.kid[m][s] = NULL THEN [found |-> NULL, parent |-> m, side |-> s]
             ELSE f[h.kid[m][s]]
    IN IF h.root = NULL THEN [found |-> NULL, parent |-> NULL, side |-> "left"]
       ELSE f[h.root]

InTree(h, n) == Search(h, key[n]).found = n

\* WRONG: *rb_link is the other child.
LinkAcross(h, n, p, s) ==
    LET h1 == [h EXCEPT !.up[n] = p, !.red[n] = TRUE, !.kid[n] = [t \in Side |-> NULL]]
    IN IF p = NULL THEN [h1 EXCEPT !.root = n] ELSE Hang(h1, p, Other(s), n)

\* rb_link_node, at the place the search has led to; the colour bit is zero.
Link(h, n, p, s) ==
    LET h1 == [h EXCEPT !.up[n] = p, !.red[n] = TRUE, !.kid[n] = [t \in Side |-> NULL]]
    IN IF p = NULL THEN [h1 EXCEPT !.root = n] ELSE Hang(h1, p, s, n)

\* A call that inserts a node whose key is not there yet.
Insert(n) ==
    LET at == Search(heap, key[n])
    IN /\ op.pc = "idle"
       /\ at.found = NULL
       /\ heap' = Link(heap, n, at.parent, at.side)
       /\ op' = [Idle EXCEPT !.pc = "insert", !.of = n, !.node = n]
       /\ UNCHANGED aug

\* WRONG: from the node itself, which the rotations may have moved up.
AugmentInsertHere(h, n) == n

\* rb_augment_insert, up to the path.
AugmentInsert(h, n) == IF h.kid[n]["left"] # NULL THEN h.kid[n]["left"]
                       ELSE IF h.kid[n]["right"] # NULL THEN h.kid[n]["right"]
                       ELSE n

\* WRONG: the root is left red.
InsertDoneRed ==
    /\ op.pc = "insert"
    /\ Black(heap, heap.up[op.node])
    /\ op' = [Idle EXCEPT !.pc = "augment", !.of = op.of, !.deepest = AugmentInsert(heap, op.of)]
    /\ UNCHANGED <<heap, aug>>

\* The loop of rb_insert_color is over.
InsertDone ==
    LET h == Paint(heap, heap.root, FALSE)
        p == heap.up[op.node]
    IN /\ op.pc = "insert"
       /\ Black(heap, p)
       /\ heap' = h
       /\ op' = [Idle EXCEPT !.pc = "augment", !.of = op.of,
                             !.deepest = AugmentInsert(h, op.of)]
       /\ UNCHANGED aug

\* A round in which the uncle is red: the colours are swapped and the
\* grandparent is next.
InsertRecolour ==
    LET p == heap.up[op.node]
        g == heap.up[p]
        u == heap.kid[g][Other(SideOf(heap, p, g))]
    IN /\ op.pc = "insert"
       /\ ~Black(heap, p)
       /\ ~Black(heap, u)
       /\ heap' = Paint(Paint(Paint(heap, u, FALSE), p, FALSE), g, TRUE)
       /\ op' = [op EXCEPT !.node = g]
       /\ UNCHANGED aug

\* A round in which it is black: one rotation or two.
InsertRotate ==
    LET p == heap.up[op.node]
        g == heap.up[p]
        s == SideOf(heap, p, g)
        inner == heap.kid[p][Other(s)] = op.node
        h == IF inner THEN Rotate(heap, p, s) ELSE heap
        q == IF inner THEN op.node ELSE p
    IN /\ op.pc = "insert"
       /\ ~Black(heap, p)
       /\ Black(heap, heap.kid[g][Other(s)])
       /\ heap' = Rotate(Paint(Paint(h, q, FALSE), g, TRUE), g, Other(s))
       /\ op' = [op EXCEPT !.node = IF inner THEN p ELSE op.node]
       /\ UNCHANGED aug
-----------------------------------------------------------------------------
\* WRONG: from the next node, though it is taken out from below its parent.
AugmentEraseNext(h, n) ==
    LET kids == {h.kid[n][s] : s \in Side} \ {NULL}
    IN CASE kids = {} -> h.up[n]
         [] Cardinality(kids) = 1 -> CHOOSE c \in kids : TRUE
         [] OTHER -> RbNext(h, n)

\* rb_augment_erase_begin
AugmentErase(h, n) ==
    LET l == h.kid[n]["left"]
        r == h.kid[n]["right"]
        d == RbNext(h, n)
    IN CASE l = NULL /\ r = NULL -> h.up[n]
         [] l # NULL /\ r = NULL -> l
         [] l = NULL /\ r # NULL -> r
         [] OTHER -> IF h.kid[d]["right"] # NULL THEN h.kid[d]["right"]
                     ELSE IF h.up[d] # n THEN h.up[d]
                     ELSE d

\* WRONG: as if the child could only be on the right.
UnlinkOneRight(h, n) ==
    LET c == h.kid[n]["right"]
    IN [heap |-> Redirect(UpIf(h, c, h.up[n]), n, h.up[n], c),
        child |-> c, parent |-> h.up[n], red |-> h.red[n]]

\* A node with at most one child: the child takes its place.
UnlinkOne(h, n) ==
    LET c == IF h.kid[n]["left"] = NULL THEN h.kid[n]["right"] ELSE h.kid[n]["left"]
    IN [heap |-> Redirect(UpIf(h, c, h.up[n]), n, h.up[n], c),
        child |-> c, parent |-> h.up[n], red |-> h.red[n]]

\* WRONG: the right child does not learn of its new parent.
UnlinkTwoUntold(h, n) ==
    LET m == Far(h, h.kid[n]["right"], "left")
        c == h.kid[m]["right"]
        p == h.up[m]
        h1 == Redirect(h, n, h.up[n], m)
        h2 == IF p = n THEN h1
              ELSE Hang(Hang(UpIf(h1, c, p), p, "left", c), m, "right", h.kid[n]["right"])
        h3 == [h2 EXCEPT !.up[m] = h.up[n], !.red[m] = h.red[n],
                         !.kid[m]["left"] = h.kid[n]["left"]]
    IN [heap |-> Up(h3, h.kid[n]["left"], m),
        child |-> c, parent |-> IF p = n THEN m ELSE p, red |-> h.red[m]]

\* A node with two: the next node m, which has no left child, takes its
\* place, its parent, colour and children; the child of m takes that of m.
UnlinkTwo(h, n) ==
    LET m == Far(h, h.kid[n]["right"], "left")
        c == h.kid[m]["right"]
        p == h.up[m]
        h1 == Redirect(h, n, h.up[n], m)
        h2 == IF p = n THEN h1
              ELSE Up(Hang(Hang(UpIf(h1, c, p), p, "left", c),
                           m, "right", h.kid[n]["right"]),
                      h.kid[n]["right"], m)
        h3 == [h2 EXCEPT !.up[m] = h.up[n], !.red[m] = h.red[n],
                         !.kid[m]["left"] = h.kid[n]["left"]]
    IN [heap |-> Up(h3, h.kid[n]["left"], m),
        child |-> c, parent |-> IF p = n THEN m ELSE p, red |-> h.red[m]]

\* A call that erases a node, up to __rb_erase_color.
Erase(n) ==
    LET two == \A s \in Side : heap.kid[n][s] # NULL
        cut == IF two THEN UnlinkTwo(heap, n) ELSE UnlinkOne(heap, n)
    IN /\ op.pc = "idle"
       /\ InTree(heap, n)
       /\ heap' = InitNode(cut.heap, n)
       /\ op' = [pc |-> IF cut.red THEN "augment" ELSE "erase", of |-> n,
                 node |-> cut.child, parent |-> cut.parent,
                 deepest |-> AugmentErase(heap, n)]
       /\ aug' = [aug EXCEPT ![n] = 0]

\* The loop of __rb_erase_color is over.
EraseDone ==
    /\ op.pc = "erase"
    /\ ~Black(heap, op.node) \/ op.node = heap.root
    /\ heap' = IF op.node = NULL THEN heap ELSE Paint(heap, op.node, FALSE)
    /\ op' = [op EXCEPT !.pc = "augment"]
    /\ UNCHANGED aug

\* WRONG: the last rotation brings up a red nephew.
EraseRoundRed ==
    LET p == op.parent
        s == SideOf(heap, op.node, p)
        b == heap.kid[p][Other(s)]
    IN /\ op.pc = "erase"
       /\ Black(heap, op.node)
       /\ op.node # heap.root
       /\ heap' = Rotate(Paint(Paint(heap, b, heap.red[p]), p, FALSE), p, s)
       /\ op' = [op EXCEPT !.node = heap'.root]
       /\ UNCHANGED aug

\* A round: the brother is made black, and then red with the parent next, or
\* else it is rotated over the parent and the loop is left with the root.
EraseRound ==
    LET p == op.parent
        s == SideOf(heap, op.node, p)
        o == Other(s)
        b0 == heap.kid[p][o]
        h1 == IF heap.red[b0]
              THEN Rotate(Paint(Paint(heap, b0, FALSE), p, TRUE), p, s) ELSE heap
        b1 == h1.kid[p][o]
        h2 == IF Black(h1, h1.kid[b1][o])
              THEN Rotate(Paint(Paint(h1, h1.kid[b1][s], FALSE), b1, TRUE), b1, o) ELSE h1
        b2 == h2.kid[p][o]
        h3 == Paint(Paint(Paint(h2, b2, h2.red[p]), p, FALSE), h2.kid[b2][o], FALSE)
    IN /\ op.pc = "erase"
       /\ Black(heap, op.node)
       /\ op.node # heap.root
       /\ IF \A t \in Side : Black(h1, h1.kid[b1][t])
          THEN /\ heap' = Paint(h1, b1, TRUE)
               /\ op' = [op EXCEPT !.node = p, !.parent = h1.up[p]]
          ELSE /\ heap' = Rotate(h3, p, s)
               /\ op' = [op EXCEPT !.node = heap'.root, !.parent = p]
       /\ UNCHANGED aug
-----------------------------------------------------------------------------
\* The user's func; here it counts the nodes below, as every interval tree or
\* index over a tree computes something from the two children.
Func(h, a, n) ==
    LET val(s) == IF h.kid[n][s] = NULL THEN 0 ELSE a[h.kid[n][s]]
    IN [a EXCEPT ![n] = 1 + val("left") + val("right")]

\* WRONG: the path stays where it is.
AugmentRoundStays ==
    /\ op.pc = "augment"
    /\ op.deepest # NULL
    /\ heap.up[op.deepest] # NULL
    /\ aug' = Func(heap, aug, op.deepest)
    /\ UNCHANGED <<heap, op>>

\* A round of rb_augment_path: func for the node, and for its brother.
AugmentRound ==
    LET n == op.deepest
        p == heap.up[n]
        l == heap.kid[p]["left"]
        r == heap.kid[p]["right"]
        a == Func(heap, aug, n)
    IN /\ op.pc = "augment"
       /\ n # NULL
       /\ p # NULL
       /\ aug' = IF n = l /\ r # NULL THEN Func(heap, a, r)
                 ELSE IF l # NULL THEN Func(heap, a, l)
                 ELSE a
       /\ op' = [op EXCEPT !.deepest = p]
       /\ UNCHANGED heap

\* The last one, at the root; or there was nothing to do.
AugmentDone ==
    /\ op.pc = "augment"
    /\ op.deepest # NULL => heap.up[op.deepest] = NULL
    /\ aug' = IF op.deepest = NULL THEN aug ELSE Func(heap, aug, op.deepest)
    /\ op' = Idle
    /\ UNCHANGED heap

\* rb_replace_node; the augmented value is the user's to copy.
Replace(m, n) ==
    LET p == heap.up[m]
        h1 == Redirect(heap, m, p, n)
        h2 == UpIf(UpIf(h1, heap.kid[m]["left"], n), heap.kid[m]["right"], n)
    IN /\ op.pc = "idle"
       /\ InTree(heap, m)
       /\ m # n
       /\ key[m] = key[n]
       /\ heap' = InitNode([h2 EXCEPT !.up[n] = heap.up[m], !.red[n] = heap.red[m],
                                      !.kid[n] = h2.kid[m]], m)
       /\ aug' = [aug EXCEPT ![n] = aug[m], ![m] = 0]
       /\ UNCHANGED op

Step == \/ InsertRecolour \/ InsertRotate \/ InsertDone
        \/ EraseRound \/ EraseDone
        \/ AugmentRound \/ AugmentDone

Next == \/ \E n \in Node : Insert(n) \/ Erase(n)
        \/ \E m, n \in Node : Replace(m, n)
        \/ Step

Spec == Init /\ [][Next]_vars
-----------------------------------------------------------------------------
\* The nodes at and below n.
Under(h, n) ==
    LET f[m \in Pointer] == IF m = NULL THEN {}
                            ELSE {m} \cup f[h.kid[m]["left"]] \cup f[h.kid[m]["right"]]
    IN f[n]
Members(h) == Under(h, h.root)

\* The heap, the augmented values and the locals hold what they may.
TypeOK == /\ heap \in Heap
          /\ aug \in [Node -> 0..Cardinality(Node)]
          /\ op \in Op

\* Parents and children agree at every step, which is what rb_next, rb_prev,
\* the rotations and rb_augment_path climb by, and a node outside is cleared.
LinksAgree ==
    LET T == Members(heap)
    IN /\ heap.root # NULL => heap.up[heap.root] = NULL
       /\ \A n \in T, s \in Side : LET c == heap.kid[n][s]
                                  IN c # NULL => heap.up[c] = n /\ c # heap.kid[n][Other(s)]
       /\ \A n \in Node \ T : heap.up[n] = n

\* Every node lies between all the nodes on its left and on its right, through
\* every rotation and relinking of a successor.
Ordered ==
    \A n \in Members(heap) :
       /\ \A m \in Under(heap, heap.kid[n]["left"]) : key[m] < key[n]
       /\ \A m \in Under(heap, heap.kid[n]["right"]) : key[m] > key[n]

\* A black too few is accounted for at the node __rb_erase_color is at.
Missing(p, s) == /\ op.pc = "erase"
                 /\ op.parent = p
                 /\ heap.kid[p][s] = op.node
                 /\ s = SideOf(heap, op.node, p)

\* The blacks on the way down from child s of p, the missing one included.
BlackHeight(p, s) ==
    LET gone(m, t) == IF Missing(m, t) THEN 1 ELSE 0
        f[m \in Pointer] ==
          IF m = NULL THEN 0
          ELSE (IF heap.red[m] THEN 0 ELSE 1) + gone(m, "left") + f[heap.kid[m]["left"]]
    IN gone(p, s) + f[heap.kid[p][s]]

\* All ways down have the same number of blacks, but for the one that an
\* erase is about to make good.
BlacksAgree == \A n \in Members(heap) : BlackHeight(n, "left") = BlackHeight(n, "right")

\* A red node has no red child and is not the root, but for the node that the
\* loop of the call under way is at, which an erase is about to blacken.
RedsApart ==
    LET at == IF op.pc \in {"insert", "erase"} THEN op.node ELSE NULL
    IN /\ heap.root # NULL /\ heap.red[heap.root] => heap.root = at
       /\ \A n \in Members(heap), s \in Side :
             heap.red[n] /\ ~Black(heap, heap.kid[n][s])
                => heap.kid[n][s] = at \/ (op.pc = "erase" /\ n = at)

\* Between calls the first, last, next and previous node are those of the
\* order of the keys; a node outside has no next and no previous one.
WalksInOrder ==
    op.pc = "idle" =>
    LET T == Members(heap)
        Least(S) == IF S = {} THEN NULL ELSE CHOOSE m \in S : \A n \in S : key[m] <= key[n]
        Most(S) == IF S = {} THEN NULL ELSE CHOOSE m \in S : \A n \in S : key[m] >= key[n]
        in(n, S) == IF n \in T THEN S ELSE {}
    IN /\ RbFirst(heap) = Least(T)
       /\ RbLast(heap) = Most(T)
       /\ \A n \in Node :
             /\ RbNext(heap, n) = Least(in(n, {m \in T : key[m] > key[n]}))
             /\ RbPrev(heap, n) = Most(in(n, {m \in T : key[m] < key[n]}))

\* Between calls every augmented value is right: the path from the deepest
\* node the rebalancing touched has passed everything it moved.
AugmentRight ==
    op.pc = "idle" => \A n \in Members(heap) : aug[n] = Cardinality(Under(heap, n))

\* How many nodes there are from n up to the root.
Height(h, n) ==
    LET f[m \in Node] == IF h.up[m] = NULL \/ h.up[m] = m THEN 1 ELSE 1 + f[h.up[m]]
    IN IF n = NULL THEN 0 ELSE f[n]

\* The most rounds the call o on the tree h still has to go: up from the node
\* it is at, and then up from the deepest node whose data changed.
Left(h, o) ==
    LET path == 1 + Cardinality(Node)
    IN CASE o.pc = "idle" -> 0
         [] o.pc = "insert" -> path + 1 + Height(h, o.node)
         [] o.pc = "erase" -> path + 1 + (IF ~Black(h, o.node) \/ o.node = h.root THEN 0
                                          ELSE Height(h, o.parent))
         [] o.pc = "augment" -> 1 + Height(h, o.deepest)

\* Every round brings a call nearer to its end, though rotations move the node
\* and its parent down as well as up: no loop runs more often than the tree is
\* high.
CallsEnd == [][op.pc # "idle" => Left(heap', op') \in 0 .. Left(heap, op) - 1]_vars

\* Seen from the user, a call changes the set by its one node, at once.
Set == INSTANCE OrderedSet WITH members <- Members(heap)
ImplementsSet == Set!Spec
=============================================================================
