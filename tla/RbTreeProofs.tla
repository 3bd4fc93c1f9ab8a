---------------------------- MODULE RbTreeProofs ----------------------------
(***************************************************************************)
(* The red-black tree, for every set of nodes and keys.  What the code     *)
(* walks over is described without recursion, by the set of nodes at and   *)
(* below each node and by the blacks on the ways down from it; each of the *)
(* code's assignments is shown to keep such a description, and what the    *)
(* recursive definitions compute is then read off it.                      *)
(***************************************************************************)
EXTENDS RbTree, SequenceLemmas

(***************************************************************************)
(* Sides and keys.                                                         *)
(***************************************************************************)
\* A key k belongs on side s of n.
Lies(s, k, n) == IF s = "left" THEN k < key[n] ELSE k > key[n]

LEMMA Sides ==
  ASSUME NEW s \in Side
  PROVE  /\ Other(s) \in Side /\ Other(s) # s /\ Other(Other(s)) = s
         /\ \A t \in Side : t = s \/ t = Other(s)
         /\ Side = {s, Other(s)}
BY DEF Side, Other

LEMMA KeysLie ==
  ASSUME NEW s \in Side, NEW k \in Int, NEW n \in Node
  PROVE  /\ ~ (Lies(s, k, n) /\ Lies(Other(s), k, n))
         /\ k = key[n] \/ Lies(s, k, n) \/ Lies(Other(s), k, n)
         /\ Lies(s, k, n) => k # key[n]
         /\ key[n] \in Int
         /\ \A m \in Node : /\ Lies(s, k, m) /\ Lies(s, key[m], n) => Lies(s, k, n)
                            /\ Lies(s, key[m], n) <=> Lies(Other(s), key[n], m)
BY NodeAssumption DEF Side, Other, Lies

LEMMA LiesBeyond ==
  ASSUME NEW s \in Side, NEW k \in Int, NEW m \in Node, NEW n \in Node, Lies(s, k, m), Lies(s, key[m], n)
  PROVE  Lies(s, k, n)
BY KeysLie

(***************************************************************************)
(* The shape of a tree: D[n] is what is at and below n.                    *)
(***************************************************************************)
\* The nodes in the tree; rb_init_node makes the parent of the others themselves.
In(h) == {n \in Node : h.up[n] # n}

\* Each node is above its children, with the keys on either side of its own.
Spread(h, D) ==
  /\ D \in [Pointer -> SUBSET Node]
  /\ D[NULL] = {}
  /\ \A n \in Node : D[n] = {n} \cup D[h.kid[n]["left"]] \cup D[h.kid[n]["right"]]
  /\ \A n \in Node, s \in Side : \A m \in D[h.kid[n][s]] : Lies(s, key[m], n)

\* Parents and children agree.
Linked(h) ==
  /\ h.root # NULL => h.root \in In(h) /\ h.up[h.root] = NULL
  /\ \A n \in Node, s \in Side : h.kid[n][s] # NULL => n \in In(h) /\ h.up[h.kid[n][s]] = n
  /\ \A n \in In(h) : IF h.up[n] = NULL THEN n = h.root
                      ELSE \E s \in Side : h.kid[h.up[n]][s] = n

Shape(h, D) ==
  /\ h \in Heap
  /\ Spread(h, D)
  /\ Linked(h)
  /\ D[h.root] = In(h)
  /\ \A m, n \in In(h) : key[m] = key[n] => m = n

LEMMA HeapFields ==
  ASSUME NEW h \in Heap
  PROVE  /\ h.root \in Pointer
         /\ \A n \in Node : /\ h.up[n] \in Pointer /\ h.red[n] \in BOOLEAN
                            /\ \A s \in Side : h.kid[n][s] \in Pointer
BY DEF Heap

\* What is below a node is below one of its children, on that side of it.
LEMMA BelowIs ==
  ASSUME NEW h, NEW D, Shape(h, D), NEW n \in Node
  PROVE  /\ D[n] \subseteq Node /\ n \in D[n]
         /\ \A s \in Side : /\ h.kid[n][s] \in Pointer
                            /\ D[h.kid[n][s]] \subseteq D[n]
                            /\ n \notin D[h.kid[n][s]]
                            /\ D[n] = {n} \cup D[h.kid[n][s]] \cup D[h.kid[n][Other(s)]]
                            /\ D[h.kid[n][s]] \cap D[h.kid[n][Other(s)]] = {}
                            /\ \A m \in D[h.kid[n][s]] : Lies(s, key[m], n)
<1>1. /\ h \in Heap /\ D \in [Pointer -> SUBSET Node]
      /\ D[n] = {n} \cup D[h.kid[n]["left"]] \cup D[h.kid[n]["right"]]
      /\ \A s \in Side : \A m \in D[h.kid[n][s]] : Lies(s, key[m], n)
  BY DEF Shape, Spread
<1>2. D[n] \subseteq Node /\ n \in D[n]
  BY <1>1 DEF Pointer
<1>3. ASSUME NEW s \in Side
      PROVE  /\ h.kid[n][s] \in Pointer
             /\ D[h.kid[n][s]] \subseteq D[n]
             /\ n \notin D[h.kid[n][s]]
             /\ D[n] = {n} \cup D[h.kid[n][s]] \cup D[h.kid[n][Other(s)]]
             /\ D[h.kid[n][s]] \cap D[h.kid[n][Other(s)]] = {}
             /\ \A m \in D[h.kid[n][s]] : Lies(s, key[m], n)
  <2>1. h.kid[n][s] \in Pointer /\ h.kid[n][Other(s)] \in Pointer
    BY <1>1, HeapFields, Sides
  <2>2. D[n] = {n} \cup D[h.kid[n][s]] \cup D[h.kid[n][Other(s)]]
    BY <1>1 DEF Side, Other
  <2>3. D[h.kid[n][s]] \subseteq Node /\ D[h.kid[n][Other(s)]] \subseteq Node
    BY <1>1, <2>1
  <2>4. \A m \in D[h.kid[n][s]] : Lies(s, key[m], n)
    BY <1>1
  <2>5. \A m \in D[h.kid[n][Other(s)]] : Lies(Other(s), key[m], n)
    BY <1>1, Sides
  <2>6. ASSUME NEW m \in D[h.kid[n][s]] PROVE m # n /\ m \notin D[h.kid[n][Other(s)]]
    <3>1. m \in Node /\ key[m] \in Int
      BY <2>3, KeysLie
    <3> QED
      BY <2>4, <2>5, <3>1, KeysLie
  <2> QED
    BY <2>1, <2>2, <2>4, <2>6
<1> QED
  BY <1>2, <1>3, Zenon

\* What holds of every node that it holds of the children of, holds of all.
LEMMA FromBelow ==
  ASSUME NEW h, NEW D, Shape(h, D), NEW X \in SUBSET Node,
         \A n \in Node : (\A s \in Side : h.kid[n][s] # NULL => h.kid[n][s] \in X) => n \in X
  PROVE  X = Node
<1> DEFINE C(n) == Cardinality(D[n])
           T == {C(n) : n \in Node \ X}
<1>1. ASSUME NEW n \in Node
      PROVE  /\ IsFiniteSet(D[n]) /\ C(n) \in Nat
             /\ \A s \in Side : h.kid[n][s] # NULL => h.kid[n][s] \in Node /\ C(h.kid[n][s]) < C(n)
  <2>1. IsFiniteSet(D[n]) /\ C(n) \in Nat
    BY BelowIs, NodeAssumption, FS_Subset, FS_CardinalityType
  <2>2. ASSUME NEW s \in Side, h.kid[n][s] # NULL
        PROVE  h.kid[n][s] \in Node /\ C(h.kid[n][s]) < C(n)
    <3> DEFINE c == h.kid[n][s]
    <3>1. c \in Node /\ D[c] \subseteq D[n] /\ n \in D[n] /\ n \notin D[c]
      BY <2>2, BelowIs DEF Pointer
    <3> HIDE DEF c
    <3>2. C(c) <= C(n) /\ (C(n) = C(c) => D[n] = D[c])
      BY <2>1, <3>1, FS_Subset
    <3>3. C(c) # C(n)
      BY <3>1, <3>2
    <3>4. C(c) \in Nat
      BY <2>1, <3>1, FS_Subset, FS_CardinalityType
    <3>5. C(c) < C(n)
      <4> HIDE DEF C
      <4> QED
        BY <2>1, <3>2, <3>3, <3>4
    <3> QED
      BY <3>1, <3>5 DEF c
  <2> QED
    BY <2>1, <2>2
<1>2. T = {}
  <2> SUFFICES ASSUME T # {} PROVE FALSE
    OBVIOUS
  <2>1. T \in SUBSET Nat
    <3> HIDE DEF C
    <3> QED
      BY <1>1
  <2>2. PICK k \in T : \A m \in T : k <= m
    <3> HIDE DEF T
    <3> QED
      BY <2>1, Least
  <2> HIDE DEF C
  <2>3. PICK n \in Node \ X : k = C(n)
    BY <2>2
  <2>4. PICK s \in Side : h.kid[n][s] # NULL /\ h.kid[n][s] \notin X
    BY <2>3
  <2> DEFINE c == h.kid[n][s]
  <2>5. c \in Node \ X /\ C(c) < C(n)
    BY <1>1, <2>3, <2>4
  <2> HIDE DEF c
  <2>6. C(c) \in T /\ C(c) \in Nat /\ C(n) \in Nat
    BY <2>3, <2>5, <1>1
  <2> HIDE DEF T
  <2>7. C(n) <= C(c)
    BY <2>2, <2>3, <2>6
  <2> QED
    BY <2>5, <2>6, <2>7
<1> QED
  BY <1>2

\* What is below something below n is below n.
LEMMA BelowBelow ==
  ASSUME NEW h, NEW D, Shape(h, D), NEW n \in Node, NEW m \in D[n]
  PROVE  m \in Node /\ D[m] \subseteq D[n]
<1> DEFINE X == {x \in Node : \A y \in D[x] : D[y] \subseteq D[x]}
<1>1. ASSUME NEW x \in Node, \A s \in Side : h.kid[x][s] # NULL => h.kid[x][s] \in X
      PROVE  x \in X
  <2> SUFFICES ASSUME NEW y \in D[x], y # x PROVE D[y] \subseteq D[x]
    OBVIOUS
  <2>1. PICK s \in Side : y \in D[h.kid[x][s]]
    BY BelowIs, Sides DEF Side
  <2>2. h.kid[x][s] # NULL
    BY <2>1 DEF Shape, Spread
  <2> QED
    BY <1>1, <2>1, <2>2, BelowIs
<1>2. X = Node
  <2> HIDE DEF X
  <2>1. X \in SUBSET Node
    BY DEF X
  <2> QED
    BY <1>1, <2>1, FromBelow
<1>3. m \in Node
  BY BelowIs
<1> QED
  BY <1>2, <1>3

\* A child is in the tree and has its node for a parent.
LEMMA KidIs ==
  ASSUME NEW h, NEW D, Shape(h, D), NEW n \in Node, NEW s \in Side, h.kid[n][s] # NULL
  PROVE  /\ h.kid[n][s] \in Node /\ h.kid[n][s] \in In(h) /\ n \in In(h) /\ h.up[h.kid[n][s]] = n
         /\ h.kid[n][s] # n /\ h.kid[n][s] # h.kid[n][Other(s)]
         /\ h.kid[n][s] \in D[h.kid[n][s]] /\ h.kid[n][s] \in D[n]
<1>1. h.kid[n][s] \in Node
  BY BelowIs DEF Pointer
<1>2. n \in In(h) /\ h.up[h.kid[n][s]] = n
  BY DEF Shape, Linked
<1>3. h.kid[n][s] \in D[h.kid[n][s]]
  BY <1>1, BelowIs
<1>4. h.kid[n][s] # n /\ h.kid[n][s] \in D[n] /\ h.kid[n][s] # h.kid[n][Other(s)]
  <2> DEFINE c == h.kid[n][s]
             d == h.kid[n][Other(s)]
  <2>1. D[c] \subseteq D[n] /\ n \notin D[c] /\ D[c] \cap D[d] = {}
    BY BelowIs
  <2>2. c \in D[c]
    BY <1>3
  <2> HIDE DEF c, d
  <2>3. c # n /\ c \in D[n] /\ c # d
    BY <2>1, <2>2
  <2> QED
    BY <2>3 DEF c, d
<1> QED
  BY <1>1, <1>2, <1>3, <1>4 DEF In

\* Climbing from what is below n one does not miss n.
LEMMA UpIs ==
  ASSUME NEW h, NEW D, Shape(h, D), NEW n \in Node, NEW m \in D[n], m # n
  PROVE  m \in In(h) /\ h.up[m] \in Node /\ h.up[m] \in In(h) /\ h.up[m] \in D[n]
<1> DEFINE X == {x \in Node : \A y \in D[x] : y # x => y \in In(h) /\ h.up[y] \in In(h) /\ h.up[y] \in D[x]}
<1>1. ASSUME NEW x \in Node, \A s \in Side : h.kid[x][s] # NULL => h.kid[x][s] \in X
      PROVE  x \in X
  <2> SUFFICES ASSUME NEW y \in D[x], y # x PROVE y \in In(h) /\ h.up[y] \in In(h) /\ h.up[y] \in D[x]
    OBVIOUS
  <2>1. PICK s \in Side : y \in D[h.kid[x][s]]
    BY BelowIs, Sides DEF Side
  <2>2. h.kid[x][s] # NULL
    BY <2>1 DEF Shape, Spread
  <2>3. CASE y = h.kid[x][s]
    BY <2>2, <2>3, KidIs, BelowIs
  <2>4. CASE y # h.kid[x][s]
    BY <1>1, <2>1, <2>2, <2>4, BelowIs
  <2> QED
    BY <2>3, <2>4
<1>2. X = Node
  <2> HIDE DEF X
  <2>1. X \in SUBSET Node
    BY DEF X
  <2> QED
    BY <1>1, <2>1, FromBelow
<1> QED
  BY <1>2 DEF In

LEMMA OneAbove ==
  ASSUME NEW h, NEW D, Shape(h, D), NEW m \in Node, NEW n \in Node, m \in D[n], n \in D[m]
  PROVE  m = n
<1> SUFFICES ASSUME m # n PROVE FALSE
  OBVIOUS
<1>1. PICK s \in Side : m \in D[h.kid[n][s]]
  BY BelowIs, Sides DEF Side
<1>2. h.kid[n][s] \in Node
  <2>1. h.kid[n][s] \in Pointer
    BY BelowIs
  <2>2. h.kid[n][s] # NULL
    BY <1>1 DEF Shape, Spread
  <2> QED
    BY <2>1, <2>2 DEF Pointer
<1>3. n \in D[h.kid[n][s]]
  BY <1>1, <1>2, BelowBelow
<1> QED
  BY <1>3, BelowIs

\* What is in the tree has only nodes of it below, a node outside only itself.
LEMMA InIs ==
  ASSUME NEW h, NEW D, Shape(h, D), NEW n \in Node
  PROVE  /\ n \in In(h) => D[n] \subseteq In(h)
         /\ n \notin In(h) => /\ D[n] = {n} /\ h.kid[n] = [s \in Side |-> NULL]
                              /\ \A m \in Node : n \in D[m] => m = n
         /\ n \in In(h) <=> h.up[n] # n
         /\ n \in In(h) <=> n \in D[h.root]
<1>1. n \in In(h) => D[n] \subseteq In(h)
  BY UpIs, BelowIs
<1>2. ASSUME n \notin In(h) PROVE D[n] = {n} /\ h.kid[n] = [s \in Side |-> NULL]
  <2>1. \A s \in Side : h.kid[n][s] = NULL
    BY <1>2, KidIs
  <2>2. D[n] = {n}
    BY <2>1 DEF Shape, Spread, Side
  <2>3. h.kid[n] \in [Side -> Pointer]
    BY DEF Shape, Heap
  <2> QED
    BY <2>1, <2>2, <2>3
<1>3. n \notin In(h) => \A m \in Node : n \in D[m] => m = n
  BY UpIs
<1> QED
  BY <1>1, <1>2, <1>3 DEF In, Shape

\* The recursive definition of what is below a node.
LEMMA UnderIs ==
  ASSUME NEW h, NEW D, Shape(h, D), NEW n \in Pointer
  PROVE  Under(h, n) = D[n]
<1> DEFINE P(g) == g = [m \in Pointer |-> IF m = NULL THEN {}
                          ELSE {m} \cup g[h.kid[m]["left"]] \cup g[h.kid[m]["right"]]]
<1>1. P(D)
  <2> DEFINE E == [m \in Pointer |-> IF m = NULL THEN {}
                          ELSE {m} \cup D[h.kid[m]["left"]] \cup D[h.kid[m]["right"]]]
  <2>1. D \in [Pointer -> SUBSET Node] /\ D[NULL] = {}
        /\ \A m \in Node : D[m] = {m} \cup D[h.kid[m]["left"]] \cup D[h.kid[m]["right"]]
    BY DEF Shape, Spread
  <2>2. \A m \in Pointer : D[m] = E[m]
    BY <2>1 DEF Pointer
  <2>3. D = [m \in Pointer |-> D[m]] /\ E = [m \in Pointer |-> E[m]]
    BY <2>1
  <2> QED
    BY <2>2, <2>3, Zenon
<1>2. ASSUME NEW g, P(g) PROVE g = D
  <2> DEFINE X == {m \in Node : g[m] = D[m]}
  <2>1. \A m \in Node : g[m] = {m} \cup g[h.kid[m]["left"]] \cup g[h.kid[m]["right"]]
    BY <1>2, NodeAssumption DEF Pointer
  <2>2. g[NULL] = {} /\ D[NULL] = {}
    BY <1>2 DEF Shape, Spread, Pointer
  <2>3. ASSUME NEW m \in Node, \A s \in Side : h.kid[m][s] # NULL => h.kid[m][s] \in X
        PROVE  m \in X
    <3>1. g[h.kid[m]["left"]] = D[h.kid[m]["left"]] /\ g[h.kid[m]["right"]] = D[h.kid[m]["right"]]
      BY <2>2, <2>3 DEF Side
    <3>2. D[m] = {m} \cup D[h.kid[m]["left"]] \cup D[h.kid[m]["right"]]
      BY DEF Shape, Spread
    <3> QED
      BY <2>1, <3>1, <3>2
  <2>4. X = Node
    <3> HIDE DEF X
    <3>1. X \in SUBSET Node
      BY DEF X
    <3> QED
      BY <2>3, <3>1, FromBelow
  <2>5. \A m \in Pointer : g[m] = D[m]
    BY <2>2, <2>4 DEF Pointer
  <2>6. g = [m \in Pointer |-> g[m]]
    BY <1>2
  <2>7. D = [m \in Pointer |-> D[m]]
    BY DEF Shape, Spread
  <2> HIDE DEF P
  <2> QED
    BY <2>5, <2>6, <2>7, Zenon
<1>3. Under(h, n) = (CHOOSE g : P(g))[n]
  BY DEF Under
<1> HIDE DEF P
<1>4. (CHOOSE g : P(g)) = D
  BY <1>1, <1>2
<1> QED
  BY <1>3, <1>4

LEMMA MembersIs ==
  ASSUME NEW h, NEW D, Shape(h, D)
  PROVE  Members(h) = In(h)
<1>1. h.root \in Pointer
  BY HeapFields DEF Shape
<1> QED
  BY <1>1, UnderIs DEF Members, Shape

\* What the properties say of links and order, a shape says.
LEMMA LinksFollow == ASSUME NEW D, Shape(heap, D) PROVE LinksAgree
<1> DEFINE T == Members(heap)
<1>1. T = In(heap)
  BY MembersIs
<1>2. heap.root # NULL => heap.up[heap.root] = NULL
  BY DEF Shape, Linked
<1>3. \A n \in T, s \in Side : heap.kid[n][s] # NULL
        => heap.up[heap.kid[n][s]] = n /\ heap.kid[n][s] # heap.kid[n][Other(s)]
  BY <1>1, KidIs DEF In
<1>4. \A n \in Node \ T : heap.up[n] = n
  BY <1>1 DEF In
<1> QED
  BY <1>2, <1>3, <1>4 DEF LinksAgree

LEMMA OrderFollows == ASSUME NEW D, Shape(heap, D) PROVE Ordered
<1> SUFFICES ASSUME NEW n \in Members(heap)
             PROVE  /\ \A m \in Under(heap, heap.kid[n]["left"]) : key[m] < key[n]
                    /\ \A m \in Under(heap, heap.kid[n]["right"]) : key[m] > key[n]
  BY DEF Ordered
<1>1. n \in Node
  BY MembersIs DEF In
<1>2. \A s \in Side : heap.kid[n][s] \in Pointer /\ \A m \in D[heap.kid[n][s]] : Lies(s, key[m], n)
  BY <1>1, BelowIs
<1>3. \A s \in Side : \A m \in Under(heap, heap.kid[n][s]) : Lies(s, key[m], n)
  BY <1>2, UnderIs
<1> QED
  BY <1>3 DEF Side, Lies

(***************************************************************************)
(* Assignments, field by field.                                            *)
(***************************************************************************)
LEMMA UpSets ==
  ASSUME NEW h \in Heap, NEW n \in Node, NEW p \in Pointer
  PROVE  /\ Up(h, n, p) \in Heap /\ Up(h, n, p).root = h.root
         /\ Up(h, n, p).red = h.red /\ Up(h, n, p).kid = h.kid
         /\ \A a \in Node : Up(h, n, p).up[a] = IF a = n THEN p ELSE h.up[a]
BY DEF Up, Heap

LEMMA UpIfSets ==
  ASSUME NEW h \in Heap, NEW n \in Pointer, NEW p \in Pointer
  PROVE  /\ UpIf(h, n, p) \in Heap /\ UpIf(h, n, p).root = h.root
         /\ UpIf(h, n, p).red = h.red /\ UpIf(h, n, p).kid = h.kid
         /\ \A a \in Node : UpIf(h, n, p).up[a] = IF a = n THEN p ELSE h.up[a]
<1>1. CASE n = NULL
  BY <1>1, NodeAssumption DEF UpIf
<1>2. CASE n # NULL
  BY <1>2, UpSets DEF UpIf, Pointer
<1> QED
  BY <1>1, <1>2

LEMMA PaintSets ==
  ASSUME NEW h \in Heap, NEW n, NEW isRed \in BOOLEAN
  PROVE  /\ Paint(h, n, isRed) \in Heap /\ Paint(h, n, isRed).root = h.root
         /\ Paint(h, n, isRed).up = h.up /\ Paint(h, n, isRed).kid = h.kid
         /\ \A a \in Node : Paint(h, n, isRed).red[a] = IF a = n THEN isRed ELSE h.red[a]
BY DEF Paint, Heap

\* k is h with n black, or red.
Blackened(h, k, n) ==
  /\ k \in Heap /\ k.root = h.root /\ k.up = h.up /\ k.kid = h.kid
  /\ \A a \in Node : IF a = n THEN ~ k.red[a] ELSE k.red[a] = h.red[a]
Reddened(h, k, n) ==
  /\ k \in Heap /\ k.root = h.root /\ k.up = h.up /\ k.kid = h.kid
  /\ \A a \in Node : IF a = n THEN k.red[a] ELSE k.red[a] = h.red[a]

LEMMA PaintIs ==
  ASSUME NEW h \in Heap, NEW n
  PROVE  Blackened(h, Paint(h, n, FALSE), n) /\ Reddened(h, Paint(h, n, TRUE), n)
BY DEF Paint, Heap, Blackened, Reddened

LEMMA HangSets ==
  ASSUME NEW h \in Heap, NEW n \in Node, NEW s \in Side, NEW c \in Pointer
  PROVE  /\ Hang(h, n, s, c) \in Heap /\ Hang(h, n, s, c).root = h.root
         /\ Hang(h, n, s, c).red = h.red /\ Hang(h, n, s, c).up = h.up
         /\ \A a \in Node, t \in Side : Hang(h, n, s, c).kid[a][t]
                                          = IF a = n /\ t = s THEN c ELSE h.kid[a][t]
BY DEF Hang, Heap

LEMMA RedirectSets ==
  ASSUME NEW h \in Heap, NEW n \in Node, NEW p \in Pointer, NEW c \in Pointer
  PROVE  /\ Redirect(h, n, p, c) \in Heap
         /\ Redirect(h, n, p, c).root = IF p = NULL THEN c ELSE h.root
         /\ Redirect(h, n, p, c).red = h.red /\ Redirect(h, n, p, c).up = h.up
         /\ \A a \in Node, t \in Side : Redirect(h, n, p, c).kid[a][t]
                                          = IF a = p /\ t = SideOf(h, n, p) THEN c ELSE h.kid[a][t]
<1>1. CASE p = NULL
  BY <1>1, NodeAssumption DEF Redirect, Heap
<1>2. CASE p # NULL
  <2>1. p \in Node /\ SideOf(h, n, p) \in Side
    BY <1>2 DEF Pointer, SideOf, Side
  <2> QED
    BY <1>2, <2>1, HangSets DEF Redirect
<1> QED
  BY <1>1, <1>2

\* Which side a child is on.
LEMMA SideIs ==
  ASSUME NEW h, NEW D, Shape(h, D), NEW n \in Node, NEW s \in Side, h.kid[n][s] # NULL
  PROVE  /\ SideOf(h, h.kid[n][s], n) = s
         /\ \A a \in Node, t \in Side : h.kid[a][t] = h.kid[n][s] => a = n /\ t = s
<1>1. h.kid[n][s] # h.kid[n][Other(s)] /\ h.up[h.kid[n][s]] = n
  BY KidIs
<1>2. SideOf(h, h.kid[n][s], n) = s
  BY <1>1 DEF SideOf, Side, Other
<1>3. ASSUME NEW a \in Node, NEW t \in Side, h.kid[a][t] = h.kid[n][s] PROVE a = n /\ t = s
  <2>1. h.up[h.kid[a][t]] = a
    BY <1>3, KidIs
  <2> QED
    BY <1>1, <1>3, <2>1, Sides
<1> QED
  BY <1>2, <1>3

\* A node in the tree is the root, or a child of its parent on one side.
LEMMA PlaceIs ==
  ASSUME NEW h, NEW D, Shape(h, D), NEW n \in In(h)
  PROVE  /\ n \in Node /\ h.up[n] \in Pointer /\ h.up[n] # n
         /\ h.up[n] = NULL <=> h.root = n
         /\ h.up[n] # NULL => /\ h.up[n] \in In(h) /\ h.up[n] \in Node
                              /\ SideOf(h, n, h.up[n]) \in Side
                              /\ h.kid[h.up[n]][SideOf(h, n, h.up[n])] = n
         /\ \A a \in Node, t \in Side : h.kid[a][t] = n <=> a = h.up[n] /\ t = SideOf(h, n, h.up[n])
<1>1. n \in Node /\ h.up[n] \in Pointer /\ h.up[n] # n
  BY HeapFields DEF Shape, In
<1>2. h.up[n] = NULL <=> h.root = n
  BY <1>1, NodeAssumption DEF Shape, Linked
<1>3. ASSUME h.up[n] # NULL
      PROVE  /\ h.up[n] \in In(h) /\ h.up[n] \in Node /\ SideOf(h, n, h.up[n]) \in Side
             /\ h.kid[h.up[n]][SideOf(h, n, h.up[n])] = n
  <2>1. PICK s \in Side : h.kid[h.up[n]][s] = n
    BY <1>3 DEF Shape, Linked
  <2>2. h.up[n] \in Node
    BY <1>1, <1>3 DEF Pointer
  <2>3. h.kid[h.up[n]][s] # NULL
    BY <1>1, <2>1, NodeAssumption
  <2> QED
    BY <2>1, <2>2, <2>3, SideIs, KidIs
<1>4. ASSUME NEW a \in Node, NEW t \in Side, h.kid[a][t] = n
      PROVE  a = h.up[n] /\ t = SideOf(h, n, h.up[n])
  <2>1. h.kid[a][t] # NULL
    BY <1>1, <1>4, NodeAssumption
  <2>2. h.up[n] = a
    BY <1>4, <2>1, KidIs
  <2> QED
    BY <1>4, <2>1, <2>2, SideIs
<1>5. ASSUME NEW a \in Node, a = h.up[n] PROVE h.up[n] # NULL
  BY <1>5, NodeAssumption
<1> QED
  BY <1>1, <1>2, <1>3, <1>4, <1>5

(***************************************************************************)
(* Rotations.                                                              *)
(***************************************************************************)
\* g is h with n turned to side s.
Turned(h, g, n, s) ==
  LET c == h.kid[n][Other(s)]
      x == h.kid[c][s]
  IN /\ g \in Heap
     /\ g.root = IF h.root = n THEN c ELSE h.root
     /\ g.red = h.red
     /\ \A a \in Node : g.up[a] = IF a = n THEN c ELSE IF a = c THEN h.up[n]
                                  ELSE IF a = x THEN n ELSE h.up[a]
     /\ \A a \in Node, t \in Side :
          g.kid[a][t] = IF a = n THEN IF t = s THEN h.kid[n][t] ELSE x
                        ELSE IF a = c THEN IF t = s THEN n ELSE h.kid[c][t]
                        ELSE IF h.kid[a][t] = n THEN c ELSE h.kid[a][t]

\* What is below n and below the child that takes its place; the rest is as before.
TurnedBelow(h, D, n, s) ==
  [D EXCEPT ![n] = {n} \cup D[h.kid[n][s]] \cup D[h.kid[h.kid[n][Other(s)]][s]],
            ![h.kid[n][Other(s)]] = D[n]]

LEMMA RotateIs ==
  ASSUME NEW h, NEW D, Shape(h, D), NEW n \in Node, NEW s \in Side, h.kid[n][Other(s)] # NULL
  PROVE  Turned(h, Rotate(h, n, s), n, s)
<1> DEFINE o == Other(s)
           c == h.kid[n][o]
           x == h.kid[c][s]
           p == h.up[n]
           i == Hang(h, n, o, x)
           h1 == UpIf(i, x, n)
           j == Hang(h1, c, s, n)
           h2 == Up(j, c, p)
           k == Redirect(h2, n, p, c)
           g == Up(k, n, c)
<1>1. /\ o \in Side /\ o # s /\ (\A t \in Side : t = s \/ t = o) /\ h \in Heap
  BY Sides DEF Shape
<1>2. c \in Node /\ n \in In(h) /\ c # n /\ h.up[c] = n
  BY <1>1, KidIs
<1>3. /\ p \in Pointer /\ p # n
      /\ p = NULL <=> h.root = n
      /\ p # NULL => SideOf(h, n, p) \in Side
      /\ \A a \in Node, t \in Side : h.kid[a][t] = n <=> a = p /\ t = SideOf(h, n, p)
  BY <1>2, PlaceIs
<1>5. p # c
  <2>1. p = c => c \in D[n] /\ n \in D[c]
    <3>1. c \in D[n]
      BY <1>1, KidIs
    <3>2. p = c => \E t \in Side : h.kid[c][t] = n
      BY <1>2, <1>3
    <3>3. p = c => n \in D[c]
      BY <1>2, <3>2, KidIs, NodeAssumption
    <3> QED
      BY <3>1, <3>3
  <2> QED
    BY <1>2, <2>1, OneAbove
<1>4. x \in Pointer /\ x # c /\ x # n
  <2>1. x \in Pointer
    BY <1>1, <1>2, HeapFields
  <2>2. x # NULL => x # c /\ h.up[x] = c
    BY <1>2, KidIs
  <2> QED
    BY <1>2, <1>5, <2>1, <2>2, NodeAssumption
<1>pt. n \in Pointer /\ c \in Pointer
  BY <1>2 DEF Pointer
<1> HIDE DEF o, c, x, p
<1>6. /\ i \in Heap /\ i.root = h.root /\ i.red = h.red /\ i.up = h.up
      /\ \A a \in Node, t \in Side : i.kid[a][t] = IF a = n /\ t = o THEN x ELSE h.kid[a][t]
  BY <1>1, <1>4, HangSets
<1> HIDE DEF i
<1>7. /\ h1 \in Heap /\ h1.root = i.root /\ h1.red = i.red /\ h1.kid = i.kid
      /\ \A a \in Node : h1.up[a] = IF a = x THEN n ELSE i.up[a]
  <2>1. i \in Heap /\ x \in Pointer /\ n \in Pointer
    BY <1>pt, <1>4, <1>6
  <2>2. UpIf(i, x, n) \in Heap
    BY <2>1, UpIfSets
  <2>3. h1 = UpIf(i, x, n)
    OBVIOUS
  <2> HIDE DEF h1
  <2>4. UpIf(i, x, n).root = i.root /\ UpIf(i, x, n).red = i.red /\ UpIf(i, x, n).kid = i.kid
    BY <2>1, UpIfSets
  <2>5. \A a \in Node : UpIf(i, x, n).up[a] = IF a = x THEN n ELSE i.up[a]
    BY <2>1, UpIfSets
  <2> QED
    BY <2>2, <2>3, <2>4, <2>5
<1> HIDE DEF h1
<1>8. /\ j \in Heap /\ j.root = h1.root /\ j.red = h1.red /\ j.up = h1.up
      /\ \A a \in Node, t \in Side : j.kid[a][t] = IF a = c /\ t = s THEN n ELSE h1.kid[a][t]
  BY <1>pt, <1>2, <1>7, HangSets
<1> HIDE DEF j
<1>9. /\ h2 \in Heap /\ h2.root = j.root /\ h2.red = j.red /\ h2.kid = j.kid
      /\ \A a \in Node : h2.up[a] = IF a = c THEN p ELSE j.up[a]
  BY <1>2, <1>3, <1>8, UpSets
<1> HIDE DEF h2
<1>10. /\ k \in Heap /\ k.root = (IF p = NULL THEN c ELSE h2.root)
       /\ k.red = h2.red /\ k.up = h2.up
       /\ \A a \in Node, t \in Side : k.kid[a][t] = IF a = p /\ t = SideOf(h2, n, p) THEN c ELSE h2.kid[a][t]
  <2>1. h2 \in Heap /\ p \in Pointer /\ c \in Pointer
    BY <1>pt, <1>3, <1>9
  <2> QED
    BY <2>1, RedirectSets
<1>11. p # NULL => SideOf(h2, n, p) = SideOf(h, n, p)
  <2>1. p # NULL => h2.kid[p]["left"] = h.kid[p]["left"]
    BY <1>3, <1>5, <1>6, <1>7, <1>8, <1>9 DEF Side, Pointer
  <2> QED
    BY <2>1 DEF SideOf
<1> HIDE DEF k
<1>12. /\ g \in Heap /\ g.root = k.root /\ g.red = k.red /\ g.kid = k.kid
       /\ \A a \in Node : g.up[a] = IF a = n THEN c ELSE k.up[a]
  <2>1. k \in Heap /\ c \in Pointer
    BY <1>pt, <1>10
  <2> QED
    BY <2>1, UpSets
<1>13. g = Rotate(h, n, s)
  BY DEF g, k, h2, j, h1, i, p, x, c, o, Rotate
<1> HIDE DEF g
<1>14. \A a \in Node : g.up[a] = IF a = n THEN c ELSE IF a = c THEN p ELSE IF a = x THEN n ELSE h.up[a]
  BY <1>6, <1>7, <1>8, <1>9, <1>10, <1>12
<1>15. g.root = (IF h.root = n THEN c ELSE h.root) /\ g.red = h.red
  BY <1>3, <1>6, <1>7, <1>8, <1>9, <1>10, <1>12
<1>16. ASSUME NEW a \in Node, NEW t \in Side
       PROVE  g.kid[a][t] = IF a = n THEN IF t = s THEN h.kid[n][t] ELSE x
                            ELSE IF a = c THEN IF t = s THEN n ELSE h.kid[c][t]
                            ELSE IF h.kid[a][t] = n THEN c ELSE h.kid[a][t]
  <2>1. g.kid[a][t] = IF a = p /\ t = SideOf(h2, n, p) THEN c
                      ELSE IF a = c /\ t = s THEN n
                      ELSE IF a = n /\ t = o THEN x ELSE h.kid[a][t]
    BY <1>6, <1>7, <1>8, <1>9, <1>10, <1>12
  <2>2. (h.kid[a][t] = n <=> a = p /\ t = SideOf(h, n, p)) /\ (a = p => p # NULL)
    BY <1>3, NodeAssumption
  <2>3. t = s \/ t = o
    BY <1>1
  <2> QED
    BY <2>1, <2>2, <2>3, <1>1, <1>2, <1>3, <1>5, <1>11
<1> QED
  BY <1>12, <1>13, <1>14, <1>15, <1>16 DEF Turned, o, c, x, p

\* What a rotation is about: a node n, its child c, and the three subtrees.
Pivot(h, D, n, s, c, x, l, r) ==
  /\ c \in Node /\ x \in Pointer /\ l \in Pointer /\ r \in Pointer
  /\ n \in In(h) /\ c \in In(h) /\ c # n
  /\ h.up[c] = n /\ h.up[n] \in Pointer /\ h.up[n] # c /\ h.up[n] # n
  /\ x # n /\ x # c /\ l # n /\ l # c /\ r # n /\ r # c
  /\ x # NULL => h.up[x] = c
  /\ l # NULL => h.up[l] = n
  /\ r # NULL => h.up[r] = c
  /\ D[n] = {n} \cup D[l] \cup D[c] /\ D[c] = {c} \cup D[x] \cup D[r]
  /\ D[l] \in SUBSET Node /\ D[x] \in SUBSET Node /\ D[r] \in SUBSET Node
  /\ n \notin D[l] /\ n \notin D[x] /\ n \notin D[r] /\ c \notin D[l] /\ c \notin D[x] /\ c \notin D[r]
  /\ D[l] \cap D[x] = {} /\ D[l] \cap D[r] = {} /\ D[x] \cap D[r] = {}

LEMMA PivotIs ==
  ASSUME NEW h, NEW D, Shape(h, D), NEW n \in Node, NEW s \in Side, h.kid[n][Other(s)] # NULL
  PROVE  Pivot(h, D, n, s, h.kid[n][Other(s)], h.kid[h.kid[n][Other(s)]][s],
               h.kid[n][s], h.kid[h.kid[n][Other(s)]][Other(s)])
<1> DEFINE o == Other(s)
           c == h.kid[n][o]
           x == h.kid[c][s]
           l == h.kid[n][s]
           r == h.kid[c][o]
<1>1. o \in Side /\ o # s /\ Other(o) = s
  BY Sides
<1>2. c \in Node /\ n \in In(h) /\ c \in In(h) /\ c # n /\ h.up[c] = n
  BY <1>1, KidIs
<1>3. l \in Pointer /\ D[l] \cap D[c] = {} /\ n \notin D[l] /\ D[n] = {n} \cup D[l] \cup D[c] /\ n \notin D[c]
  BY <1>1, BelowIs
<1>4. x \in Pointer /\ r \in Pointer /\ c \notin D[x] /\ c \notin D[r] /\ D[c] = {c} \cup D[x] \cup D[r]
      /\ D[x] \cap D[r] = {}
  BY <1>1, <1>2, BelowIs
<1>5. /\ l # NULL => l \in Node /\ l # n /\ h.up[l] = n /\ l # c
      /\ x # NULL => x \in Node /\ x # c /\ h.up[x] = c
      /\ r # NULL => r \in Node /\ r # c /\ h.up[r] = c
  BY <1>1, <1>2, KidIs
<1>6. h.up[n] \in Pointer /\ h.up[n] # n
  BY <1>2, PlaceIs
<1>7. h.up[n] # c
  <2> SUFFICES ASSUME h.up[n] = c PROVE FALSE
    OBVIOUS
  <2>1. PICK t \in Side : h.kid[c][t] = n
    BY <1>2, PlaceIs, NodeAssumption
  <2>2. n \in D[c]
    BY <1>2, <2>1, KidIs, NodeAssumption
  <2> QED
    BY <1>3, <2>2
<1>8. D \in [Pointer -> SUBSET Node]
  BY DEF Shape, Spread
<1> HIDE DEF o, c, x, l, r
<1>9. l # n /\ l # c /\ x # n /\ x # c /\ r # n /\ r # c
  BY <1>2, <1>5, <1>7, NodeAssumption
<1>10. D[l] \in SUBSET Node /\ D[x] \in SUBSET Node /\ D[r] \in SUBSET Node
  BY <1>3, <1>4, <1>8
<1>11. n \notin D[x] /\ n \notin D[r] /\ c \notin D[l] /\ D[l] \cap D[x] = {} /\ D[l] \cap D[r] = {}
  BY <1>3, <1>4
<1> QED
  <2>1. Pivot(h, D, n, s, c, x, l, r)
    BY <1>2, <1>3, <1>4, <1>5, <1>6, <1>7, <1>9, <1>10, <1>11 DEF Pivot
  <2> QED
    BY <2>1 DEF o, c, x, l, r

LEMMA TurnedBelowIs ==
  ASSUME NEW h, NEW D, Shape(h, D), NEW n \in Node, NEW s \in Side, h.kid[n][Other(s)] # NULL
  PROVE  LET c == h.kid[n][Other(s)]
             E == TurnedBelow(h, D, n, s)
         IN /\ E \in [Pointer -> SUBSET Node]
            /\ E[n] = {n} \cup D[h.kid[n][s]] \cup D[h.kid[c][s]]
            /\ E[c] = D[n]
            /\ \A a \in Pointer : a # n /\ a # c => E[a] = D[a]
<1> DEFINE c == h.kid[n][Other(s)]
           x == h.kid[c][s]
           l == h.kid[n][s]
           E == [D EXCEPT ![n] = {n} \cup D[l] \cup D[x], ![c] = D[n]]
<1>1. D \in [Pointer -> SUBSET Node]
  BY DEF Shape, Spread
<1>2. c \in Node /\ c # n /\ D[l] \in SUBSET Node /\ D[x] \in SUBSET Node
  <2>1. Pivot(h, D, n, s, c, x, l, h.kid[c][Other(s)])
    BY PivotIs
  <2> HIDE DEF c, x, l
  <2> QED
    BY <2>1 DEF Pivot
<1>3. TurnedBelow(h, D, n, s) = E
  BY DEF TurnedBelow
<1> HIDE DEF c, l, x
<1>4. /\ E \in [Pointer -> SUBSET Node]
      /\ E[n] = {n} \cup D[l] \cup D[x] /\ E[c] = D[n]
      /\ \A a \in Pointer : a # n /\ a # c => E[a] = D[a]
  BY <1>1, <1>2 DEF Pointer
<1> HIDE DEF E
<1> QED
  BY <1>3, <1>4 DEF c, l, x

LEMMA RotateShape ==
  ASSUME NEW h, NEW D, Shape(h, D), NEW n \in Node, NEW s \in Side, h.kid[n][Other(s)] # NULL,
         NEW g, Turned(h, g, n, s)
  PROVE  Shape(g, TurnedBelow(h, D, n, s)) /\ In(g) = In(h)
<1> DEFINE o == Other(s)
           c == h.kid[n][o]
           x == h.kid[c][s]
           l == h.kid[n][s]
           r == h.kid[c][o]
           E == TurnedBelow(h, D, n, s)
<1>1. o \in Side /\ o # s /\ Other(o) = s /\ \A t \in Side : t = s \/ t = o
  BY Sides
<1>2. /\ c \in Node /\ x \in Pointer /\ l \in Pointer /\ r \in Pointer
      /\ n \in In(h) /\ c \in In(h) /\ c # n /\ h.up[c] = n /\ h.up[n] \in Pointer /\ h.up[n] # c /\ h.up[n] # n
      /\ x # n /\ x # c /\ l # n /\ l # c /\ r # n /\ r # c
      /\ x # NULL => h.up[x] = c
      /\ l # NULL => h.up[l] = n
      /\ r # NULL => h.up[r] = c
      /\ D[n] = {n} \cup D[l] \cup D[c] /\ D[c] = {c} \cup D[x] \cup D[r]
      /\ D[l] \in SUBSET Node /\ D[x] \in SUBSET Node /\ D[r] \in SUBSET Node
  <2>1. Pivot(h, D, n, s, c, x, l, r)
    BY PivotIs
  <2> HIDE DEF c, x, l, r
  <2> QED
    BY <2>1 DEF Pivot
<1>in. n \in In(h) /\ c \in In(h)
  BY <1>2
<1>pl. /\ h.up[n] = NULL <=> h.root = n
       /\ h.up[n] # NULL => h.up[n] \in Node /\ \E t \in Side : h.kid[h.up[n]][t] = n
       /\ h.root # c
  <2>1. /\ h.up[n] = NULL <=> h.root = n
        /\ h.up[n] # NULL => h.up[n] \in Node /\ \E t \in Side : h.kid[h.up[n]][t] = n
    BY <1>in, PlaceIs
  <2>2. h.up[c] = NULL <=> h.root = c
    <3> HIDE DEF c
    <3> QED
      BY <1>in, PlaceIs
  <2> QED
    BY <1>2, <2>1, <2>2, NodeAssumption
<1>3. /\ g \in Heap
      /\ g.root = (IF h.root = n THEN c ELSE h.root)
      /\ \A a \in Node : g.up[a] = IF a = n THEN c ELSE IF a = c THEN h.up[n]
                                   ELSE IF a = x THEN n ELSE h.up[a]
      /\ \A a \in Node, t \in Side :
           g.kid[a][t] = IF a = n THEN IF t = s THEN h.kid[n][t] ELSE x
                         ELSE IF a = c THEN IF t = s THEN n ELSE h.kid[c][t]
                         ELSE IF h.kid[a][t] = n THEN c ELSE h.kid[a][t]
  BY DEF Turned
<1>4. /\ E \in [Pointer -> SUBSET Node]
      /\ E[n] = {n} \cup D[l] \cup D[x] /\ E[c] = D[n]
      /\ \A a \in Pointer : a # n /\ a # c => E[a] = D[a]
  BY TurnedBelowIs
<1>5. /\ D[NULL] = {} /\ D[h.root] = In(h)
      /\ \A a \in Node : D[a] = {a} \cup D[h.kid[a]["left"]] \cup D[h.kid[a]["right"]]
      /\ \A a \in Node, t \in Side : \A m \in D[h.kid[a][t]] : Lies(t, key[m], a)
      /\ \A a, b \in In(h) : key[a] = key[b] => a = b
  BY DEF Shape, Spread
<1>6. \A a \in Node, t \in Side : /\ h.kid[a][t] \in Pointer
                                  /\ h.kid[a][t] = c => a = n
                                  /\ h.kid[a][t] # NULL => a \in In(h) /\ h.up[h.kid[a][t]] = a
  <2>1. \A a \in Node, t \in Side : /\ h.kid[a][t] \in Pointer
                                    /\ h.kid[a][t] # NULL => a \in In(h) /\ h.up[h.kid[a][t]] = a
    BY BelowIs, KidIs
  <2> HIDE DEF c
  <2> QED
    BY <2>1, <1>2, NodeAssumption
<1>7. In(g) = In(h)
  <2> HIDE DEF c, x, E
  <2>1. \A a \in Node : g.up[a] # a <=> h.up[a] # a
    BY <1>2, <1>3, NodeAssumption DEF Pointer
  <2> QED
    BY <2>1 DEF In
<1>8. ASSUME NEW a \in Node, NEW t \in Side
      PROVE  E[g.kid[a][t]] = IF a = n THEN IF t = s THEN D[l] ELSE D[x]
                              ELSE IF a = c THEN IF t = s THEN {n} \cup D[l] \cup D[x] ELSE D[r]
                              ELSE D[h.kid[a][t]]
  <2> HIDE DEF c, x, l, r, E
  <2>0. h.kid[n][s] = l /\ h.kid[c][o] = r
    BY DEF l, r
  <2>1. CASE a = n
    BY <1>1, <1>2, <1>3, <1>4, <2>0, <2>1
  <2>2. CASE a = c
    <3>1. t = s => g.kid[a][t] = n
      BY <1>2, <1>3, <2>2
    <3>2. t = o => g.kid[a][t] = r
      BY <1>1, <1>2, <1>3, <2>0, <2>2
    <3>3. E[n] = {n} \cup D[l] \cup D[x] /\ E[r] = D[r]
      BY <1>2, <1>4
    <3> QED
      BY <1>1, <1>2, <2>2, <3>1, <3>2, <3>3
  <2>3. CASE a # n /\ a # c
    <3>1. g.kid[a][t] = IF h.kid[a][t] = n THEN c ELSE h.kid[a][t]
      BY <1>3, <2>3
    <3>2. h.kid[a][t] # c /\ h.kid[a][t] \in Pointer
      BY <1>6, <2>3
    <3> QED
      BY <1>4, <2>3, <3>1, <3>2
  <2> QED
    BY <2>1, <2>2, <2>3
<1>9. ASSUME NEW a \in Node PROVE E[a] = {a} \cup E[g.kid[a]["left"]] \cup E[g.kid[a]["right"]]
  <2>1. "left" \in Side /\ "right" \in Side /\ ((s = "left" /\ o = "right") \/ (s = "right" /\ o = "left"))
    BY DEF Side, Other
  <2>2. CASE a = n
    <3> HIDE DEF o, c, x, l, r, E
    <3>1. E[g.kid[n][s]] = D[l] /\ E[g.kid[n][o]] = D[x]
      BY <1>1, <1>8
    <3> QED
      BY <1>4, <2>1, <2>2, <3>1
  <2>3. CASE a = c
    <3> HIDE DEF o, c, x, l, r, E
    <3>1. E[g.kid[c][s]] = {n} \cup D[l] \cup D[x] /\ E[g.kid[c][o]] = D[r]
      BY <1>1, <1>2, <1>8
    <3> QED
      BY <1>2, <1>4, <2>1, <2>3, <3>1
  <2>4. CASE a # n /\ a # c
    <3> HIDE DEF o, c, x, l, r, E
    <3>1. E[a] = D[a] /\ E[g.kid[a]["left"]] = D[h.kid[a]["left"]] /\ E[g.kid[a]["right"]] = D[h.kid[a]["right"]]
      BY <1>4, <1>8, <2>1, <2>4 DEF Pointer
    <3> QED
      BY <1>5, <3>1
  <2> QED
    BY <2>2, <2>3, <2>4
<1>10. ASSUME NEW a \in Node, NEW t \in Side, NEW m \in E[g.kid[a][t]] PROVE Lies(t, key[m], a)
  <2> HIDE DEF c, x, l, r, E
  <2>1. CASE a = n
    <3>1. CASE t = s
      <4>1. m \in D[l]
        BY <1>8, <1>10, <2>1, <3>1
      <4> QED
        BY <1>5, <2>1, <3>1, <4>1 DEF l
    <3>2. CASE t = o
      <4>1. m \in D[c]
        BY <1>1, <1>2, <1>8, <1>10, <2>1, <3>2
      <4> QED
        BY <1>5, <2>1, <3>2, <4>1 DEF c
    <3> QED
      BY <1>1, <3>1, <3>2
  <2>2. CASE a = c /\ t = s
    <3>1. m = n \/ m \in D[l] \/ m \in D[x]
      BY <1>2, <1>8, <1>10, <2>2
    <3>2. Lies(s, key[n], c)
      <4>1. c \in D[c]
        BY <1>2
      <4>2. Lies(o, key[c], n)
        BY <1>1, <1>5, <4>1 DEF c
      <4>3. key[n] \in Int /\ key[c] \in Int
        BY <1>2, NodeAssumption
      <4> QED
        BY <1>1, <1>2, <4>2, <4>3 DEF Lies, Side, Other, o
    <3>3. CASE m \in D[l]
      <4>1. Lies(s, key[m], n) /\ m \in Node
        BY <1>2, <1>5, <3>3 DEF l
      <4>2. key[m] \in Int /\ key[n] \in Int /\ key[c] \in Int
        BY <1>2, <4>1, NodeAssumption
      <4> QED
        BY <2>2, <3>2, <4>1, <4>2 DEF Lies
    <3>4. CASE m \in D[x]
      BY <1>2, <1>5, <2>2, <3>4 DEF x
    <3> QED
      BY <2>2, <3>1, <3>2, <3>3, <3>4
  <2>3. CASE a = c /\ t = o
    BY <1>1, <1>2, <1>5, <1>8, <1>10, <2>3 DEF r
  <2>4. CASE a # n /\ a # c
    BY <1>5, <1>8, <1>10, <2>4
  <2> QED
    BY <1>1, <2>1, <2>2, <2>3, <2>4
<1>11. E[NULL] = {}
  BY <1>2, <1>4, <1>5, NodeAssumption DEF Pointer
<1>12. E[g.root] = In(g)
  <2> HIDE DEF c, x, E
  <2>1. h.root \in Pointer /\ h.root # c
    <3>1. h.root \in Pointer
      BY HeapFields DEF Shape
    <3> QED
      BY <3>1, <1>pl
  <2>2. h.root = n => g.root = c /\ E[c] = D[n]
    BY <1>3, <1>4
  <2>3. h.root # n => g.root = h.root /\ E[h.root] = D[h.root]
    BY <1>3, <1>4, <2>1
  <2> QED
    BY <1>5, <1>7, <2>2, <2>3
<1>13. Linked(g)
  <2>1. g.root # NULL => g.root \in In(g) /\ g.up[g.root] = NULL
    <3>1. h.root # NULL => h.root \in In(h) /\ h.up[h.root] = NULL
      BY DEF Shape, Linked
    <3> HIDE DEF c, x
    <3> QED
      BY <1>2, <1>3, <1>7, <1>pl, <3>1, NodeAssumption DEF In
  <2>2. ASSUME NEW a \in Node, NEW t \in Side, g.kid[a][t] # NULL
        PROVE  a \in In(g) /\ g.up[g.kid[a][t]] = a
    <3> HIDE DEF x, E
    <3>1. CASE a = n
      <4>1. CASE t = s
        <5>1. g.kid[a][t] = l /\ l # NULL /\ l \in Node /\ l # x
          BY <1>2, <1>3, <2>2, <3>1, <4>1 DEF Pointer
        <5> HIDE DEF c, l
        <5> QED
          BY <1>2, <1>3, <1>7, <3>1, <5>1
      <4>2. CASE t = o
        <5> HIDE DEF c, l
        <5> QED
          BY <1>1, <1>2, <1>3, <1>7, <2>2, <3>1, <4>2 DEF Pointer
      <4> QED
        BY <1>1, <4>1, <4>2
    <3>2. CASE a = c
      <4>1. CASE t = s
        <5> HIDE DEF c, l
        <5> QED
          BY <1>2, <1>3, <1>7, <3>2, <4>1
      <4>2. CASE t = o
        <5>1. r # NULL => r # x
          <6>1. c \in Node
            BY <1>2
          <6> HIDE DEF c
          <6> QED
            BY <1>1, <6>1, KidIs DEF x
        <5>2. g.kid[a][t] = r
          BY <1>1, <1>2, <1>3, <3>2, <4>2
        <5> HIDE DEF c, l, r
        <5> QED
          BY <1>2, <1>3, <1>7, <2>2, <3>2, <5>1, <5>2 DEF Pointer
      <4> QED
        BY <1>1, <4>1, <4>2
    <3>3. CASE a # n /\ a # c
      <4> DEFINE y == h.kid[a][t]
      <4> HIDE DEF c, l, r
      <4>1. g.kid[a][t] = (IF y = n THEN c ELSE y)
        BY <1>3, <3>3
      <4>2. y # NULL /\ y \in Node /\ a \in In(h) /\ h.up[y] = a
        <5>1. y \in Pointer
          BY <1>6
        <5>2. y # NULL
          BY <1>2, <2>2, <4>1, NodeAssumption
        <5> QED
          BY <1>6, <5>1, <5>2 DEF Pointer
      <4> HIDE DEF y
      <4>3. y # c /\ y # x
        BY <1>2, <3>3, <4>2
      <4> QED
        BY <1>2, <1>3, <1>7, <4>1, <4>2, <4>3
    <3> QED
      BY <3>1, <3>2, <3>3
  <2>3. ASSUME NEW a \in In(g)
        PROVE  IF g.up[a] = NULL THEN a = g.root ELSE \E t \in Side : g.kid[g.up[a]][t] = a
    <3>1. a \in Node /\ a \in In(h)
      BY <1>7, <2>3 DEF In
    <3>2. /\ h.up[a] = NULL => a = h.root
          /\ h.up[a] # NULL => h.up[a] \in Node /\ \E t \in Side : h.kid[h.up[a]][t] = a
      BY <3>1, PlaceIs
    <3>3. CASE a = n
      <4> HIDE DEF c, x, l, r, E
      <4>1. g.up[a] = c /\ g.kid[c][s] = a
        BY <1>2, <1>3, <3>3
      <4> QED
        BY <1>2, <4>1, NodeAssumption
    <3>4. CASE a = c
      <4> HIDE DEF c, x, l, r, E
      <4>3. g.up[a] = h.up[n]
        BY <1>2, <1>3, <3>4
      <4> QED
        BY <1>2, <1>3, <1>pl, <3>4, <4>3
    <3>5. CASE a = x
      <4>1. g.up[a] = n /\ g.kid[n][o] = a
        <5> HIDE DEF c, x, l, r, E
        <5> QED
          BY <1>1, <1>2, <1>3, <3>1, <3>5
      <4> QED
        BY <1>1, <4>1, NodeAssumption
    <3>6. CASE a # n /\ a # c /\ a # x
      <4> DEFINE b == h.up[a]
      <4>1. g.up[a] = b
        BY <1>3, <3>1, <3>6
      <4>2. ASSUME b # NULL PROVE \E t \in Side : g.kid[b][t] = a
        <5>1. PICK t \in Side : h.kid[b][t] = a
          BY <3>2, <4>2
        <5>2. b \in Node
          BY <3>2, <4>2
        <5>3. (b = n => t = s) /\ (b = c => t = o)
          BY <1>1, <3>6, <5>1
        <5> HIDE DEF b, x, l, r, E
        <5>4. g.kid[b][t] = a
          BY <1>1, <1>3, <3>6, <5>1, <5>2, <5>3
        <5> QED
          BY <5>4
      <4>3. ASSUME b = NULL PROVE a = g.root
        BY <1>3, <3>2, <3>6, <4>3
      <4> QED
        BY <4>1, <4>2, <4>3
    <3> QED
      BY <3>3, <3>4, <3>5, <3>6
  <2> QED
    BY <2>1, <2>2, <2>3 DEF Linked
<1> HIDE DEF E
<1>14. Spread(g, E)
  BY <1>4, <1>9, <1>10, <1>11 DEF Spread
<1>15. Shape(g, E)
  BY <1>3, <1>5, <1>7, <1>12, <1>13, <1>14 DEF Shape
<1> QED
  BY <1>7, <1>15 DEF E

\* Colours are no part of the shape.
LEMMA SameLinks ==
  ASSUME NEW h, NEW D, Shape(h, D), NEW g \in Heap, g.root = h.root, g.up = h.up, g.kid = h.kid
  PROVE  Shape(g, D) /\ In(g) = In(h)
<1>1. In(g) = In(h)
  BY DEF In
<1>2. Spread(g, D)
  BY DEF Shape, Spread
<1>3. Linked(g)
  BY <1>1 DEF Shape, Linked
<1> QED
  BY <1>1, <1>2, <1>3 DEF Shape

LEMMA PaintShape ==
  ASSUME NEW h, NEW D, Shape(h, D), NEW n, NEW isRed \in BOOLEAN
  PROVE  Shape(Paint(h, n, isRed), D) /\ In(Paint(h, n, isRed)) = In(h)
<1>1. h \in Heap
  BY DEF Shape
<1>2. /\ Paint(h, n, isRed) \in Heap /\ Paint(h, n, isRed).root = h.root
      /\ Paint(h, n, isRed).up = h.up /\ Paint(h, n, isRed).kid = h.kid
  BY <1>1, PaintSets
<1> QED
  BY <1>2, SameLinks

(***************************************************************************)
(* A node joins.                                                           *)
(***************************************************************************)
\* Where a node of key k, which no node has, may be hung.
Room(h, D, k, p, s) ==
  /\ p \in Pointer /\ s \in Side
  /\ IF p = NULL THEN h.root = NULL
     ELSE p \in In(h) /\ h.kid[p][s] = NULL /\ Lies(s, k, p)
  /\ \A a \in Node, t \in Side : p \in D[h.kid[a][t]] => Lies(t, k, a)

Joined(h, g, n, p, s) ==
  /\ g \in Heap
  /\ g.root = IF p = NULL THEN n ELSE h.root
  /\ \A a \in Node : /\ g.up[a] = IF a = n THEN p ELSE h.up[a]
                     /\ g.red[a] = IF a = n THEN TRUE ELSE h.red[a]
  /\ \A a \in Node, t \in Side : g.kid[a][t] = IF a = n THEN NULL
                                               ELSE IF a = p /\ t = s THEN n ELSE h.kid[a][t]

JoinedBelow(D, n, p) ==
  [a \in Pointer |-> IF a = n THEN {n} ELSE IF p \in D[a] THEN D[a] \cup {n} ELSE D[a]]

LEMMA LinkIs ==
  ASSUME NEW h \in Heap, NEW n \in Node, NEW p \in Pointer, p # n, NEW s \in Side
  PROVE  Joined(h, Link(h, n, p, s), n, p, s)
<1> DEFINE h1 == [h EXCEPT !.up[n] = p, !.red[n] = TRUE, !.kid[n] = [t \in Side |-> NULL]]
<1>1. /\ h1 \in Heap /\ h1.root = h.root
      /\ \A a \in Node : /\ h1.up[a] = IF a = n THEN p ELSE h.up[a]
                         /\ h1.red[a] = IF a = n THEN TRUE ELSE h.red[a]
      /\ \A a \in Node, t \in Side : h1.kid[a][t] = IF a = n THEN NULL ELSE h.kid[a][t]
  BY DEF Heap, Pointer
<1>2. CASE p = NULL
  <2>1. Link(h, n, p, s) = [h1 EXCEPT !.root = n]
    BY <1>2 DEF Link
  <2> DEFINE g == [h1 EXCEPT !.root = n]
  <2>2. /\ g \in Heap /\ g.root = n /\ g.up = h1.up /\ g.red = h1.red /\ g.kid = h1.kid
    <3> HIDE DEF h1
    <3> QED
      BY <1>1 DEF Heap, Pointer
  <2> HIDE DEF h1, g
  <2>3. Joined(h, g, n, p, s)
    <3>1. \A a \in Node : g.red[a] = IF a = n THEN TRUE ELSE h.red[a]
      BY <1>1, <2>2, Zenon
    <3>2. \A a \in Node : g.up[a] = IF a = n THEN p ELSE h.up[a]
      BY <1>1, <2>2
    <3>3. \A a \in Node, t \in Side : g.kid[a][t] = IF a = n THEN NULL
                                                 ELSE IF a = p /\ t = s THEN n ELSE h.kid[a][t]
      BY <1>1, <1>2, <2>2, NodeAssumption
    <3>4. g \in Heap /\ g.root = IF p = NULL THEN n ELSE h.root
      BY <1>1, <1>2, <2>2
    <3> QED
      BY <3>1, <3>2, <3>3, <3>4 DEF Joined
  <2> QED
    BY <2>1, <2>3 DEF g
<1>3. CASE p # NULL
  <2>1. Link(h, n, p, s) = Hang(h1, p, s, n)
    BY <1>3 DEF Link
  <2> HIDE DEF h1
  <2>2. p \in Node /\ n \in Pointer /\ h1 \in Heap
    BY <1>1, <1>3 DEF Pointer
  <2> DEFINE g == Hang(h1, p, s, n)
  <2>3. /\ g \in Heap /\ g.root = h1.root /\ g.red = h1.red /\ g.up = h1.up
        /\ \A a \in Node, t \in Side : g.kid[a][t] = IF a = p /\ t = s THEN n ELSE h1.kid[a][t]
    BY <2>2, HangSets
  <2> HIDE DEF g
  <2>4. Joined(h, g, n, p, s)
    <3>1. \A a \in Node : g.red[a] = IF a = n THEN TRUE ELSE h.red[a]
      BY <1>1, <2>3, Zenon
    <3>2. \A a \in Node : g.up[a] = IF a = n THEN p ELSE h.up[a]
      BY <1>1, <2>3
    <3>3. \A a \in Node, t \in Side : g.kid[a][t] = IF a = n THEN NULL
                                                 ELSE IF a = p /\ t = s THEN n ELSE h.kid[a][t]
      BY <1>1, <1>3, <2>3, NodeAssumption
    <3>4. g \in Heap /\ g.root = IF p = NULL THEN n ELSE h.root
      BY <1>1, <1>3, <2>3
    <3> QED
      BY <3>1, <3>2, <3>3, <3>4 DEF Joined
  <2> QED
    BY <2>1, <2>4 DEF g
<1> QED
  BY <1>2, <1>3

LEMMA JoinShape ==
  ASSUME NEW h, NEW D, Shape(h, D), NEW n \in Node, \A m \in In(h) : key[m] # key[n], n \notin In(h),
         NEW p, NEW s, Room(h, D, key[n], p, s), NEW g, Joined(h, g, n, p, s)
  PROVE  Shape(g, JoinedBelow(D, n, p)) /\ In(g) = In(h) \cup {n}
<1> DEFINE E == JoinedBelow(D, n, p)
<1>1. /\ D \in [Pointer -> SUBSET Node] /\ D[NULL] = {} /\ D[h.root] = In(h)
      /\ \A a \in Node : D[a] = {a} \cup D[h.kid[a]["left"]] \cup D[h.kid[a]["right"]]
      /\ \A a \in Node, t \in Side : \A m \in D[h.kid[a][t]] : Lies(t, key[m], a)
      /\ \A a, b \in In(h) : key[a] = key[b] => a = b
      /\ h.root \in Pointer
  BY HeapFields DEF Shape, Spread
<1>2. /\ g \in Heap
      /\ g.root = IF p = NULL THEN n ELSE h.root
      /\ \A a \in Node : g.up[a] = IF a = n THEN p ELSE h.up[a]
      /\ \A a \in Node, t \in Side : g.kid[a][t] = IF a = n THEN NULL
                                                   ELSE IF a = p /\ t = s THEN n ELSE h.kid[a][t]
  BY DEF Joined
<1>3. /\ p \in Pointer /\ s \in Side
      /\ p = NULL => h.root = NULL
      /\ p # NULL => p \in In(h) /\ p \in Node /\ h.kid[p][s] = NULL /\ Lies(s, key[n], p)
      /\ \A a \in Node, t \in Side : p \in D[h.kid[a][t]] => Lies(t, key[n], a)
  BY DEF Room, Pointer
<1>4. /\ E \in [Pointer -> SUBSET Node]
      /\ \A a \in Pointer : E[a] = IF a = n THEN {n} ELSE IF p \in D[a] THEN D[a] \cup {n} ELSE D[a]
  BY <1>1 DEF JoinedBelow
<1> HIDE DEF E
<1>5. n \in Pointer /\ n # NULL /\ p # n /\ h.up[n] = n /\ NULL \in Pointer
  BY <1>3, NodeAssumption DEF Pointer, In
<1>6. \A a \in Node, t \in Side : /\ h.kid[a][t] \in Pointer
                                  /\ h.kid[a][t] # n
                                  /\ h.kid[a][t] # NULL => a \in In(h) /\ h.up[h.kid[a][t]] = a
                                                           /\ h.kid[a][t] \in In(h)
  <2>1. \A a \in Node, t \in Side : /\ h.kid[a][t] \in Pointer
                                    /\ h.kid[a][t] # NULL => a \in In(h) /\ h.up[h.kid[a][t]] = a
                                                             /\ h.kid[a][t] \in In(h)
    BY BelowIs, KidIs
  <2> QED
    BY <1>5, <2>1
<1>7. In(g) = In(h) \cup {n}
  BY <1>2, <1>5 DEF In
<1>8. p \notin D[NULL] /\ E[NULL] = {}
  BY <1>1, <1>4, <1>5
<1>9. ASSUME NEW a \in Node, NEW t \in Side
      PROVE  E[g.kid[a][t]] = IF a = n THEN {} ELSE IF a = p /\ t = s THEN {n}
                              ELSE IF p \in D[h.kid[a][t]] THEN D[h.kid[a][t]] \cup {n}
                              ELSE D[h.kid[a][t]]
  <2>1. CASE a = n
    BY <1>2, <1>8, <2>1
  <2>2. CASE a # n /\ a = p /\ t = s
    <3>1. g.kid[a][t] = n
      BY <1>2, <2>2
    <3> QED
      BY <1>4, <1>5, <2>2, <3>1
  <2>3. CASE a # n /\ ~ (a = p /\ t = s)
    <3>1. g.kid[a][t] = h.kid[a][t] /\ h.kid[a][t] \in Pointer /\ h.kid[a][t] # n
      BY <1>2, <1>6, <2>3
    <3> QED
      BY <1>4, <2>3, <3>1
  <2> QED
    BY <2>1, <2>2, <2>3
<1>10. ASSUME NEW a \in Node PROVE E[a] = {a} \cup E[g.kid[a]["left"]] \cup E[g.kid[a]["right"]]
  <2>1. "left" \in Side /\ "right" \in Side /\ (s = "left" \/ s = "right")
    BY <1>3 DEF Side
  <2> DEFINE l == h.kid[a]["left"]
             r == h.kid[a]["right"]
  <2>2. D[a] = {a} \cup D[l] \cup D[r] /\ a \in Pointer
    BY <1>1 DEF Pointer
  <2>3. CASE a = n
    <3>1. E[g.kid[a]["left"]] = {} /\ E[g.kid[a]["right"]] = {}
      BY <1>9, <2>1, <2>3
    <3> QED
      BY <1>4, <1>5, <2>3, <3>1
  <2>4. CASE a = p
    <3>1. p \notin D[l] /\ p \notin D[r]
      BY <2>1, <2>4, BelowIs
    <3>2. D[h.kid[a][s]] = {}
      BY <1>1, <1>3, <2>4, NodeAssumption
    <3>3. E[a] = D[a] \cup {n}
      BY <1>4, <1>5, <2>2, <2>4
    <3>4. CASE s = "left"
      <4>1. E[g.kid[a]["left"]] = {n} /\ E[g.kid[a]["right"]] = D[r] /\ D[l] = {}
        BY <1>5, <1>9, <2>1, <2>4, <3>1, <3>2, <3>4
      <4> HIDE DEF l, r
      <4> QED
        BY <2>2, <3>3, <4>1
    <3>5. CASE s = "right"
      <4>1. E[g.kid[a]["left"]] = D[l] /\ E[g.kid[a]["right"]] = {n} /\ D[r] = {}
        BY <1>5, <1>9, <2>1, <2>4, <3>1, <3>2, <3>5
      <4> HIDE DEF l, r
      <4> QED
        BY <2>2, <3>3, <4>1
    <3> QED
      BY <2>1, <3>4, <3>5
  <2>5. CASE a # n /\ a # p
    <3>1. /\ E[g.kid[a]["left"]] = IF p \in D[l] THEN D[l] \cup {n} ELSE D[l]
          /\ E[g.kid[a]["right"]] = IF p \in D[r] THEN D[r] \cup {n} ELSE D[r]
      BY <1>9, <2>1, <2>5
    <3>2. E[a] = IF p \in D[a] THEN D[a] \cup {n} ELSE D[a]
      BY <1>4, <2>2, <2>5
    <3> HIDE DEF l, r
    <3> QED
      BY <2>2, <2>5, <3>1, <3>2
  <2> QED
    BY <2>3, <2>4, <2>5
<1>11. ASSUME NEW a \in Node, NEW t \in Side, NEW m \in E[g.kid[a][t]] PROVE Lies(t, key[m], a)
  <2>1. (a = p /\ t = s /\ m = n) \/ (p \in D[h.kid[a][t]] /\ m = n) \/ m \in D[h.kid[a][t]]
    <3> DEFINE y == D[h.kid[a][t]]
               z == E[g.kid[a][t]]
    <3>1. z = IF a = n THEN {} ELSE IF a = p /\ t = s THEN {n} ELSE IF p \in y THEN y \cup {n} ELSE y
      BY <1>9
    <3>2. m \in z
      BY <1>11
    <3> HIDE DEF y, z
    <3>3. (a = p /\ t = s /\ m = n) \/ (p \in y /\ m = n) \/ m \in y
      BY <3>1, <3>2
    <3> QED
      BY <3>3 DEF y
  <2>2. (a = p /\ t = s /\ m = n) => Lies(t, key[m], a)
    BY <1>3, NodeAssumption
  <2>3. (p \in D[h.kid[a][t]] /\ m = n) => Lies(t, key[m], a)
    BY <1>3
  <2>4. m \in D[h.kid[a][t]] => Lies(t, key[m], a)
    BY <1>1
  <2> QED
    BY <2>1, <2>2, <2>3, <2>4
<1>12. E[g.root] = In(g)
  <2>1. CASE p = NULL
    BY <1>1, <1>2, <1>3, <1>4, <1>5, <1>7, <2>1
  <2>2. CASE p # NULL
    <3>1. p \in D[h.root]
      BY <1>1, <1>3, <2>2
    <3>2. h.root # n
      BY <1>1, <3>1, UpIs DEF Shape, Linked
    <3> QED
      BY <1>1, <1>2, <1>4, <1>7, <2>2, <3>1, <3>2
  <2> QED
    BY <2>1, <2>2
<1>13. Linked(g)
  <2>1. g.root # NULL => g.root \in In(g) /\ g.up[g.root] = NULL
    <3>1. h.root # NULL => h.root \in In(h) /\ h.up[h.root] = NULL /\ h.root \in Node
      BY DEF Shape, Linked, In
    <3> QED
      BY <1>2, <1>3, <1>5, <1>7, <3>1
  <2>2. ASSUME NEW a \in Node, NEW t \in Side, g.kid[a][t] # NULL
        PROVE  a \in In(g) /\ g.up[g.kid[a][t]] = a
    <3>1. a # n
      BY <1>2, <2>2
    <3>2. CASE a = p /\ t = s
      BY <1>2, <1>3, <1>5, <1>7, <3>1, <3>2, NodeAssumption
    <3>3. CASE ~ (a = p /\ t = s)
      <4> DEFINE y == h.kid[a][t]
      <4>1. g.kid[a][t] = y
        BY <1>2, <3>1, <3>3
      <4>2. y \in Node /\ y # n /\ a \in In(h) /\ h.up[y] = a
        BY <1>6, <2>2, <4>1 DEF Pointer
      <4> HIDE DEF y
      <4> QED
        BY <1>2, <1>7, <4>1, <4>2
    <3> QED
      BY <3>2, <3>3
  <2>3. ASSUME NEW a \in In(g)
        PROVE  IF g.up[a] = NULL THEN a = g.root ELSE \E t \in Side : g.kid[g.up[a]][t] = a
    <3>1. CASE a = n
      <4>1. g.up[a] = p
        BY <1>2, <3>1
      <4>2. p # NULL => g.kid[p][s] = n
        BY <1>2, <1>3, <1>5
      <4> QED
        BY <1>2, <1>3, <3>1, <4>1, <4>2
    <3>2. CASE a # n
      <4> DEFINE b == h.up[a]
      <4>1. a \in In(h) /\ a \in Node /\ g.up[a] = b
        BY <1>2, <1>7, <3>2 DEF In
      <4>2. /\ b = NULL => a = h.root
            /\ b # NULL => b \in In(h) /\ \E t \in Side : h.kid[b][t] = a
        BY <4>1, PlaceIs
      <4> HIDE DEF b
      <4>3. ASSUME b = NULL PROVE a = g.root
        BY <1>2, <1>3, <4>1, <4>2, <4>3, NodeAssumption
      <4>4. ASSUME b # NULL PROVE \E t \in Side : g.kid[b][t] = a
        <5>1. PICK t \in Side : h.kid[b][t] = a
          BY <4>2, <4>4
        <5>2. b # n /\ b \in Node /\ ~ (b = p /\ t = s)
          BY <1>3, <4>1, <4>2, <4>4, <5>1, NodeAssumption DEF In
        <5>3. g.kid[b][t] = a
          BY <1>2, <5>1, <5>2
        <5> QED
          BY <5>3
      <4> QED
        BY <4>1, <4>3, <4>4
    <3> QED
      BY <3>1, <3>2
  <2> QED
    BY <2>1, <2>2, <2>3 DEF Linked
<1>14. Spread(g, E)
  BY <1>4, <1>8, <1>10, <1>11 DEF Spread
<1>15. \A a, b \in In(g) : key[a] = key[b] => a = b
  BY <1>1, <1>7
<1>16. Shape(g, E)
  BY <1>2, <1>12, <1>13, <1>14, <1>15 DEF Shape
<1> QED
  BY <1>7, <1>16 DEF E

(***************************************************************************)
(* A node with at most one child leaves.                                   *)
(***************************************************************************)
OnlyChild(h, n, c) == \E s \in Side : h.kid[n][s] = c /\ h.kid[n][Other(s)] = NULL

\* g is h without n, whose child c has taken its place.
Cut1(h, g, n, c) ==
  /\ g \in Heap
  /\ g.root = IF h.root = n THEN c ELSE h.root
  /\ \A a \in Node : /\ g.up[a] = IF a = n THEN n ELSE IF a = c THEN h.up[n] ELSE h.up[a]
                     /\ g.red[a] = IF a = n THEN TRUE ELSE h.red[a]
  /\ \A a \in Node, t \in Side : g.kid[a][t] = IF a = n THEN NULL
                                               ELSE IF h.kid[a][t] = n THEN c ELSE h.kid[a][t]

CutBelow(D, n) == [a \in Pointer |-> IF a = n THEN {n} ELSE D[a] \ {n}]

LEMMA CutShape ==
  ASSUME NEW h, NEW D, Shape(h, D), NEW n \in In(h), NEW c, OnlyChild(h, n, c), NEW g, Cut1(h, g, n, c)
  PROVE  /\ Shape(g, CutBelow(D, n)) /\ In(g) = In(h) \ {n}
         /\ \A a \in Node, t \in Side : a # n => CutBelow(D, n)[g.kid[a][t]] = D[h.kid[a][t]] \ {n}
<1> DEFINE E == CutBelow(D, n)
<1>1. /\ D \in [Pointer -> SUBSET Node] /\ D[NULL] = {} /\ D[h.root] = In(h)
      /\ \A a \in Node : D[a] = {a} \cup D[h.kid[a]["left"]] \cup D[h.kid[a]["right"]]
      /\ \A a \in Node, t \in Side : \A m \in D[h.kid[a][t]] : Lies(t, key[m], a)
      /\ \A a, b \in In(h) : key[a] = key[b] => a = b
      /\ h.root \in Pointer
  BY HeapFields DEF Shape, Spread
<1>2. /\ g \in Heap
      /\ g.root = IF h.root = n THEN c ELSE h.root
      /\ \A a \in Node : g.up[a] = IF a = n THEN n ELSE IF a = c THEN h.up[n] ELSE h.up[a]
      /\ \A a \in Node, t \in Side : g.kid[a][t] = IF a = n THEN NULL
                                                   ELSE IF h.kid[a][t] = n THEN c ELSE h.kid[a][t]
  BY DEF Cut1
<1>3. n \in Node /\ n \in Pointer /\ n # NULL /\ NULL \in Pointer /\ h.up[n] # n
  BY NodeAssumption DEF In, Pointer
<1>4. /\ h.up[n] = NULL <=> h.root = n
      /\ h.up[n] # NULL => h.up[n] \in In(h) /\ h.up[n] \in Node /\ \E t \in Side : h.kid[h.up[n]][t] = n
  BY PlaceIs
<1>5. PICK s \in Side : h.kid[n][s] = c /\ h.kid[n][Other(s)] = NULL
  BY DEF OnlyChild
<1>6. /\ c \in Pointer /\ c # n
      /\ c # NULL => c \in Node /\ c \in In(h) /\ h.up[c] = n
      /\ D[n] = {n} \cup D[c] /\ n \notin D[c]
  <2>1. /\ h.kid[n][s] \in Pointer /\ n \notin D[h.kid[n][s]]
        /\ D[n] = {n} \cup D[h.kid[n][s]] \cup D[h.kid[n][Other(s)]]
    BY <1>3, BelowIs
  <2>2. h.kid[n][s] # NULL => h.kid[n][s] # n /\ h.kid[n][s] \in Node /\ h.kid[n][s] \in In(h)
                              /\ h.up[h.kid[n][s]] = n
    BY <1>3, KidIs
  <2> QED
    BY <1>1, <1>3, <1>5, <2>1, <2>2
<1>7. \A a \in Node, t \in Side : /\ h.kid[a][t] \in Pointer
                                  /\ h.kid[a][t] # NULL => a \in In(h) /\ h.up[h.kid[a][t]] = a
                                                           /\ h.kid[a][t] \in In(h)
  BY BelowIs, KidIs
<1>8. /\ E \in [Pointer -> SUBSET Node]
      /\ \A a \in Pointer : E[a] = IF a = n THEN {n} ELSE D[a] \ {n}
  BY <1>1, <1>3 DEF CutBelow
<1> HIDE DEF E
<1>9. In(g) = In(h) \ {n}
  <2>1. \A a \in Node : g.up[a] # a <=> (h.up[a] # a /\ a # n)
    <3> TAKE a \in Node
    <3>1. CASE a = c
      <4>1. g.up[a] = h.up[n] /\ h.up[a] = n /\ a # n
        BY <1>2, <1>6, <3>1, NodeAssumption
      <4>2. h.up[n] # c
        <5>1. n \notin D[c]
          BY <1>6
        <5>2. h.up[n] = c => n \in D[c]
          BY <1>4, <1>3, <3>1, KidIs, NodeAssumption
        <5> QED
          BY <5>1, <5>2
      <4> QED
        BY <3>1, <4>1, <4>2
    <3>2. CASE a # c
      BY <1>2, <1>3, <3>2
    <3> QED
      BY <3>1, <3>2
  <2> QED
    BY <2>1 DEF In
<1>10. ASSUME NEW a \in Node, NEW t \in Side, a # n PROVE E[g.kid[a][t]] = D[h.kid[a][t]] \ {n}
  <2>1. CASE h.kid[a][t] = n
    <3>1. g.kid[a][t] = c
      BY <1>2, <1>10, <2>1
    <3>2. E[c] = D[c] \ {n} /\ D[n] \ {n} = D[c] \ {n}
      BY <1>6, <1>8
    <3> QED
      BY <2>1, <3>1, <3>2
  <2>2. CASE h.kid[a][t] # n
    <3>1. g.kid[a][t] = h.kid[a][t] /\ h.kid[a][t] \in Pointer
      BY <1>2, <1>7, <1>10, <2>2
    <3> QED
      BY <1>8, <2>2, <3>1
  <2> QED
    BY <2>1, <2>2
<1>11. E[NULL] = {}
  BY <1>1, <1>3, <1>8
<1>12. ASSUME NEW a \in Node PROVE E[a] = {a} \cup E[g.kid[a]["left"]] \cup E[g.kid[a]["right"]]
  <2>1. "left" \in Side /\ "right" \in Side /\ a \in Pointer
    BY DEF Side, Pointer
  <2>2. CASE a = n
    BY <1>2, <1>8, <1>11, <2>1, <2>2
  <2>3. CASE a # n
    <3>1. E[g.kid[a]["left"]] = D[h.kid[a]["left"]] \ {n} /\ E[g.kid[a]["right"]] = D[h.kid[a]["right"]] \ {n}
      BY <1>10, <2>1, <2>3
    <3>2. E[a] = D[a] \ {n} /\ D[a] = {a} \cup D[h.kid[a]["left"]] \cup D[h.kid[a]["right"]]
      BY <1>1, <1>8, <2>1, <2>3
    <3> QED
      BY <2>3, <3>1, <3>2
  <2> QED
    BY <2>2, <2>3
<1>13. ASSUME NEW a \in Node, NEW t \in Side, NEW m \in E[g.kid[a][t]] PROVE Lies(t, key[m], a)
  <2>1. a # n
    BY <1>2, <1>11, <1>13
  <2>2. m \in D[h.kid[a][t]]
    BY <1>10, <1>13, <2>1
  <2> QED
    BY <1>1, <2>2
<1>14. E[g.root] = In(g)
  <2>1. CASE h.root = n
    BY <1>1, <1>2, <1>6, <1>8, <1>9, <2>1
  <2>2. CASE h.root # n
    BY <1>1, <1>2, <1>8, <1>9, <2>2
  <2> QED
    BY <2>1, <2>2
<1>15. Linked(g)
  <2>1. g.root # NULL => g.root \in In(g) /\ g.up[g.root] = NULL
    <3>1. h.root # NULL => h.root \in In(h) /\ h.up[h.root] = NULL /\ h.root \in Node
      BY DEF Shape, Linked, In
    <3>2. CASE h.root = n
      BY <1>2, <1>4, <1>6, <1>9, <3>2
    <3>3. CASE h.root # n
      <4>1. h.root # NULL => h.root # c
        BY <1>3, <1>6, <3>1
      <4> QED
        BY <1>2, <1>9, <3>1, <3>3, <4>1
    <3> QED
      BY <3>2, <3>3
  <2>2. ASSUME NEW a \in Node, NEW t \in Side, g.kid[a][t] # NULL
        PROVE  a \in In(g) /\ g.up[g.kid[a][t]] = a
    <3>1. a # n
      BY <1>2, <2>2
    <3>2. CASE h.kid[a][t] = n
      <4>1. g.kid[a][t] = c /\ c \in Node /\ a \in In(h) /\ h.up[n] = a
        BY <1>2, <1>3, <1>6, <1>7, <2>2, <3>1, <3>2
      <4> QED
        BY <1>2, <1>6, <1>9, <3>1, <4>1
    <3>3. CASE h.kid[a][t] # n
      <4> DEFINE y == h.kid[a][t]
      <4>1. g.kid[a][t] = y
        BY <1>2, <3>1, <3>3
      <4>2. y \in Node /\ a \in In(h) /\ h.up[y] = a /\ y # n
        BY <1>7, <2>2, <3>3, <4>1 DEF Pointer
      <4> HIDE DEF y
      <4>3. y # c
        BY <1>6, <3>1, <4>2, NodeAssumption
      <4> QED
        BY <1>2, <1>9, <3>1, <4>1, <4>2, <4>3
    <3> QED
      BY <3>2, <3>3
  <2>3. ASSUME NEW a \in In(g)
        PROVE  IF g.up[a] = NULL THEN a = g.root ELSE \E t \in Side : g.kid[g.up[a]][t] = a
    <3>1. a \in Node /\ a \in In(h) /\ a # n
      BY <1>9, <2>3 DEF In
    <3>2. CASE a = c
      <4>1. g.up[a] = h.up[n]
        BY <1>2, <3>1, <3>2
      <4>2. h.up[n] # NULL => \E t \in Side : g.kid[h.up[n]][t] = c
        <5> SUFFICES ASSUME h.up[n] # NULL PROVE \E t \in Side : g.kid[h.up[n]][t] = c
          OBVIOUS
        <5>1. PICK t \in Side : h.kid[h.up[n]][t] = n
          BY <1>4
        <5>2. g.kid[h.up[n]][t] = c
          BY <1>2, <1>3, <1>4, <5>1
        <5> QED
          BY <5>2
      <4> QED
        BY <1>2, <1>4, <3>2, <4>1, <4>2
    <3>3. CASE a # c
      <4> DEFINE b == h.up[a]
      <4>1. g.up[a] = b
        BY <1>2, <3>1, <3>3
      <4>2. /\ b = NULL => a = h.root
            /\ b # NULL => b \in Node /\ \E t \in Side : h.kid[b][t] = a
        BY <3>1, PlaceIs
      <4> HIDE DEF b
      <4>3. ASSUME b # NULL PROVE \E t \in Side : g.kid[b][t] = a
        <5>1. PICK t \in Side : h.kid[b][t] = a
          BY <4>2, <4>3
        <5>2. b # n
          <6> SUFFICES ASSUME b = n PROVE FALSE
            OBVIOUS
          <6>1. t = s \/ t = Other(s)
            BY Sides
          <6> QED
            BY <1>5, <3>1, <3>3, <5>1, <6>1, NodeAssumption
        <5>3. g.kid[b][t] = a
          BY <1>2, <3>1, <4>2, <4>3, <5>1, <5>2
        <5> QED
          BY <5>3
      <4> QED
        BY <1>2, <3>1, <4>1, <4>2, <4>3
    <3> QED
      BY <3>2, <3>3
  <2> QED
    BY <2>1, <2>2, <2>3 DEF Linked
<1>16. Spread(g, E)
  BY <1>8, <1>11, <1>12, <1>13 DEF Spread
<1>17. \A a, b \in In(g) : key[a] = key[b] => a = b
  BY <1>1, <1>9
<1>18. Shape(g, E)
  BY <1>2, <1>14, <1>15, <1>16, <1>17 DEF Shape
<1> QED
  BY <1>9, <1>10, <1>18 DEF E

(***************************************************************************)
(* A node outside takes the place of one in the tree.                      *)
(***************************************************************************)
\* g is h with n where m was.
Swapped(h, g, m, n) ==
  /\ g \in Heap
  /\ g.root = IF h.root = m THEN n ELSE h.root
  /\ \A a \in Node : /\ g.up[a] = IF a = m THEN m ELSE IF a = n THEN h.up[m]
                                  ELSE IF h.up[a] = m THEN n ELSE h.up[a]
                     /\ g.red[a] = IF a = m THEN TRUE ELSE IF a = n THEN h.red[m] ELSE h.red[a]
  /\ \A a \in Node, t \in Side : g.kid[a][t] = IF a = m THEN NULL
                                               ELSE IF a = n THEN h.kid[m][t]
                                               ELSE IF h.kid[a][t] = m THEN n ELSE h.kid[a][t]

SwappedBelow(D, m, n) ==
  [a \in Pointer |-> IF a = m THEN {m} ELSE IF a = n THEN (D[m] \ {m}) \cup {n}
                     ELSE IF m \in D[a] THEN (D[a] \ {m}) \cup {n} ELSE D[a]]

\* The key of n is as good as that of m where m is.
FitsFor(h, D, m, n) ==
  /\ \A a \in Node, t \in Side : m \in D[h.kid[a][t]] => Lies(t, key[n], a)
  /\ \A t \in Side : \A x \in D[h.kid[m][t]] : Lies(t, key[x], n)
  /\ \A x \in In(h) \ {m} : key[x] # key[n]

LEMMA SwapShape ==
  ASSUME NEW h, NEW D, Shape(h, D), NEW m \in In(h), NEW n \in Node \ In(h), FitsFor(h, D, m, n),
         NEW g, Swapped(h, g, m, n)
  PROVE  Shape(g, SwappedBelow(D, m, n)) /\ In(g) = (In(h) \ {m}) \cup {n}
<1> DEFINE E == SwappedBelow(D, m, n)
<1>1. /\ D \in [Pointer -> SUBSET Node] /\ D[NULL] = {} /\ D[h.root] = In(h)
      /\ \A a \in Node : D[a] = {a} \cup D[h.kid[a]["left"]] \cup D[h.kid[a]["right"]]
      /\ \A a \in Node, t \in Side : \A x \in D[h.kid[a][t]] : Lies(t, key[x], a)
      /\ \A a, b \in In(h) : key[a] = key[b] => a = b
      /\ h.root \in Pointer
  BY HeapFields DEF Shape, Spread
<1>2. /\ g \in Heap
      /\ g.root = IF h.root = m THEN n ELSE h.root
      /\ \A a \in Node : g.up[a] = IF a = m THEN m ELSE IF a = n THEN h.up[m]
                                   ELSE IF h.up[a] = m THEN n ELSE h.up[a]
      /\ \A a \in Node, t \in Side : g.kid[a][t] = IF a = m THEN NULL
                                                   ELSE IF a = n THEN h.kid[m][t]
                                                   ELSE IF h.kid[a][t] = m THEN n ELSE h.kid[a][t]
  BY DEF Swapped
<1>3. /\ m \in Node /\ m \in Pointer /\ m # NULL /\ n \in Node /\ n \in Pointer /\ n # NULL /\ m # n
      /\ NULL \in Pointer /\ h.up[m] # m /\ h.up[n] = n
  BY NodeAssumption DEF In, Pointer
<1>4. /\ h.up[m] \in Pointer
      /\ h.up[m] = NULL <=> h.root = m
      /\ h.up[m] # NULL => h.up[m] \in In(h) /\ h.up[m] \in Node /\ \E t \in Side : h.kid[h.up[m]][t] = m
  BY PlaceIs
<1>5. /\ \A a \in Node : m \in D[a] /\ a # m => a # n
      /\ \A a \in In(h) : D[a] \subseteq In(h)
      /\ \A a \in In(h) : n \notin D[a]
  BY <1>3, InIs DEF In
<1>6. \A a \in Node, t \in Side : /\ h.kid[a][t] \in Pointer
                                  /\ h.kid[a][t] # n
                                  /\ h.kid[a][t] # NULL => a \in In(h) /\ h.up[h.kid[a][t]] = a
                                                           /\ h.kid[a][t] \in In(h) /\ h.kid[a][t] # a
  <2>1. \A a \in Node, t \in Side : /\ h.kid[a][t] \in Pointer
                                    /\ h.kid[a][t] # NULL => a \in In(h) /\ h.up[h.kid[a][t]] = a
                                                             /\ h.kid[a][t] \in In(h) /\ h.kid[a][t] # a
    BY BelowIs, KidIs
  <2> QED
    BY <1>3, <2>1
<1>7. /\ E \in [Pointer -> SUBSET Node]
      /\ \A a \in Pointer : E[a] = IF a = m THEN {m} ELSE IF a = n THEN (D[m] \ {m}) \cup {n}
                                   ELSE IF m \in D[a] THEN (D[a] \ {m}) \cup {n} ELSE D[a]
  BY <1>1, <1>3 DEF SwappedBelow
<1> HIDE DEF E
<1>8. In(g) = (In(h) \ {m}) \cup {n}
  <2>1. \A a \in Node : g.up[a] # a <=> (h.up[a] # a /\ a # m) \/ a = n
    <3> TAKE a \in Node
    <3>1. h.up[m] # n
      BY <1>3, <1>4
    <3> QED
      BY <1>2, <1>3, <3>1
  <2> QED
    BY <1>3, <2>1 DEF In
<1>9. ASSUME NEW a \in Node, NEW t \in Side, a # m, a # n
      PROVE  E[g.kid[a][t]] = IF m \in D[h.kid[a][t]] THEN (D[h.kid[a][t]] \ {m}) \cup {n} ELSE D[h.kid[a][t]]
  <2>1. CASE h.kid[a][t] = m
    <3>1. g.kid[a][t] = n /\ m \in D[m]
      BY <1>2, <1>3, <1>9, <2>1, BelowIs
    <3> QED
      BY <1>3, <1>7, <2>1, <3>1
  <2>2. CASE h.kid[a][t] # m
    <3>1. g.kid[a][t] = h.kid[a][t] /\ h.kid[a][t] \in Pointer /\ h.kid[a][t] # n
      BY <1>2, <1>6, <1>9, <2>2
    <3> QED
      BY <1>7, <2>2, <3>1
  <2> QED
    BY <2>1, <2>2
<1>10. ASSUME NEW t \in Side PROVE E[g.kid[n][t]] = D[h.kid[m][t]] /\ m \notin D[h.kid[m][t]]
  <2>1. g.kid[n][t] = h.kid[m][t] /\ h.kid[m][t] \in Pointer /\ h.kid[m][t] # n /\ h.kid[m][t] # m
    BY <1>2, <1>3, <1>6
  <2>2. m \notin D[h.kid[m][t]]
    BY <1>3, BelowIs
  <2> QED
    BY <1>7, <2>1, <2>2
<1>11. E[NULL] = {}
  BY <1>1, <1>3, <1>7
<1>12. ASSUME NEW a \in Node PROVE E[a] = {a} \cup E[g.kid[a]["left"]] \cup E[g.kid[a]["right"]]
  <2>1. "left" \in Side /\ "right" \in Side /\ a \in Pointer
    BY DEF Side, Pointer
  <2>2. CASE a = m
    BY <1>2, <1>7, <1>11, <2>1, <2>2
  <2>3. CASE a = n
    <3>1. E[g.kid[a]["left"]] = D[h.kid[m]["left"]] /\ E[g.kid[a]["right"]] = D[h.kid[m]["right"]]
          /\ m \notin D[h.kid[m]["left"]] /\ m \notin D[h.kid[m]["right"]]
      BY <1>10, <2>1, <2>3
    <3>2. D[m] = {m} \cup D[h.kid[m]["left"]] \cup D[h.kid[m]["right"]]
      BY <1>1, <1>3
    <3> QED
      BY <1>3, <1>7, <2>3, <3>1, <3>2
  <2>4. CASE a # m /\ a # n
    <3> DEFINE l == D[h.kid[a]["left"]]
               r == D[h.kid[a]["right"]]
    <3>1. /\ E[g.kid[a]["left"]] = IF m \in l THEN (l \ {m}) \cup {n} ELSE l
          /\ E[g.kid[a]["right"]] = IF m \in r THEN (r \ {m}) \cup {n} ELSE r
      BY <1>9, <2>1, <2>4
    <3>2. /\ E[a] = IF m \in D[a] THEN (D[a] \ {m}) \cup {n} ELSE D[a]
          /\ D[a] = {a} \cup l \cup r
      BY <1>1, <1>7, <2>1, <2>4
    <3> HIDE DEF l, r
    <3> QED
      BY <2>4, <3>1, <3>2
  <2> QED
    BY <2>2, <2>3, <2>4
<1>13. ASSUME NEW a \in Node, NEW t \in Side, NEW x \in E[g.kid[a][t]] PROVE Lies(t, key[x], a)
  <2>1. a # m
    BY <1>2, <1>11, <1>13
  <2>2. CASE a = n
    BY <1>10, <1>13, <2>2 DEF FitsFor
  <2>3. CASE a # n
    <3> DEFINE y == D[h.kid[a][t]]
               z == E[g.kid[a][t]]
    <3>1. z = IF m \in y THEN (y \ {m}) \cup {n} ELSE y
      BY <1>9, <2>1, <2>3
    <3>2. x \in z
      BY <1>13
    <3> HIDE DEF y, z
    <3>3. (m \in y /\ x = n) \/ x \in y
      BY <3>1, <3>2
    <3> QED
      BY <1>1, <3>3 DEF FitsFor, y
  <2> QED
    BY <2>2, <2>3
<1>14. E[g.root] = In(g)
  <2>1. CASE h.root = m
    BY <1>1, <1>2, <1>3, <1>7, <1>8, <2>1
  <2>2. CASE h.root # m
    <3>1. m \in D[h.root] /\ h.root # n
      BY <1>1, <1>3 DEF Shape, Linked, In
    <3> QED
      BY <1>1, <1>2, <1>7, <1>8, <2>2, <3>1
  <2> QED
    BY <2>1, <2>2
<1>15. Linked(g)
  <2>1. g.root # NULL => g.root \in In(g) /\ g.up[g.root] = NULL
    <3>1. h.root # NULL => h.root \in In(h) /\ h.up[h.root] = NULL /\ h.root \in Node
      BY DEF Shape, Linked, In
    <3> QED
      BY <1>2, <1>3, <1>4, <1>8, <3>1
  <2>2. ASSUME NEW a \in Node, NEW t \in Side, g.kid[a][t] # NULL
        PROVE  a \in In(g) /\ g.up[g.kid[a][t]] = a
    <3>1. a # m
      BY <1>2, <2>2
    <3>2. CASE a = n
      <4> DEFINE y == h.kid[m][t]
      <4>1. g.kid[a][t] = y /\ y \in Node /\ h.up[y] = m /\ y # m /\ y # n
        BY <1>2, <1>3, <1>6, <2>2, <3>1, <3>2 DEF Pointer
      <4> HIDE DEF y
      <4> QED
        BY <1>2, <1>8, <3>2, <4>1
    <3>3. CASE a # n /\ h.kid[a][t] = m
      <4>1. g.kid[a][t] = n /\ a \in In(h) /\ h.up[m] = a
        BY <1>2, <1>3, <1>6, <3>1, <3>3
      <4> QED
        BY <1>2, <1>3, <1>8, <3>1, <4>1
    <3>4. CASE a # n /\ h.kid[a][t] # m
      <4> DEFINE y == h.kid[a][t]
      <4>1. g.kid[a][t] = y
        BY <1>2, <3>1, <3>4
      <4>2. y \in Node /\ a \in In(h) /\ h.up[y] = a /\ y # m /\ y # n
        BY <1>6, <2>2, <3>4, <4>1 DEF Pointer
      <4> HIDE DEF y
      <4> QED
        BY <1>2, <1>8, <3>1, <4>1, <4>2
    <3> QED
      BY <3>2, <3>3, <3>4
  <2>3. ASSUME NEW a \in In(g)
        PROVE  IF g.up[a] = NULL THEN a = g.root ELSE \E t \in Side : g.kid[g.up[a]][t] = a
    <3>1. CASE a = n
      <4>1. g.up[a] = h.up[m]
        BY <1>2, <1>3, <3>1
      <4>2. ASSUME h.up[m] # NULL PROVE \E t \in Side : g.kid[h.up[m]][t] = n
        <5>1. PICK t \in Side : h.kid[h.up[m]][t] = m
          BY <1>4, <4>2
        <5>2. h.up[m] # n
          BY <1>4, <4>2
        <5>3. g.kid[h.up[m]][t] = n
          BY <1>2, <1>3, <1>4, <4>2, <5>1, <5>2
        <5> QED
          BY <5>3
      <4> QED
        BY <1>2, <1>4, <3>1, <4>1, <4>2
    <3>2. CASE a # n
      <4> DEFINE b == h.up[a]
      <4>0. a \in In(h) /\ a # m
        BY <1>8, <3>2
      <4>1. a \in Node /\ g.up[a] = IF b = m THEN n ELSE b
        BY <1>2, <3>2, <4>0 DEF In
      <4>2. /\ b = NULL => a = h.root
            /\ b # NULL => b \in Node /\ b \in In(h) /\ \E t \in Side : h.kid[b][t] = a
        BY <4>0, PlaceIs
      <4> HIDE DEF b
      <4>3. ASSUME b # NULL, b # m PROVE \E t \in Side : g.kid[b][t] = a
        <5>1. PICK t \in Side : h.kid[b][t] = a
          BY <4>2, <4>3
        <5>2. g.kid[b][t] = a
          BY <1>2, <4>0, <4>2, <4>3, <5>1
        <5> QED
          BY <5>2
      <4>4. ASSUME b = m PROVE \E t \in Side : g.kid[n][t] = a
        <5>1. PICK t \in Side : h.kid[m][t] = a
          BY <1>3, <4>2, <4>4
        <5>2. g.kid[n][t] = a
          BY <1>2, <1>3, <5>1
        <5> QED
          BY <5>2
      <4> QED
        BY <1>2, <1>3, <4>0, <4>1, <4>2, <4>3, <4>4
    <3> QED
      BY <3>1, <3>2
  <2> QED
    BY <2>1, <2>2, <2>3 DEF Linked
<1>16. Spread(g, E)
  BY <1>7, <1>11, <1>12, <1>13 DEF Spread
<1>17. \A a, b \in In(g) : key[a] = key[b] => a = b
  BY <1>1, <1>8 DEF FitsFor
<1>18. Shape(g, E)
  BY <1>2, <1>14, <1>15, <1>16, <1>17 DEF Shape
<1> QED
  BY <1>8, <1>18 DEF E

(***************************************************************************)
(* What the code's walks compute.                                          *)
(***************************************************************************)
\* What f is to be at x, G[x][f], takes only what f is at lower ranks.
Local(S, V, N, rank, G) ==
  /\ N \in Nat
  /\ rank \in [S -> 0 .. N]
  /\ G \in [S -> [[S -> V] -> V]]
  /\ \A x \in S : \A f, g \in [S -> V] :
       (\A y \in S : rank[y] < rank[x] => f[y] = g[y]) => G[x][f] = G[x][g]

Solvable(S, V, G) == \E f \in [S -> V] : \A x \in S : f[x] = G[x][f]

\* A function that is given by what it is at lower ranks exists.
LEMMA Recursion ==
  ASSUME NEW S, NEW V, NEW v \in V, NEW N, NEW rank, NEW G, Local(S, V, N, rank, G)
  PROVE  Solvable(S, V, G)
<1> USE DEF Local
<1> DEFINE Solves(f, k) == \A x \in S : rank[x] < k => f[x] = G[x][f]
           Bad == {k \in Nat : \A f \in [S -> V] : ~ Solves(f, k)}
<1>1. Bad = {}
  <2> SUFFICES ASSUME Bad # {} PROVE FALSE
    OBVIOUS
  <2>1. PICK k \in Bad : \A l \in Bad : k <= l
    <3>1. Bad \in SUBSET Nat
      OBVIOUS
    <3> HIDE DEF Bad
    <3> QED
      BY <3>1, Least
  <2>2. k \in Nat /\ \A x \in S : rank[x] \in Nat
    OBVIOUS
  <2>3. k # 0
    <3>1. [x \in S |-> v] \in [S -> V]
      OBVIOUS
    <3>2. k = 0 => Solves([x \in S |-> v], k)
      BY <2>2
    <3> QED
      BY <3>1, <3>2
  <2>4. PICK f \in [S -> V] : Solves(f, k - 1)
    <3>1. k - 1 \in Nat /\ ~ (k <= k - 1)
      BY <2>2, <2>3
    <3>2. k - 1 \notin Bad
      BY <2>1, <3>1
    <3> QED
      BY <3>1, <3>2
  <2> DEFINE g == [x \in S |-> G[x][f]]
  <2>5. g \in [S -> V]
    OBVIOUS
  <2>6. ASSUME NEW x \in S, rank[x] < k PROVE g[x] = G[x][g]
    <3>1. \A y \in S : rank[y] < rank[x] => f[y] = g[y]
      BY <2>2, <2>4, <2>6
    <3> HIDE DEF g
    <3>2. G[x][f] = G[x][g]
      BY <2>5, <3>1
    <3> QED
      BY <3>2 DEF g
  <2>7. Solves(g, k)
    BY <2>6
  <2> QED
    BY <2>5, <2>7
<1>2. PICK f \in [S -> V] : Solves(f, N + 1)
  <2>1. N + 1 \in Nat
    OBVIOUS
  <2> QED
    BY <1>1, <2>1
<1>3. \A x \in S : rank[x] < N + 1
  OBVIOUS
<1> QED
  BY <1>2, <1>3 DEF Solvable

\* How many nodes there are at and below a node orders the walks down and up.
LEMMA RankIs ==
  ASSUME NEW h, NEW D, Shape(h, D)
  PROVE  /\ Cardinality(Node) \in Nat
         /\ \A n \in Node : /\ IsFiniteSet(D[n])
                            /\ Cardinality(D[n]) \in 1 .. Cardinality(Node)
         /\ \A n \in Node, s \in Side : h.kid[n][s] # NULL
              => Cardinality(D[h.kid[n][s]]) < Cardinality(D[n])
<1>1. Cardinality(Node) \in Nat
  BY NodeAssumption, FS_CardinalityType
<1>2. ASSUME NEW n \in Node
      PROVE  IsFiniteSet(D[n]) /\ Cardinality(D[n]) \in 1 .. Cardinality(Node)
  <2>1. D[n] \subseteq Node /\ n \in D[n]
    BY BelowIs
  <2>2. IsFiniteSet(D[n]) /\ Cardinality(D[n]) <= Cardinality(Node)
    BY <2>1, NodeAssumption, FS_Subset
  <2>3. Cardinality(D[n]) \in Nat /\ Cardinality(D[n]) # 0
    BY <2>1, <2>2, FS_CardinalityType, FS_EmptySet
  <2> QED
    BY <1>1, <2>2, <2>3
<1>3. ASSUME NEW n \in Node, NEW s \in Side, h.kid[n][s] # NULL
      PROVE  Cardinality(D[h.kid[n][s]]) < Cardinality(D[n])
  <2> DEFINE c == h.kid[n][s]
  <2>1. c \in Node /\ D[c] \subseteq D[n] /\ n \in D[n] /\ n \notin D[c]
    BY <1>3, BelowIs DEF Pointer
  <2> HIDE DEF c
  <2>2. IsFiniteSet(D[n]) /\ Cardinality(D[n]) \in Nat /\ Cardinality(D[c]) \in Nat
    BY <1>1, <1>2, <2>1
  <2>3. Cardinality(D[c]) <= Cardinality(D[n]) /\ (Cardinality(D[n]) = Cardinality(D[c]) => D[n] = D[c])
    BY <2>1, <2>2, FS_Subset
  <2>4. Cardinality(D[n]) # Cardinality(D[c])
    BY <2>1, <2>3
  <2>5. Cardinality(D[c]) < Cardinality(D[n])
    BY <2>2, <2>3, <2>4
  <2> QED
    BY <2>5 DEF c
<1> QED
  BY <1>1, <1>2, <1>3

\* m is the last in direction s at and below n.
Furthest(h, D, n, s, m) ==
  /\ m \in D[n]
  /\ h.kid[m][s] = NULL
  /\ \A a \in D[n] \ {m} : Lies(Other(s), key[a], m)
  /\ m = n \/ h.kid[h.up[m]][s] = m

LEMMA FarIs ==
  ASSUME NEW h, NEW D, Shape(h, D), NEW n \in Node, NEW s \in Side
  PROVE  Furthest(h, D, n, s, Far(h, n, s))
<1> DEFINE P(f) == f = [m \in Node |-> IF h.kid[m][s] = NULL THEN m ELSE f[h.kid[m][s]]]
           G == [m \in Node |-> [f \in [Node -> Node] |-> IF h.kid[m][s] = NULL THEN m ELSE f[h.kid[m][s]]]]
           rank == [m \in Node |-> Cardinality(D[m])]
<1>1. \A m \in Node : h.kid[m][s] \in Pointer /\ (h.kid[m][s] # NULL => h.kid[m][s] \in Node)
  BY BelowIs DEF Pointer
<1>2. \E f \in [Node -> Node] : \A m \in Node : f[m] = G[m][f]
  <2>1. Cardinality(Node) \in Nat /\ rank \in [Node -> 0 .. Cardinality(Node)]
    BY RankIs
  <2>2. G \in [Node -> [[Node -> Node] -> Node]]
    BY <1>1
  <2>3. \A m \in Node : \A f, g \in [Node -> Node] :
          (\A y \in Node : rank[y] < rank[m] => f[y] = g[y]) => G[m][f] = G[m][g]
    <3> SUFFICES ASSUME NEW m \in Node, NEW f \in [Node -> Node], NEW g \in [Node -> Node],
                        \A y \in Node : rank[y] < rank[m] => f[y] = g[y]
                 PROVE  G[m][f] = G[m][g]
      BY Zenon
    <3>1. h.kid[m][s] # NULL => rank[h.kid[m][s]] < rank[m]
      BY <1>1, RankIs
    <3> QED
      BY <1>1, <3>1
  <2> HIDE DEF G, rank
  <2>4. Local(Node, Node, Cardinality(Node), rank, G)
    BY <2>1, <2>2, <2>3, Zenon DEF Local
  <2>5. Solvable(Node, Node, G)
    BY <2>4, Recursion
  <2> QED
    BY <2>5 DEF Solvable
<1>3. \E f : P(f)
  <2>1. PICK f \in [Node -> Node] : \A m \in Node : f[m] = G[m][f]
    BY <1>2
  <2>2. f = [m \in Node |-> f[m]]
    OBVIOUS
  <2>3. \A m \in Node : f[m] = IF h.kid[m][s] = NULL THEN m ELSE f[h.kid[m][s]]
    BY <2>1
  <2>4. P(f)
    BY <2>2, <2>3
  <2> QED
    BY <2>4
<1> DEFINE F == CHOOSE f : P(f)
<1>4. P(F)
  <2> HIDE DEF P
  <2> QED
    BY <1>3
<1>5. Far(h, n, s) = F[n]
  BY DEF Far
<1> HIDE DEF F
<1>6. \A m \in Node : F[m] = IF h.kid[m][s] = NULL THEN m ELSE F[h.kid[m][s]]
  BY <1>4
<1> DEFINE X == {m \in Node : Furthest(h, D, m, s, F[m])}
<1>7. ASSUME NEW m \in Node, \A t \in Side : h.kid[m][t] # NULL => h.kid[m][t] \in X
      PROVE  m \in X
  <2>1. /\ m \in D[m] /\ D[m] = {m} \cup D[h.kid[m][s]] \cup D[h.kid[m][Other(s)]]
        /\ \A a \in D[h.kid[m][s]] : Lies(s, key[a], m)
        /\ \A a \in D[h.kid[m][Other(s)]] : Lies(Other(s), key[a], m)
        /\ D[h.kid[m][s]] \subseteq D[m] /\ D[m] \subseteq Node
    BY BelowIs, Sides
  <2>2. CASE h.kid[m][s] = NULL
    <3>1. D[h.kid[m][s]] = {}
      BY <2>2 DEF Shape, Spread
    <3> QED
      BY <1>6, <2>1, <2>2, <3>1 DEF Furthest
  <2>3. CASE h.kid[m][s] # NULL
    <3> DEFINE c == h.kid[m][s]
               d == h.kid[m][Other(s)]
               e == F[c]
    <3>1. F[m] = e /\ c \in Node /\ h.up[c] = m /\ Furthest(h, D, c, s, e)
      BY <1>6, <1>7, <2>3, KidIs
    <3>2. D[m] = {m} \cup D[c] \cup D[d] /\ (\A a \in D[c] : Lies(s, key[a], m)) /\ (\A a \in D[d] : Lies(Other(s), key[a], m))
      BY <2>1
    <3>3. D[c] \subseteq Node /\ D[d] \subseteq Node /\ h.kid[m][s] = c
      BY <2>1
    <3> HIDE DEF c, d, e
    <3>4. e \in D[c] /\ e \in Node /\ e \in D[m] /\ h.kid[e][s] = NULL /\ Lies(s, key[e], m)
          /\ (\A a \in D[c] \ {e} : Lies(Other(s), key[a], e)) /\ (e = c \/ h.kid[h.up[e]][s] = e)
      BY <3>1, <3>2, <3>3 DEF Furthest
    <3>5. ASSUME NEW a \in D[m] \ {e} PROVE Lies(Other(s), key[a], e)
      <4>0. a \in Node /\ key[a] \in Int /\ key[m] \in Int /\ key[e] \in Int /\ Other(s) \in Side /\ Other(Other(s)) = s
        BY <2>1, <3>4, NodeAssumption, Sides
      <4>1. Lies(Other(s), key[m], e)
        BY <3>4, <4>0, KeysLie
      <4>2. CASE a \in D[c]
        BY <3>4, <3>5, <4>2
      <4>3. CASE a = m
        BY <4>1, <4>3
      <4>4. CASE a \in D[d]
        <5>1. Lies(Other(s), key[a], m)
          BY <3>2, <4>4
        <5> QED
          BY <3>4, <4>0, <4>1, <5>1, LiesBeyond
      <4> QED
        BY <3>2, <4>2, <4>3, <4>4
    <3>6. e = m \/ h.kid[h.up[e]][s] = e
      BY <3>1, <3>3, <3>4
    <3> QED
      BY <3>1, <3>4, <3>5, <3>6 DEF Furthest
  <2> QED
    BY <2>2, <2>3
<1>8. X = Node
  <2> HIDE DEF X
  <2>1. X \in SUBSET Node
    BY DEF X
  <2> QED
    BY <1>7, <2>1, FromBelow
<1> QED
  BY <1>5, <1>8

Found == [found : Pointer, parent : Pointer, side : Side]

\* What a search for k from n on comes to.
Leads(h, D, k, n, r) ==
  /\ r \in Found
  /\ r.found # NULL => r.found \in D[n] /\ key[r.found] = k
  /\ r.found = NULL => /\ r.parent \in D[n]
                       /\ h.kid[r.parent][r.side] = NULL /\ Lies(r.side, k, r.parent)
                       /\ \A x \in D[n] : key[x] # k
                       /\ \A a \in D[n], t \in Side : r.parent \in D[h.kid[a][t]] => Lies(t, k, a)

LEMMA LeadsStep ==
  ASSUME NEW h, NEW D, Shape(h, D), NEW k \in Int, NEW n \in Node, NEW s \in Side, Lies(s, k, n),
         h.kid[n][s] # NULL, NEW r, Leads(h, D, k, h.kid[n][s], r)
  PROVE  Leads(h, D, k, n, r)
<1> DEFINE c == h.kid[n][s]
           d == h.kid[n][Other(s)]
<1>1. /\ D[n] = {n} \cup D[c] \cup D[d] /\ D[c] \cap D[d] = {} /\ n \notin D[c]
      /\ \A x \in D[d] : Lies(Other(s), key[x], n)
      /\ D[n] \subseteq Node
      /\ d \in Pointer
  BY BelowIs, Sides
<1>2. \A t \in Side : t = s \/ (t = Other(s) /\ h.kid[n][t] = d)
  BY Sides
<1>3. Leads(h, D, k, c, r) /\ D[NULL] = {}
  BY DEF Shape, Spread
<1> HIDE DEF c, d
<1>4. CASE r.found # NULL
  BY <1>1, <1>3, <1>4 DEF Leads
<1>5. CASE r.found = NULL
  <2> DEFINE p == r.parent
  <2>1. /\ r \in Found /\ p \in D[c] /\ h.kid[p][r.side] = NULL /\ Lies(r.side, k, p)
        /\ \A x \in D[c] : key[x] # k
        /\ \A a \in D[c], t \in Side : p \in D[h.kid[a][t]] => Lies(t, k, a)
    BY <1>3, <1>5 DEF Leads
  <2> HIDE DEF p
  <2>2. ASSUME NEW x \in D[n] PROVE key[x] # k
    <3>1. k # key[n] /\ \A y \in D[d] : Lies(Other(s), key[y], n)
      BY <1>1, KeysLie
    <3>2. x \in D[d] => key[x] # k
      BY <3>1, KeysLie
    <3> QED
      BY <1>1, <2>1, <3>1, <3>2
  <2>3. ASSUME NEW a \in D[n], NEW t \in Side, p \in D[h.kid[a][t]] PROVE Lies(t, k, a)
    <3>1. CASE a = n
      BY <1>1, <1>2, <2>1, <2>3, <3>1
    <3>2. CASE a \in D[c]
      BY <2>1, <2>3, <3>2
    <3>3. CASE a \in D[d]
      <4>1. d \in Node
        BY <1>1, <1>3, <3>3 DEF Pointer
      <4>2. a \in Node /\ D[a] \subseteq D[d]
        BY <3>3, <4>1, BelowBelow
      <4>3. p \in D[a]
        BY <2>3, <4>2, BelowIs
      <4> QED
        BY <1>1, <2>1, <4>2, <4>3
    <3> QED
      BY <1>1, <3>1, <3>2, <3>3
  <2>4. p \in D[n]
    BY <1>1, <2>1
  <2> QED
    BY <1>5, <2>1, <2>2, <2>3, <2>4 DEF Leads, p
<1> QED
  BY <1>4, <1>5

LEMMA SearchIs ==
  ASSUME NEW h, NEW D, Shape(h, D), NEW k \in Int
  PROVE  LET r == Search(h, k)
         IN /\ r \in Found
            /\ r.found # NULL => r.found \in In(h) /\ key[r.found] = k
            /\ r.found = NULL => Room(h, D, k, r.parent, r.side) /\ \A x \in In(h) : key[x] # k
<1> DEFINE to(m) == IF k < key[m] THEN "left" ELSE "right"
           body(m, f) == IF k = key[m] THEN [found |-> m, parent |-> NULL, side |-> to(m)]
                         ELSE IF h.kid[m][to(m)] = NULL THEN [found |-> NULL, parent |-> m, side |-> to(m)]
                         ELSE f[h.kid[m][to(m)]]
           P(f) == f = [m \in Node |-> body(m, f)]
           G == [m \in Node |-> [f \in [Node -> Found] |-> body(m, f)]]
           rank == [m \in Node |-> Cardinality(D[m])]
<1>1. \A m \in Node : /\ to(m) \in Side /\ h.kid[m][to(m)] \in Pointer /\ m \in Pointer
                      /\ h.kid[m][to(m)] # NULL => h.kid[m][to(m)] \in Node
                      /\ k # key[m] => Lies(to(m), k, m)
  <2> TAKE m \in Node
  <2>1. to(m) \in Side /\ m \in Pointer
    BY DEF Side, Pointer
  <2>2. k # key[m] => Lies(to(m), k, m)
    BY NodeAssumption DEF Lies
  <2> HIDE DEF to
  <2> QED
    BY <2>1, <2>2, BelowIs DEF Pointer
<1>2. \E f \in [Node -> Found] : \A m \in Node : f[m] = G[m][f]
  <2>1. Cardinality(Node) \in Nat /\ rank \in [Node -> 0 .. Cardinality(Node)]
    BY RankIs
  <2>2. G \in [Node -> [[Node -> Found] -> Found]]
    <3> SUFFICES ASSUME NEW m \in Node, NEW f \in [Node -> Found] PROVE body(m, f) \in Found
      OBVIOUS
    <3>1. NULL \in Pointer
      BY DEF Pointer
    <3> HIDE DEF to
    <3> QED
      BY <1>1, <3>1 DEF Found
  <2>3. \A m \in Node : \A f, g \in [Node -> Found] :
          (\A y \in Node : rank[y] < rank[m] => f[y] = g[y]) => G[m][f] = G[m][g]
    <3> SUFFICES ASSUME NEW m \in Node, NEW f \in [Node -> Found], NEW g \in [Node -> Found],
                        \A y \in Node : rank[y] < rank[m] => f[y] = g[y]
                 PROVE  G[m][f] = G[m][g]
      BY Zenon
    <3> HIDE DEF to
    <3>1. h.kid[m][to(m)] # NULL => rank[h.kid[m][to(m)]] < rank[m]
      BY <1>1, RankIs
    <3>2. body(m, f) = body(m, g)
      BY <1>1, <3>1
    <3> HIDE DEF body
    <3> QED
      BY <3>2
  <2> HIDE DEF G, rank
  <2>4. Local(Node, Found, Cardinality(Node), rank, G)
    BY <2>1, <2>2, <2>3, Zenon DEF Local
  <2>5. [found |-> NULL, parent |-> NULL, side |-> "left"] \in Found
    BY DEF Found, Pointer, Side
  <2>6. Solvable(Node, Found, G)
    BY <2>4, <2>5, Recursion
  <2> QED
    BY <2>6 DEF Solvable
<1>3. \E f : P(f)
  <2>1. PICK f \in [Node -> Found] : \A m \in Node : f[m] = G[m][f]
    BY <1>2
  <2> HIDE DEF body
  <2>2. f = [m \in Node |-> f[m]]
    OBVIOUS
  <2>3. \A m \in Node : f[m] = body(m, f)
    BY <2>1
  <2>4. P(f)
    BY <2>2, <2>3
  <2> QED
    BY <2>4
<1> DEFINE F == CHOOSE f : P(f)
           None == [found |-> NULL, parent |-> NULL, side |-> "left"]
<1>4. P(F)
  <2> HIDE DEF P
  <2> QED
    BY <1>3
<1>5. Search(h, k) = IF h.root = NULL THEN None ELSE F[h.root]
  BY Zenon DEF Search
<1> HIDE DEF F
<1>6. \A m \in Node : F[m] = body(m, F)
  BY <1>4
<1> DEFINE X == {m \in Node : Leads(h, D, k, m, F[m])}
<1>7. ASSUME NEW m \in Node, \A t \in Side : h.kid[m][t] # NULL => h.kid[m][t] \in X
      PROVE  m \in X
  <2> DEFINE s == to(m)
  <2>1. /\ m \in D[m] /\ D[m] \subseteq Node
        /\ D[m] = {m} \cup D[h.kid[m][s]] \cup D[h.kid[m][Other(s)]]
        /\ \A x \in D[h.kid[m][Other(s)]] : Lies(Other(s), key[x], m)
        /\ \A a \in Node, t \in Side : a \notin D[h.kid[a][t]] /\ D[h.kid[a][t]] \subseteq D[a]
    <3> HIDE DEF to
    <3> QED
      BY <1>1, BelowIs, Sides
  <2>2. s \in Side /\ m \in Pointer /\ NULL \in Pointer /\ m # NULL
    BY <1>1, NodeAssumption DEF Pointer
  <2>3. F[m] = IF k = key[m] THEN [found |-> m, parent |-> NULL, side |-> s]
               ELSE IF h.kid[m][s] = NULL THEN [found |-> NULL, parent |-> m, side |-> s]
               ELSE F[h.kid[m][s]]
    BY <1>6
  <2>4. k # key[m] => Lies(s, k, m)
    BY <1>1
  <2> HIDE DEF s
  <2>5. CASE k = key[m]
    BY <2>1, <2>2, <2>3, <2>5 DEF Leads, Found
  <2>6. CASE k # key[m] /\ h.kid[m][s] = NULL
    <3>1. D[h.kid[m][s]] = {}
      BY <2>6 DEF Shape, Spread
    <3>2. ASSUME NEW x \in D[m] PROVE key[x] # k
      <4>1. x \in D[h.kid[m][Other(s)]] => key[x] # k
        BY <2>1, <2>2, <2>4, <2>6, KeysLie
      <4> QED
        BY <2>1, <2>6, <3>1, <4>1
    <3>3. ASSUME NEW a \in D[m], NEW t \in Side PROVE m \notin D[h.kid[a][t]]
      <4>1. a \in Node
        BY <2>1
      <4>2. m \in D[h.kid[a][t]] => m \in D[a]
        BY <2>1, <4>1
      <4>3. m \in D[a] => a = m
        BY <4>1, OneAbove
      <4> QED
        BY <2>1, <4>1, <4>2, <4>3
    <3> QED
      BY <2>1, <2>2, <2>3, <2>4, <2>6, <3>2, <3>3 DEF Leads, Found
  <2>7. CASE k # key[m] /\ h.kid[m][s] # NULL
    <3>1. Leads(h, D, k, h.kid[m][s], F[h.kid[m][s]]) /\ F[m] = F[h.kid[m][s]]
      BY <1>7, <2>2, <2>3, <2>7
    <3> QED
      BY <2>2, <2>4, <2>7, <3>1, LeadsStep
  <2> QED
    BY <2>5, <2>6, <2>7
<1>8. X = Node
  <2> HIDE DEF X
  <2>1. X \in SUBSET Node
    BY DEF X
  <2> QED
    BY <1>7, <2>1, FromBelow
<1>9. h.root \in Pointer /\ D[h.root] = In(h) /\ D[NULL] = {} /\ D \in [Pointer -> SUBSET Node]
  BY HeapFields DEF Shape, Spread
<1> DEFINE r == Search(h, k)
<1>10. CASE h.root = NULL
  <2>1. r = None /\ In(h) = {}
    BY <1>5, <1>9, <1>10
  <2>2. \A a \in Node, t \in Side : NULL \notin D[h.kid[a][t]]
    BY <1>9, BelowIs, NodeAssumption
  <2>3. Room(h, D, k, NULL, "left")
    BY <1>10, <2>2 DEF Room, Pointer, Side
  <2>4. None \in Found /\ None.found = NULL /\ None.parent = NULL /\ None.side = "left"
    BY DEF Found, Pointer, Side
  <2> HIDE DEF r, None
  <2> QED
    BY <2>1, <2>3, <2>4 DEF r
<1>11. CASE h.root # NULL
  <2>1. h.root \in Node
    BY <1>9, <1>11 DEF Pointer
  <2>2. Leads(h, D, k, h.root, r)
    BY <1>5, <1>8, <1>11, <2>1
  <2> HIDE DEF r
  <2>3. r \in Found /\ (r.found # NULL => r.found \in In(h) /\ key[r.found] = k)
    BY <1>9, <2>2 DEF Leads
  <2>4. ASSUME r.found = NULL PROVE Room(h, D, k, r.parent, r.side) /\ \A x \in In(h) : key[x] # k
    <3>1. /\ r.parent \in In(h) /\ h.kid[r.parent][r.side] = NULL /\ Lies(r.side, k, r.parent)
          /\ \A x \in In(h) : key[x] # k
          /\ \A a \in In(h), t \in Side : r.parent \in D[h.kid[a][t]] => Lies(t, k, a)
      BY <1>9, <2>2, <2>4 DEF Leads
    <3>2. r.parent \in Node /\ r.parent \in Pointer /\ r.side \in Side
      BY <2>3, <3>1 DEF Found, In
    <3>3. \A a \in Node, t \in Side : r.parent \in D[h.kid[a][t]] => Lies(t, k, a)
      <4> SUFFICES ASSUME NEW a \in Node, NEW t \in Side, r.parent \in D[h.kid[a][t]] PROVE Lies(t, k, a)
        OBVIOUS
      <4>1. h.kid[a][t] # NULL
        BY <1>9
      <4>2. a \in In(h)
        BY <4>1, KidIs
      <4> QED
        BY <3>1, <4>2
    <3> QED
      BY <3>1, <3>2, <3>3, NodeAssumption DEF Room
  <2> QED
    BY <2>3, <2>4 DEF r
<1> QED
  BY <1>10, <1>11

LEMMA InTreeIs ==
  ASSUME NEW h, NEW D, Shape(h, D), NEW n \in Node
  PROVE  InTree(h, n) <=> n \in In(h)
<1> DEFINE r == Search(h, key[n])
<1>1. key[n] \in Int
  BY NodeAssumption
<1>2. /\ r.found # NULL => r.found \in In(h) /\ key[r.found] = key[n]
      /\ r.found = NULL => \A x \in In(h) : key[x] # key[n]
  BY <1>1, SearchIs
<1>3. InTree(h, n) <=> r.found = n
  BY DEF InTree
<1>4. \A a, b \in In(h) : key[a] = key[b] => a = b
  BY DEF Shape
<1> HIDE DEF r
<1> QED
  BY <1>2, <1>3, <1>4, NodeAssumption

(***************************************************************************)
(* What leaves when a node is erased.                                      *)
(***************************************************************************)
LEMMA InitNodeSets ==
  ASSUME NEW h \in Heap, NEW n \in Node
  PROVE  /\ InitNode(h, n) \in Heap /\ InitNode(h, n).root = h.root
         /\ \A a \in Node : InitNode(h, n).up[a] = IF a = n THEN n ELSE h.up[a]
         /\ \A a \in Node : InitNode(h, n).red[a] = IF a = n THEN TRUE ELSE h.red[a]
         /\ \A a \in Node, t \in Side : InitNode(h, n).kid[a][t] = IF a = n THEN NULL ELSE h.kid[a][t]
BY DEF InitNode, Heap, Pointer

LEMMA UnlinkOneIs ==
  ASSUME NEW h, NEW D, Shape(h, D), NEW n \in In(h), ~ \A s \in Side : h.kid[n][s] # NULL
  PROVE  LET cut == UnlinkOne(h, n)
         IN /\ OnlyChild(h, n, cut.child)
            /\ Cut1(h, InitNode(cut.heap, n), n, cut.child)
            /\ cut.parent = h.up[n] /\ cut.red = h.red[n]
            /\ cut.child = IF h.kid[n]["left"] = NULL THEN h.kid[n]["right"] ELSE h.kid[n]["left"]
<1> DEFINE c == IF h.kid[n]["left"] = NULL THEN h.kid[n]["right"] ELSE h.kid[n]["left"]
           p == h.up[n]
           h1 == UpIf(h, c, p)
           h2 == Redirect(h1, n, p, c)
           g == InitNode(h2, n)
<1>1. UnlinkOne(h, n) = [heap |-> h2, child |-> c, parent |-> p, red |-> h.red[n]]
  BY DEF UnlinkOne
<1>2. /\ n \in Node /\ p \in Pointer /\ p # n
      /\ p = NULL <=> h.root = n
      /\ \A a \in Node, t \in Side : h.kid[a][t] = n <=> a = p /\ t = SideOf(h, n, p)
  BY PlaceIs
<1>3. c \in Pointer /\ OnlyChild(h, n, c) /\ c # n /\ h \in Heap
  <2>1. \A s \in Side : h.kid[n][s] \in Pointer
    BY <1>2, BelowIs
  <2>2. "left" \in Side /\ "right" \in Side /\ Other("left") = "right" /\ Other("right") = "left"
    BY DEF Side, Other
  <2>3. OnlyChild(h, n, c)
    BY <2>2 DEF OnlyChild, Side
  <2>4. c # NULL => c # n
    BY <1>2, <2>2, KidIs
  <2> QED
    BY <1>2, <2>1, <2>2, <2>3, <2>4, NodeAssumption DEF Shape
<1> HIDE DEF c, p
<1>4. /\ h1 \in Heap /\ h1.root = h.root /\ h1.red = h.red /\ h1.kid = h.kid
      /\ \A a \in Node : h1.up[a] = IF a = c THEN p ELSE h.up[a]
  <2>1. h \in Heap /\ c \in Pointer /\ p \in Pointer
    BY <1>2, <1>3
  <2> QED
    BY <2>1, UpIfSets
<1> HIDE DEF h1
<1>5. /\ h2 \in Heap /\ h2.root = (IF p = NULL THEN c ELSE h1.root) /\ h2.red = h1.red /\ h2.up = h1.up
      /\ \A a \in Node, t \in Side : h2.kid[a][t] = IF a = p /\ t = SideOf(h1, n, p) THEN c ELSE h1.kid[a][t]
  <2>1. h1 \in Heap /\ c \in Pointer /\ p \in Pointer /\ n \in Node
    BY <1>2, <1>3, <1>4
  <2> QED
    BY <2>1, RedirectSets
<1>6. SideOf(h1, n, p) = SideOf(h, n, p)
  BY <1>4 DEF SideOf
<1> HIDE DEF h2
<1>7. /\ g \in Heap /\ g.root = h2.root
      /\ \A a \in Node : g.up[a] = IF a = n THEN n ELSE h2.up[a]
      /\ \A a \in Node : g.red[a] = IF a = n THEN TRUE ELSE h2.red[a]
      /\ \A a \in Node, t \in Side : g.kid[a][t] = IF a = n THEN NULL ELSE h2.kid[a][t]
  <2>1. h2 \in Heap /\ n \in Node
    BY <1>2, <1>5
  <2> QED
    BY <2>1, InitNodeSets
<1> HIDE DEF g
<1>8. Cut1(h, g, n, c)
  <2>1. g.root = IF h.root = n THEN c ELSE h.root
    BY <1>2, <1>4, <1>5, <1>7
  <2>2. \A a \in Node : g.up[a] = IF a = n THEN n ELSE IF a = c THEN p ELSE h.up[a]
    BY <1>4, <1>5, <1>7
  <2>3. \A a \in Node : g.red[a] = IF a = n THEN TRUE ELSE h.red[a]
    <3>1. h2.red = h.red
      BY <1>4, <1>5
    <3> QED
      BY <1>7, <3>1, Zenon
  <2>4. \A a \in Node, t \in Side : g.kid[a][t] = IF a = n THEN NULL
                                                  ELSE IF h.kid[a][t] = n THEN c ELSE h.kid[a][t]
    BY <1>2, <1>4, <1>5, <1>6, <1>7
  <2> QED
    BY <1>7, <2>1, <2>2, <2>3, <2>4 DEF Cut1, p
<1> QED
  BY <1>1, <1>3, <1>8 DEF g, c, p

\* The node next to one with two children: the first below its right child.
Next1(h, n) == Far(h, h.kid[n]["right"], "left")

LEMMA NextIs ==
  ASSUME NEW h, NEW D, Shape(h, D), NEW n \in In(h), \A s \in Side : h.kid[n][s] # NULL
  PROVE  LET m == Next1(h, n)
         IN /\ m \in Node /\ m \in In(h) /\ m # n /\ m \in D[h.kid[n]["right"]] /\ m \in D[n]
            /\ m # h.kid[n]["left"]
            /\ h.kid[m]["left"] = NULL /\ OnlyChild(h, m, h.kid[m]["right"])
            /\ h.up[m] \in In(h)
            /\ h.up[m] = n <=> h.kid[n]["right"] = m
            /\ h.up[m] # n => h.kid[h.up[m]]["left"] = m /\ h.up[m] \in D[h.kid[n]["right"]]
            /\ \A x \in D[h.kid[n]["right"]] \ {m} : Lies("right", key[x], m)
            /\ RbNext(h, n) = m
<1> DEFINE r == h.kid[n]["right"]
           l == h.kid[n]["left"]
           m == Next1(h, n)
<1>1. /\ "left" \in Side /\ "right" \in Side /\ Other("left") = "right" /\ Other("right") = "left"
      /\ n \in Node
  BY DEF Side, Other, In
<1>2. /\ r # NULL /\ r \in Node /\ h.up[r] = n /\ r # n /\ r # l
      /\ D[r] \subseteq D[n] /\ n \notin D[r] /\ D[r] \cap D[l] = {} /\ D[n] \subseteq In(h)
      /\ l \in D[l]
  <2>1. r # NULL /\ r \in Node /\ h.up[r] = n /\ r # n /\ r # l /\ l \in D[l]
    BY <1>1, KidIs
  <2>2. D[r] \subseteq D[n] /\ n \notin D[r] /\ D[r] \cap D[l] = {}
    BY <1>1, BelowIs
  <2> QED
    BY <1>1, <2>1, <2>2, InIs
<1>3. Furthest(h, D, r, "left", m)
  BY <1>1, <1>2, FarIs DEF Next1
<1> HIDE DEF r, l, m
<1>4. /\ m \in D[r] /\ h.kid[m]["left"] = NULL
      /\ \A x \in D[r] \ {m} : Lies("right", key[x], m)
      /\ m = r \/ h.kid[h.up[m]]["left"] = m
  BY <1>1, <1>3 DEF Furthest
<1>5. m \in D[n] /\ m \in In(h) /\ m \in Node /\ m # n /\ m # l
  BY <1>2, <1>4 DEF In
<1>6. h.up[m] \in In(h) /\ (m # r => h.up[m] # n /\ h.up[m] \in D[r])
  <2>1. h.up[m] \in In(h)
    BY <1>1, <1>5, UpIs
  <2>2. m # r => h.up[m] \in D[r]
    BY <1>2, <1>4, UpIs
  <2> QED
    BY <1>2, <2>1, <2>2
<1>7. OnlyChild(h, m, h.kid[m]["right"])
  BY <1>1, <1>4 DEF OnlyChild
<1>8. RbNext(h, n) = m
  <2>1. h.up[n] # n
    BY DEF In
  <2> QED
    BY <1>1, <1>2, <2>1 DEF RbNext, RbStep, m, Next1, r
<1> QED
  BY <1>2, <1>4, <1>5, <1>6, <1>7, <1>8 DEF r, l, m

\* As if the next node had been taken out first, and then put where n was.
LEMMA UnlinkTwoIs ==
  ASSUME NEW h, NEW D, Shape(h, D), NEW n \in In(h), \A s \in Side : h.kid[n][s] # NULL
  PROVE  LET cut == UnlinkTwo(h, n)
             m == Next1(h, n)
             one == InitNode(UnlinkOne(h, m).heap, m)
         IN /\ Cut1(h, one, m, cut.child)
            /\ Swapped(one, InitNode(cut.heap, n), n, m)
            /\ FitsFor(one, CutBelow(D, m), n, m)
            /\ cut.parent = IF h.up[m] = n THEN m ELSE h.up[m]
            /\ cut.red = h.red[m] /\ cut.child = h.kid[m]["right"]
<1> DEFINE r == h.kid[n]["right"]
           l == h.kid[n]["left"]
           m == Next1(h, n)
           c == h.kid[m]["right"]
           p == h.up[m]
           q == h.up[n]
           one == InitNode(UnlinkOne(h, m).heap, m)
           h1 == Redirect(h, n, q, m)
           i1 == UpIf(h1, c, p)
           i2 == Hang(i1, p, "left", c)
           i3 == Hang(i2, m, "right", r)
           h2 == IF p = n THEN h1 ELSE Up(i3, r, m)
           h3 == [h2 EXCEPT !.up[m] = q, !.red[m] = h.red[n], !.kid[m]["left"] = l]
           h4 == Up(h3, l, m)
           g == InitNode(h4, n)
<1>1. UnlinkTwo(h, n) = [heap |-> h4, child |-> c, parent |-> IF p = n THEN m ELSE p, red |-> h.red[m]]
  BY Zenon DEF UnlinkTwo, Next1
<1>2. /\ m \in Node /\ m \in In(h) /\ m # n /\ m \in D[r] /\ m \in D[n] /\ m # l
      /\ h.kid[m]["left"] = NULL /\ OnlyChild(h, m, c)
      /\ p \in In(h) /\ p \in Node
      /\ p = n <=> r = m
      /\ p # n => h.kid[p]["left"] = m
      /\ \A x \in D[r] \ {m} : Lies("right", key[x], m)
  BY NextIs DEF In
<1>3. /\ "left" \in Side /\ "right" \in Side /\ Other("left") = "right" /\ Other("right") = "left"
      /\ \A t \in Side : t = "left" \/ t = "right"
      /\ h \in Heap
  BY DEF Side, Other, Shape
<1>4. /\ n \in Node /\ q \in Pointer /\ q # n
      /\ q = NULL <=> h.root = n
      /\ \A a \in Node, t \in Side : h.kid[a][t] = n <=> a = q /\ t = SideOf(h, n, q)
  BY PlaceIs
<1>5. /\ r \in Node /\ h.up[r] = n /\ r # n /\ r # l /\ l \in Node /\ h.up[l] = n /\ l # n
  BY <1>3, <1>4, KidIs
<1>6. c \in Pointer /\ (c # NULL => c \in Node /\ h.up[c] = m /\ c # m) /\ c # n /\ c # l /\ c # r
  <2>1. c \in Pointer /\ (c # NULL => c \in Node /\ h.up[c] = m /\ c # m)
    <3>1. m \in Node
      BY <1>2
    <3> HIDE DEF m
    <3> QED
      BY <1>3, <3>1, KidIs, BelowIs DEF Pointer
  <2>2. c # NULL => c # l /\ c # r
    BY <1>2, <1>5, <2>1
  <2>3. c # NULL => c # n
    <3>1. m \in D[n] /\ m # n /\ m \in Node /\ n \in Node
      BY <1>2, <1>4
    <3>2. h.up[n] = m => n \in D[m]
      <4> HIDE DEF m
      <4>1. h.up[n] = m => \E t \in Side : h.kid[m][t] = n
        BY <3>1, PlaceIs, NodeAssumption
      <4> QED
        BY <3>1, <4>1, KidIs, NodeAssumption
    <3>3. h.up[n] # m
      <4> HIDE DEF m
      <4> QED
        BY <3>1, <3>2, OneAbove
    <3> QED
      BY <2>1, <3>3
  <2> QED
    BY <1>4, <1>5, <2>1, <2>2, <2>3, NodeAssumption
<1>7. \A a \in Node, t \in Side : h.kid[a][t] = m <=> IF p = n THEN a = n /\ t = "right" ELSE a = p /\ t = "left"
  <2>1. m \in In(h) /\ m # NULL
    BY <1>2, NodeAssumption
  <2>2. \A a \in Node, t \in Side : h.kid[a][t] = m <=> a = p /\ t = SideOf(h, m, p)
    <3> HIDE DEF m
    <3> QED
      BY <2>1, PlaceIs
  <2>3. SideOf(h, m, p) = IF p = n THEN "right" ELSE "left"
    BY <1>2, <1>3, <1>5 DEF SideOf
  <2> QED
    BY <2>2, <2>3
<1>8. q # m
  <2>1. q = m => h.kid[m][SideOf(h, n, q)] = n
    BY <1>2, <1>4 DEF Side, SideOf
  <2>2. \A t \in Side : h.kid[m][t] = NULL \/ h.kid[m][t] = c
    BY <1>2, <1>3
  <2> QED
    BY <1>3, <1>4, <1>6, <2>1, <2>2, NodeAssumption DEF SideOf
<1>9. Cut1(h, one, m, c)
  <2>1. ~ \A s \in Side : h.kid[m][s] # NULL
    BY <1>2, <1>3
  <2>2. m \in In(h)
    BY <1>2
  <2> HIDE DEF m
  <2>3. LET cut == UnlinkOne(h, m)
        IN /\ Cut1(h, InitNode(cut.heap, m), m, cut.child)
           /\ cut.child = IF h.kid[m]["left"] = NULL THEN h.kid[m]["right"] ELSE h.kid[m]["left"]
    BY <2>1, <2>2, UnlinkOneIs
  <2> QED
    BY <1>2, <2>3
<1> HIDE DEF one, r, l, m, c, p, q
<1>10. /\ h1 \in Heap /\ h1.root = (IF q = NULL THEN m ELSE h.root) /\ h1.red = h.red /\ h1.up = h.up
       /\ \A a \in Node, t \in Side : h1.kid[a][t] = IF h.kid[a][t] = n THEN m ELSE h.kid[a][t]
  <2>1. h \in Heap /\ n \in Node /\ q \in Pointer /\ m \in Pointer
    BY <1>2, <1>3, <1>4 DEF Pointer
  <2>2. /\ h1 \in Heap /\ h1.root = (IF q = NULL THEN m ELSE h.root) /\ h1.red = h.red /\ h1.up = h.up
        /\ \A a \in Node, t \in Side : h1.kid[a][t] = IF a = q /\ t = SideOf(h, n, q) THEN m ELSE h.kid[a][t]
    BY <2>1, RedirectSets
  <2> HIDE DEF h1
  <2> QED
    BY <1>4, <2>2
<1> HIDE DEF h1
<1>11. ASSUME p # n
       PROVE  /\ Up(i3, r, m) \in Heap /\ Up(i3, r, m).root = h1.root /\ Up(i3, r, m).red = h1.red
              /\ \A a \in Node : Up(i3, r, m).up[a] = IF a = r THEN m ELSE IF a = c THEN p ELSE h1.up[a]
              /\ \A a \in Node, t \in Side :
                   Up(i3, r, m).kid[a][t] = IF a = m /\ t = "right" THEN r
                                            ELSE IF a = p /\ t = "left" THEN c ELSE h1.kid[a][t]
  <2>1. c \in Pointer /\ p \in Pointer /\ p \in Node /\ m \in Node /\ r \in Node /\ r \in Pointer /\ m \in Pointer
        /\ "left" \in Side /\ "right" \in Side
    BY <1>2, <1>3, <1>5, <1>6 DEF Pointer
  <2>2. /\ i1 \in Heap /\ i1.root = h1.root /\ i1.red = h1.red /\ i1.kid = h1.kid
        /\ \A a \in Node : i1.up[a] = IF a = c THEN p ELSE h1.up[a]
    <3>1. h1 \in Heap
      BY <1>10
    <3> QED
      BY <2>1, <3>1, UpIfSets
  <2> HIDE DEF i1
  <2>3. /\ i2 \in Heap /\ i2.root = i1.root /\ i2.red = i1.red /\ i2.up = i1.up
        /\ \A a \in Node, t \in Side : i2.kid[a][t] = IF a = p /\ t = "left" THEN c ELSE i1.kid[a][t]
    <3>1. i1 \in Heap
      BY <2>2
    <3> QED
      BY <2>1, <3>1, HangSets
  <2> HIDE DEF i2
  <2>4. /\ i3 \in Heap /\ i3.root = i2.root /\ i3.red = i2.red /\ i3.up = i2.up
        /\ \A a \in Node, t \in Side : i3.kid[a][t] = IF a = m /\ t = "right" THEN r ELSE i2.kid[a][t]
    <3>1. i2 \in Heap
      BY <2>3
    <3> QED
      BY <2>1, <3>1, HangSets
  <2> HIDE DEF i3
  <2> DEFINE i4 == Up(i3, r, m)
  <2>5. /\ i4 \in Heap /\ i4.root = i3.root /\ i4.red = i3.red /\ i4.kid = i3.kid
        /\ \A a \in Node : i4.up[a] = IF a = r THEN m ELSE i3.up[a]
    <3>1. i3 \in Heap
      BY <2>4
    <3> QED
      BY <2>1, <3>1, UpSets
  <2> HIDE DEF i4
  <2>6. i4.root = h1.root /\ i4.red = h1.red
    BY <2>2, <2>3, <2>4, <2>5
  <2>7. \A a \in Node : i4.up[a] = IF a = r THEN m ELSE IF a = c THEN p ELSE h1.up[a]
    BY <2>2, <2>3, <2>4, <2>5
  <2>8. \A a \in Node, t \in Side : i4.kid[a][t] = IF a = m /\ t = "right" THEN r
                                                   ELSE IF a = p /\ t = "left" THEN c ELSE h1.kid[a][t]
    BY <2>2, <2>3, <2>4, <2>5
  <2> QED
    BY <2>5, <2>6, <2>7, <2>8 DEF i4
<1>12. /\ h2 \in Heap /\ h2.root = h1.root /\ h2.red = h.red
       /\ \A a \in Node : h2.up[a] = IF p # n /\ a = r THEN m ELSE IF p # n /\ a = c THEN p ELSE h.up[a]
       /\ \A a \in Node, t \in Side :
            h2.kid[a][t] = IF p # n /\ a = m /\ t = "right" THEN r
                           ELSE IF p # n /\ a = p /\ t = "left" THEN c ELSE h1.kid[a][t]
  <2> DEFINE i4 == Up(i3, r, m)
  <2> HIDE DEF i3
  <2>1. CASE p = n
    <3>1. h2 = h1
      BY <2>1
    <3> HIDE DEF h2
    <3> QED
      BY <1>10, <2>1, <3>1
  <2>2. CASE p # n
    <3>1. h2 = i4
      BY <2>2
    <3>2. /\ i4 \in Heap /\ i4.root = h1.root /\ i4.red = h1.red
          /\ \A a \in Node : i4.up[a] = IF a = r THEN m ELSE IF a = c THEN p ELSE h1.up[a]
          /\ \A a \in Node, t \in Side :
               i4.kid[a][t] = IF a = m /\ t = "right" THEN r
                              ELSE IF a = p /\ t = "left" THEN c ELSE h1.kid[a][t]
      BY <1>11, <2>2
    <3> HIDE DEF h2, i4
    <3> QED
      BY <1>10, <2>2, <3>1, <3>2
  <2> QED
    BY <2>1, <2>2
<1> HIDE DEF h2
<1>13. /\ h3 \in Heap /\ h3.root = h2.root
       /\ \A a \in Node : h3.up[a] = IF a = m THEN q ELSE h2.up[a]
       /\ \A a \in Node : h3.red[a] = IF a = m THEN h.red[n] ELSE h2.red[a]
       /\ \A a \in Node, t \in Side : h3.kid[a][t] = IF a = m /\ t = "left" THEN l ELSE h2.kid[a][t]
  <2>1. h2 \in Heap /\ m \in Node /\ q \in Pointer /\ h.red[n] \in BOOLEAN /\ l \in Pointer /\ "left" \in Side
    BY <1>2, <1>3, <1>4, <1>5, <1>12, HeapFields DEF Pointer
  <2> QED
    BY <2>1 DEF Heap
<1> HIDE DEF h3
<1>14. /\ h4 \in Heap /\ h4.root = h3.root /\ h4.red = h3.red /\ h4.kid = h3.kid
       /\ \A a \in Node : h4.up[a] = IF a = l THEN m ELSE h3.up[a]
  <2>1. h3 \in Heap /\ l \in Node /\ m \in Pointer
    BY <1>2, <1>5, <1>13 DEF Pointer
  <2> QED
    BY <2>1, UpSets
<1> HIDE DEF h4
<1>15. /\ g \in Heap /\ g.root = h4.root
       /\ \A a \in Node : g.up[a] = IF a = n THEN n ELSE h4.up[a]
       /\ \A a \in Node : g.red[a] = IF a = n THEN TRUE ELSE h4.red[a]
       /\ \A a \in Node, t \in Side : g.kid[a][t] = IF a = n THEN NULL ELSE h4.kid[a][t]
  <2>1. h4 \in Heap /\ n \in Node
    BY <1>4, <1>14
  <2> QED
    BY <2>1, InitNodeSets
<1> HIDE DEF g
<1>16. /\ one \in Heap
       /\ one.root = IF h.root = m THEN c ELSE h.root
       /\ \A a \in Node : one.up[a] = IF a = m THEN m ELSE IF a = c THEN p ELSE h.up[a]
       /\ \A a \in Node : one.red[a] = IF a = m THEN TRUE ELSE h.red[a]
       /\ \A a \in Node, t \in Side : one.kid[a][t] = IF a = m THEN NULL
                                                      ELSE IF h.kid[a][t] = m THEN c ELSE h.kid[a][t]
  BY <1>9 DEF Cut1, p
<1>17. Swapped(one, g, n, m)
  <2>1. g.root = IF one.root = n THEN m ELSE one.root
    <3>1. h.root # m
      <4>1. m \in In(h) /\ h.up[m] # NULL
        BY <1>2, NodeAssumption DEF p
      <4> QED
        BY <4>1, PlaceIs
    <3> QED
      BY <1>4, <1>10, <1>12, <1>13, <1>14, <1>15, <1>16, <3>1
  <2>2. ASSUME NEW a \in Node
        PROVE  g.up[a] = IF a = n THEN n ELSE IF a = m THEN one.up[n]
                         ELSE IF one.up[a] = n THEN m ELSE one.up[a]
    <3>1. g.up[a] = IF a = n THEN n ELSE IF a = l THEN m ELSE IF a = m THEN q
                    ELSE IF p # n /\ a = r THEN m ELSE IF p # n /\ a = c THEN p ELSE h.up[a]
      BY <1>12, <1>13, <1>14, <1>15
    <3>2. one.up[n] = q
      BY <1>2, <1>4, <1>6, <1>16 DEF q
    <3>3. one.up[a] = IF a = m THEN m ELSE IF a = c THEN p ELSE h.up[a]
      BY <1>16
    <3>4. h.up[a] = n /\ a # n => a = l \/ a = r
      <4> SUFFICES ASSUME h.up[a] = n, a # n PROVE a = l \/ a = r
        OBVIOUS
      <4>1. a \in In(h) /\ h.up[a] # NULL
        BY <1>4, NodeAssumption DEF In
      <4>2. h.kid[n][SideOf(h, a, n)] = a /\ SideOf(h, a, n) \in Side
        BY <4>1, PlaceIs
      <4> QED
        BY <1>3, <4>2 DEF l, r
    <3>5. a = c => h.up[a] = m
      BY <1>6, NodeAssumption
    <3>6. (a = l => h.up[a] = n) /\ (a = r => h.up[a] = n)
      BY <1>5
    <3> QED
      BY <1>2, <1>5, <1>6, <3>1, <3>2, <3>3, <3>4, <3>5, <3>6
  <2>3. \A a \in Node : g.red[a] = IF a = n THEN TRUE ELSE IF a = m THEN one.red[n] ELSE one.red[a]
    <3> TAKE a \in Node
    <3>1. one.red[n] = h.red[n]
      BY <1>2, <1>4, <1>16
    <3>2. CASE a = n
      BY <1>15, <3>2
    <3>3. CASE a = m
      <4>0. g.red[a] = h4.red[a] /\ h4.red[a] = h3.red[a]
        BY <1>2, <1>14, <1>15, <3>3
      <4>1. g.red[a] = h.red[n]
        BY <1>13, <3>3, <4>0
      <4> QED
        BY <1>2, <3>1, <3>3, <4>1
    <3>4. CASE a # n /\ a # m
      <4>0. g.red[a] = h4.red[a] /\ h4.red[a] = h3.red[a] /\ h2.red[a] = h.red[a]
        BY <1>12, <1>14, <1>15, <3>4
      <4>1. g.red[a] = h.red[a]
        BY <1>13, <3>4, <4>0
      <4>2. one.red[a] = h.red[a]
        BY <1>16, <3>4
      <4> QED
        BY <3>4, <4>1, <4>2
    <3> QED
      BY <3>2, <3>3, <3>4
  <2>4. ASSUME NEW a \in Node, NEW t \in Side
        PROVE  g.kid[a][t] = IF a = n THEN NULL ELSE IF a = m THEN one.kid[n][t]
                             ELSE IF one.kid[a][t] = n THEN m ELSE one.kid[a][t]
    <3>1. g.kid[a][t] = IF a = n THEN NULL
                        ELSE IF a = m /\ t = "left" THEN l
                        ELSE IF p # n /\ a = m /\ t = "right" THEN r
                        ELSE IF p # n /\ a = p /\ t = "left" THEN c
                        ELSE IF h.kid[a][t] = n THEN m ELSE h.kid[a][t]
      BY <1>10, <1>12, <1>13, <1>14, <1>15
    <3>2. one.kid[n][t] = IF p = n /\ t = "right" THEN c ELSE h.kid[n][t]
      BY <1>2, <1>4, <1>7, <1>16
    <3>3. (t = "left" => h.kid[n][t] = l) /\ (t = "right" => h.kid[n][t] = r) /\ (t = "left" \/ t = "right")
      BY <1>3 DEF l, r
    <3>4. CASE a = n
      BY <3>1, <3>4
    <3>5. CASE a = m
      <4>1. t = "right" => h.kid[a][t] = c
        BY <3>5 DEF c
      <4> QED
        BY <1>2, <1>6, <3>1, <3>2, <3>3, <3>5, <4>1
    <3>6. CASE a # n /\ a # m
      <4>1. one.kid[a][t] = IF p # n /\ a = p /\ t = "left" THEN c ELSE h.kid[a][t]
        BY <1>7, <1>16, <3>6
      <4> QED
        BY <1>6, <3>1, <3>6, <4>1
    <3> QED
      BY <3>4, <3>5, <3>6
  <2> QED
    BY <1>15, <2>1, <2>2, <2>3, <2>4 DEF Swapped
<1>18. FitsFor(one, CutBelow(D, m), n, m)
  <2>1. /\ In(one) = In(h) \ {m}
        /\ \A a \in Node, t \in Side : a # m => CutBelow(D, m)[one.kid[a][t]] = D[h.kid[a][t]] \ {m}
    <3>1. m \in In(h) /\ OnlyChild(h, m, c)
      BY <1>2
    <3> QED
      BY <1>9, <3>1, CutShape
  <2>2. \A a \in Node, t \in Side : \A x \in D[h.kid[a][t]] : Lies(t, key[x], a) /\ x \in Node
    BY BelowIs DEF Shape, Spread
  <2>3. ASSUME NEW a \in Node, NEW t \in Side, n \in CutBelow(D, m)[one.kid[a][t]] PROVE Lies(t, key[m], a)
    <3>1. a # m
      <4>1. one.kid[m][t] = NULL
        BY <1>2, <1>16
      <4>2. CutBelow(D, m)[NULL] = D[NULL] \ {m}
        BY <1>2, NodeAssumption DEF CutBelow, Pointer
      <4>3. D[NULL] = {}
        BY DEF Shape, Spread
      <4> QED
        BY <2>3, <4>1, <4>2, <4>3
    <3>2. n \in D[h.kid[a][t]]
      BY <2>1, <2>3, <3>1
    <3>3. h.kid[a][t] \in Node
      <4>1. h.kid[a][t] # NULL
        BY <3>2 DEF Shape, Spread
      <4> QED
        BY <4>1, KidIs
    <3>4. m \in D[h.kid[a][t]]
      BY <1>2, <3>2, <3>3, BelowBelow
    <3> QED
      BY <2>2, <3>4
  <2>4. ASSUME NEW t \in Side, NEW x \in CutBelow(D, m)[one.kid[n][t]] PROVE Lies(t, key[x], m)
    <3>1. x \in D[h.kid[n][t]] /\ x # m
      BY <1>2, <1>4, <2>1, <2>4
    <3>2. CASE t = "right"
      BY <1>2, <3>1, <3>2 DEF r
    <3>3. CASE t = "left"
      <4>1. Lies("left", key[x], n) /\ Lies("right", key[m], n) /\ x \in Node
        BY <1>2, <1>3, <1>4, <2>2, <3>1, <3>3 DEF r
      <4>2. key[x] \in Int /\ key[m] \in Int /\ key[n] \in Int
        BY <1>2, <1>4, <4>1, NodeAssumption
      <4> QED
        BY <3>3, <4>1, <4>2 DEF Lies
    <3> QED
      BY <1>3, <3>2, <3>3
  <2>5. \A x \in In(one) \ {n} : key[x] # key[m]
    BY <1>2, <2>1 DEF Shape
  <2> QED
    BY <2>3, <2>4, <2>5 DEF FitsFor
<1> QED
  BY <1>1, <1>9, <1>17, <1>18 DEF one, g, m, c, p

LEMMA ReplaceIs ==
  ASSUME NEW h, NEW D, Shape(h, D), NEW m \in In(h), NEW n \in Node \ In(h), key[m] = key[n]
  PROVE  LET h1 == Redirect(h, m, h.up[m], n)
             h2 == UpIf(UpIf(h1, h.kid[m]["left"], n), h.kid[m]["right"], n)
         IN /\ Swapped(h, InitNode([h2 EXCEPT !.up[n] = h.up[m], !.red[n] = h.red[m], !.kid[n] = h2.kid[m]], m), m, n)
            /\ FitsFor(h, D, m, n)
<1> DEFINE l == h.kid[m]["left"]
           r == h.kid[m]["right"]
           p == h.up[m]
           h1 == Redirect(h, m, p, n)
           i == UpIf(h1, l, n)
           h2 == UpIf(i, r, n)
           h3 == [h2 EXCEPT !.up[n] = p, !.red[n] = h.red[m], !.kid[n] = h2.kid[m]]
           g == InitNode(h3, m)
<1>1. /\ m \in Node /\ n \in Node /\ n \in Pointer /\ m # n /\ h.up[n] = n /\ h \in Heap /\ n # NULL
      /\ p \in Pointer /\ p # m
      /\ p = NULL <=> h.root = m
      /\ \A a \in Node, t \in Side : h.kid[a][t] = m <=> a = p /\ t = SideOf(h, m, p)
      /\ h.red[m] \in BOOLEAN
  BY PlaceIs, HeapFields, NodeAssumption DEF In, Pointer, Shape
<1>2. "left" \in Side /\ "right" \in Side /\ \A t \in Side : t = "left" \/ t = "right"
  BY DEF Side
<1>3. l \in Pointer /\ r \in Pointer /\ \A a \in Node : h.up[a] = m /\ a # m <=> a = l \/ a = r
  <2>1. l \in Pointer /\ r \in Pointer
    BY <1>1, <1>2, BelowIs
  <2>2. \A t \in Side : h.kid[m][t] # NULL => h.up[h.kid[m][t]] = m /\ h.kid[m][t] # m
    BY <1>1, KidIs
  <2>3. ASSUME NEW a \in Node, h.up[a] = m, a # m PROVE a = l \/ a = r
    <3>1. a \in In(h) /\ h.up[a] # NULL
      BY <1>1, <2>3, NodeAssumption DEF In
    <3>2. h.kid[m][SideOf(h, a, m)] = a /\ SideOf(h, a, m) \in Side
      BY <2>3, <3>1, PlaceIs
    <3> QED
      BY <1>2, <3>2
  <2> QED
    BY <1>2, <2>1, <2>2, <2>3, NodeAssumption
<1> HIDE DEF l, r, p
<1>4. /\ h1 \in Heap /\ h1.root = (IF p = NULL THEN n ELSE h.root) /\ h1.red = h.red /\ h1.up = h.up
      /\ \A a \in Node, t \in Side : h1.kid[a][t] = IF a = p /\ t = SideOf(h, m, p) THEN n ELSE h.kid[a][t]
  BY <1>1, RedirectSets
<1> HIDE DEF h1
<1>5. /\ i \in Heap /\ i.root = h1.root /\ i.red = h1.red /\ i.kid = h1.kid
      /\ \A a \in Node : i.up[a] = IF a = l THEN n ELSE h1.up[a]
  <2>1. h1 \in Heap /\ l \in Pointer /\ n \in Pointer
    BY <1>1, <1>3, <1>4
  <2> QED
    BY <2>1, UpIfSets
<1> HIDE DEF i
<1>6. /\ h2 \in Heap /\ h2.root = i.root /\ h2.red = i.red /\ h2.kid = i.kid
      /\ \A a \in Node : h2.up[a] = IF a = r THEN n ELSE i.up[a]
  <2>1. i \in Heap /\ r \in Pointer /\ n \in Pointer
    BY <1>1, <1>3, <1>5
  <2> QED
    BY <2>1, UpIfSets
<1> HIDE DEF h2
<1>7. /\ h3 \in Heap /\ h3.root = h2.root
      /\ \A a \in Node : h3.up[a] = IF a = n THEN p ELSE h2.up[a]
      /\ \A a \in Node : h3.red[a] = IF a = n THEN h.red[m] ELSE h2.red[a]
      /\ \A a \in Node, t \in Side : h3.kid[a][t] = IF a = n THEN h2.kid[m][t] ELSE h2.kid[a][t]
  <2>1. h2 \in Heap /\ n \in Node /\ m \in Node /\ p \in Pointer /\ h.red[m] \in BOOLEAN
    BY <1>1, <1>6
  <2> QED
    BY <2>1 DEF Heap
<1> HIDE DEF h3
<1>8. /\ g \in Heap /\ g.root = h3.root
      /\ \A a \in Node : g.up[a] = IF a = m THEN m ELSE h3.up[a]
      /\ \A a \in Node : g.red[a] = IF a = m THEN TRUE ELSE h3.red[a]
      /\ \A a \in Node, t \in Side : g.kid[a][t] = IF a = m THEN NULL ELSE h3.kid[a][t]
  <2>1. h3 \in Heap /\ m \in Node
    BY <1>1, <1>7
  <2> QED
    BY <2>1, InitNodeSets
<1> HIDE DEF g
<1>9. Swapped(h, g, m, n)
  <2>1. g.root = IF h.root = m THEN n ELSE h.root
    BY <1>1, <1>4, <1>5, <1>6, <1>7, <1>8
  <2>2. \A a \in Node : g.up[a] = IF a = m THEN m ELSE IF a = n THEN p ELSE IF h.up[a] = m THEN n ELSE h.up[a]
    <3> TAKE a \in Node
    <3>1. g.up[a] = IF a = m THEN m ELSE IF a = n THEN p ELSE IF a = r \/ a = l THEN n ELSE h.up[a]
      BY <1>4, <1>5, <1>6, <1>7, <1>8
    <3> QED
      BY <1>3, <3>1
  <2>3. \A a \in Node : g.red[a] = IF a = m THEN TRUE ELSE IF a = n THEN h.red[m] ELSE h.red[a]
    <3> TAKE a \in Node
    <3>1. h2.red[a] = h.red[a]
      BY <1>4, <1>5, <1>6
    <3>2. g.red[a] = IF a = m THEN TRUE ELSE h3.red[a]
      BY <1>8
    <3>3. h3.red[a] = IF a = n THEN h.red[m] ELSE h2.red[a]
      BY <1>7
    <3> QED
      BY <3>1, <3>2, <3>3, Zenon
  <2>4. \A a \in Node, t \in Side : g.kid[a][t] = IF a = m THEN NULL ELSE IF a = n THEN h.kid[m][t]
                                                  ELSE IF h.kid[a][t] = m THEN n ELSE h.kid[a][t]
    <3> TAKE a \in Node, t \in Side
    <3>1. h2.kid[m][t] = h.kid[m][t]
      BY <1>1, <1>4, <1>5, <1>6
    <3>2. h2.kid[a][t] = IF h.kid[a][t] = m THEN n ELSE h.kid[a][t]
      BY <1>1, <1>4, <1>5, <1>6
    <3> QED
      BY <1>7, <1>8, <3>1, <3>2
  <2> QED
    BY <1>8, <2>1, <2>2, <2>3, <2>4 DEF Swapped, p
<1>10. FitsFor(h, D, m, n)
  <2>1. \A a \in Node, t \in Side : \A x \in D[h.kid[a][t]] : Lies(t, key[x], a)
    BY DEF Shape, Spread
  <2>2. \A t \in Side : \A x \in D[h.kid[m][t]] : Lies(t, key[x], n)
    BY <1>1, <2>1 DEF Lies
  <2>3. \A a \in Node, t \in Side : m \in D[h.kid[a][t]] => Lies(t, key[n], a)
    BY <2>1
  <2>4. \A x \in In(h) \ {m} : key[x] # key[n]
    BY DEF Shape
  <2> QED
    BY <2>2, <2>3, <2>4 DEF FitsFor
<1> QED
  BY <1>9, <1>10 DEF g, h3, h2, i, h1, l, r, p

(***************************************************************************)
(* Colours: H[n] counts the blacks on the ways down from n, n included; at *)
(* side u of q one is missing.                                             *)
(***************************************************************************)
Count(h, H, q, u, n, t) ==
  H[n] = H[h.kid[n][t]] + (IF n = q /\ t = u THEN 1 ELSE 0) + (IF h.red[n] THEN 0 ELSE 1)

Balanced(h, H, q, u) ==
  /\ H \in [Pointer -> Nat]
  /\ H[NULL] = 0
  /\ \A n \in In(h), t \in Side : Count(h, H, q, u, n, t)

\* A red node n may be above node b.
Meets(h, at, both, n, b) == h.red[n] /\ ~ Black(h, b) => b = at \/ (both /\ n = at)

Apart(h, at, both) ==
  /\ h.root # NULL /\ h.red[h.root] => h.root = at
  /\ \A n \in In(h), t \in Side : Meets(h, at, both, n, h.kid[n][t])

\* Where no black is missing a black child has a brother.
LEMMA BrotherIs ==
  ASSUME NEW h, NEW D, Shape(h, D), NEW H, NEW q \in In(h), NEW u \in Side, Balanced(h, H, q, u)
  PROVE  /\ h.kid[q][Other(u)] # NULL
         /\ SideOf(h, h.kid[q][u], q) = u
         /\ H[h.kid[q][Other(u)]] = H[h.kid[q][u]] + 1
<1>1. q \in Node /\ Other(u) \in Side /\ Other(u) # u
  BY Sides DEF In
<1>2. h.kid[q][u] \in Pointer /\ h.kid[q][Other(u)] \in Pointer
  BY <1>1, BelowIs
<1>3. H[h.kid[q][u]] \in Nat /\ H[h.kid[q][Other(u)]] \in Nat /\ H[NULL] = 0
  BY <1>2 DEF Balanced
<1>4. Count(h, H, q, u, q, u) /\ Count(h, H, q, u, q, Other(u))
  BY <1>1 DEF Balanced
<1> DEFINE e == IF h.red[q] THEN 0 ELSE 1
<1>5. e \in Nat
  OBVIOUS
<1>6. H[q] = H[h.kid[q][u]] + 1 + e /\ H[q] = H[h.kid[q][Other(u)]] + 0 + e
  BY <1>1, <1>4 DEF Count
<1> HIDE DEF e
<1>7. H[h.kid[q][Other(u)]] = H[h.kid[q][u]] + 1
  BY <1>3, <1>5, <1>6
<1>8. h.kid[q][Other(u)] # NULL
  BY <1>3, <1>7
<1>9. SideOf(h, h.kid[q][u], q) = u
  <2>1. h.kid[q][u] = NULL \/ h.kid[q][u] # NULL
    OBVIOUS
  <2>2. CASE h.kid[q][u] = NULL
    BY <1>8, <2>2 DEF SideOf, Side, Other
  <2> QED
    BY <1>1, <2>2, SideIs
<1> QED
  BY <1>7, <1>8, <1>9

\* A black node counts itself.
LEMMA BlackCounts ==
  ASSUME NEW h, NEW D, Shape(h, D), NEW H, NEW q, NEW u, Balanced(h, H, q, u), NEW n \in In(h), ~ h.red[n]
  PROVE  H[n] \in Nat /\ H[n] >= 1
<1>1. n \in Node /\ "left" \in Side
  BY DEF In, Side
<1>2. h.kid[n]["left"] \in Pointer
  BY <1>1, BelowIs
<1>3. H[n] \in Nat /\ H[h.kid[n]["left"]] \in Nat
  BY <1>1, <1>2 DEF Balanced, Pointer
<1>4. Count(h, H, q, u, n, "left")
  BY <1>1 DEF Balanced
<1> QED
  BY <1>3, <1>4 DEF Count

\* After a rotation, what counts is what is new at the two nodes.
LEMMA TurnCounts ==
  ASSUME NEW h, NEW D, Shape(h, D), NEW n \in Node, NEW s \in Side, h.kid[n][Other(s)] # NULL,
         NEW g, Turned(h, g, n, s), NEW q, NEW u,
         NEW H, H[NULL] = 0, NEW K \in [Pointer -> Nat],
         K[h.kid[n][Other(s)]] = H[n],
         \A a \in Pointer : a # n /\ a # h.kid[n][Other(s)] => K[a] = H[a],
         \A a \in In(h), t \in Side : a # n /\ a # h.kid[n][Other(s)] => Count(h, H, q, u, a, t),
         Count(g, K, q, u, n, s), Count(g, K, q, u, n, Other(s)),
         Count(g, K, q, u, h.kid[n][Other(s)], s), Count(g, K, q, u, h.kid[n][Other(s)], Other(s))
  PROVE  Balanced(g, K, q, u)
<1> DEFINE c == h.kid[n][Other(s)]
<1>1. c \in Node /\ n \in In(h) /\ c \in In(h) /\ c # n
  BY Sides, KidIs
<1>2. In(g) = In(h)
  BY RotateShape
<1>3. \A t \in Side : t = s \/ t = Other(s)
  BY Sides
<1>4. K[NULL] = 0
  BY <1>1, NodeAssumption DEF Pointer
<1>5. ASSUME NEW a \in In(h), NEW t \in Side, a # n, a # c PROVE Count(g, K, q, u, a, t)
  <2>1. a \in Node /\ h.kid[a][t] \in Pointer /\ a \in Pointer
    BY BelowIs DEF In, Pointer
  <2>2. g.kid[a][t] = (IF h.kid[a][t] = n THEN c ELSE h.kid[a][t]) /\ g.red = h.red
    BY <1>5, <2>1 DEF Turned
  <2>3. h.kid[a][t] # c
    <3>1. Other(s) \in Side
      BY Sides
    <3>2. h.kid[n][Other(s)] # NULL /\ h.kid[a][t] = h.kid[n][Other(s)] => a = n
      BY <2>1, <3>1, SideIs
    <3> QED
      BY <1>5, <3>2
  <2>4. K[g.kid[a][t]] = H[h.kid[a][t]] /\ K[a] = H[a]
    BY <1>5, <2>1, <2>2, <2>3
  <2>5. Count(h, H, q, u, a, t)
    BY <1>5
  <2> HIDE DEF c
  <2> QED
    BY <2>2, <2>4, <2>5, Zenon DEF Count
<1> QED
  BY <1>2, <1>3, <1>4, <1>5 DEF Balanced

\* No two red nodes meet when n is turned to side s.
MeetsTurned(h, at, both, n, s) ==
  LET c == h.kid[n][Other(s)]
  IN /\ \A a \in In(h), t \in Side : a # n /\ a # c /\ h.kid[a][t] # n => Meets(h, at, both, a, h.kid[a][t])
     /\ \A a \in In(h), t \in Side : h.kid[a][t] = n => Meets(h, at, both, a, c)
     /\ Meets(h, at, both, n, h.kid[n][s]) /\ Meets(h, at, both, n, h.kid[c][s])
     /\ Meets(h, at, both, c, n) /\ Meets(h, at, both, c, h.kid[c][Other(s)])
     /\ h.root = n /\ h.red[c] => c = at
     /\ h.root # n /\ h.root # NULL /\ h.red[h.root] => h.root = at

LEMMA TurnApart ==
  ASSUME NEW h, NEW D, Shape(h, D), NEW n \in Node, NEW s \in Side, h.kid[n][Other(s)] # NULL,
         NEW g, Turned(h, g, n, s), NEW at, NEW both, MeetsTurned(h, at, both, n, s)
  PROVE  Apart(g, at, both)
<1> DEFINE c == h.kid[n][Other(s)]
           x == h.kid[c][s]
<1>1. c \in Node /\ n \in In(h) /\ c \in In(h) /\ c # n
  BY Sides, KidIs
<1>2. In(g) = In(h) /\ g.red = h.red /\ g.root = IF h.root = n THEN c ELSE h.root
  BY RotateShape DEF Turned
<1>3. (\A t \in Side : t = s \/ t = Other(s)) /\ Other(s) # s /\ Other(s) \in Side
  BY Sides
<1>4. \A a, b : Meets(h, at, both, a, b) => Meets(g, at, both, a, b)
  BY <1>2 DEF Meets, Black
<1>5. ASSUME NEW a \in In(h), NEW t \in Side PROVE Meets(g, at, both, a, g.kid[a][t])
  <2>1. a \in Node /\ h.kid[a][t] \in Pointer
    BY BelowIs DEF In
  <2>2. g.kid[a][t] = IF a = n THEN IF t = s THEN h.kid[n][t] ELSE x
                      ELSE IF a = c THEN IF t = s THEN n ELSE h.kid[c][t]
                      ELSE IF h.kid[a][t] = n THEN c ELSE h.kid[a][t]
    BY <2>1 DEF Turned
  <2>3. Meets(h, at, both, a, g.kid[a][t])
    <3>1. CASE a = n
      BY <1>3, <2>2, <3>1 DEF MeetsTurned
    <3>2. CASE a = c
      BY <1>1, <1>3, <2>2, <3>2 DEF MeetsTurned
    <3>3. CASE a # n /\ a # c
      BY <2>2, <3>3 DEF MeetsTurned
    <3> QED
      BY <3>1, <3>2, <3>3
  <2> QED
    BY <1>4, <2>3
<1>6. g.root # NULL /\ g.red[g.root] => g.root = at
  BY <1>2 DEF MeetsTurned
<1> QED
  BY <1>2, <1>5, <1>6 DEF Apart

\* A count carries over to a node that looks the same.
LEMMA SameCount ==
  ASSUME NEW h, NEW g, NEW H, NEW K, NEW q, NEW u, NEW v, NEW w, NEW a, NEW t,
         Count(h, H, q, u, a, t), K[a] = H[a], K[g.kid[a][t]] = H[h.kid[a][t]], g.red[a] = h.red[a],
         (a = q /\ t = u) <=> (a = v /\ t = w)
  PROVE  Count(g, K, v, w, a, t)
<1>1. H[a] = H[h.kid[a][t]] + (IF a = q /\ t = u THEN 1 ELSE 0) + (IF h.red[a] THEN 0 ELSE 1)
  BY DEF Count
<1>2. (IF h.red[a] THEN 0 ELSE 1) = (IF g.red[a] THEN 0 ELSE 1)
  OBVIOUS
<1>3. (IF a = q /\ t = u THEN 1 ELSE 0) = (IF a = v /\ t = w THEN 1 ELSE 0)
  OBVIOUS
<1>4. K[a] = K[g.kid[a][t]] + (IF a = v /\ t = w THEN 1 ELSE 0) + (IF g.red[a] THEN 0 ELSE 1)
  BY <1>1, <1>2, <1>3, Zenon
<1> QED
  BY <1>4 DEF Count

\* A red leaf changes no count.
LEMMA JoinColours ==
  ASSUME NEW h, NEW D, Shape(h, D), NEW n \in Node, n \notin In(h), NEW p \in Pointer, NEW s \in Side,
         p # NULL => p \in In(h) /\ h.kid[p][s] = NULL,
         NEW g, Joined(h, g, n, p, s), In(g) = In(h) \cup {n},
         NEW H, NEW u, Balanced(h, H, NULL, u), Apart(h, NULL, FALSE)
  PROVE  Balanced(g, [H EXCEPT ![n] = 0], NULL, u) /\ Apart(g, n, FALSE) /\ g.red[n]
<1> DEFINE K == [H EXCEPT ![n] = 0]
<1>1. n \in Pointer /\ NULL \in Pointer /\ n # NULL
  BY NodeAssumption DEF Pointer
<1>2. K \in [Pointer -> Nat] /\ K[NULL] = 0 /\ K[n] = 0 /\ \A b \in Pointer : b # n => K[b] = H[b]
  BY <1>1 DEF Balanced
<1>3. H \in [Pointer -> Nat] /\ H[NULL] = 0 /\ \A a \in In(h), t \in Side : Count(h, H, NULL, u, a, t)
  BY DEF Balanced
<1> HIDE DEF K
<1>4. g.red[n] /\ \A t \in Side : g.kid[n][t] = NULL
  BY DEF Joined
<1>5. ASSUME NEW a \in In(h), NEW t \in Side
      PROVE  /\ a \in Node /\ a # n /\ a \in Pointer /\ a # NULL /\ h.kid[a][t] \in Pointer /\ h.kid[a][t] # n
             /\ g.red[a] = h.red[a]
             /\ g.kid[a][t] = IF a = p /\ t = s THEN n ELSE h.kid[a][t]
  <2>1. a \in Node /\ a # n /\ h.kid[a][t] \in Pointer /\ a \in Pointer /\ a # NULL
    BY BelowIs, NodeAssumption DEF In, Pointer
  <2>2. h.kid[a][t] # n
    BY <1>1, <2>1, KidIs
  <2> QED
    BY <2>1, <2>2 DEF Joined
<1>6. ASSUME NEW a \in In(h), NEW t \in Side PROVE Count(g, K, NULL, u, a, t)
  <2>1. K[a] = H[a]
    BY <1>2, <1>5
  <2>2. K[g.kid[a][t]] = H[h.kid[a][t]]
    <3>1. CASE a = p /\ t = s
      BY <1>2, <1>3, <1>5, <3>1
    <3>2. CASE ~ (a = p /\ t = s)
      BY <1>2, <1>5, <3>2
    <3> QED
      BY <3>1, <3>2
  <2>3. Count(h, H, NULL, u, a, t) /\ g.red[a] = h.red[a]
    BY <1>3, <1>5
  <2> QED
    BY <2>1, <2>2, <2>3, SameCount
<1>7. ASSUME NEW t \in Side PROVE Count(g, K, NULL, u, n, t)
  <2>1. K[n] = 0 /\ K[g.kid[n][t]] = 0
    BY <1>2, <1>4
  <2> QED
    BY <1>1, <1>4, <2>1 DEF Count
<1>8. Balanced(g, K, NULL, u)
  BY <1>2, <1>6, <1>7 DEF Balanced
<1>9. ASSUME NEW a \in In(h), NEW t \in Side PROVE Meets(g, n, FALSE, a, g.kid[a][t])
  <2>1. Meets(h, NULL, FALSE, a, h.kid[a][t])
    BY DEF Apart
  <2>2. g.kid[a][t] = n \/ g.kid[a][t] = h.kid[a][t]
    BY <1>5
  <2>3. h.kid[a][t] # NULL => h.kid[a][t] \in In(h) /\ g.red[h.kid[a][t]] = h.red[h.kid[a][t]]
    <3>1. h.kid[a][t] # NULL => h.kid[a][t] \in In(h)
      BY <1>5, KidIs
    <3> QED
      BY <1>5, <3>1
  <2>4. h.kid[a][t] # NULL => (g.red[h.kid[a][t]] <=> h.red[h.kid[a][t]])
    BY <2>3
  <2>5. g.red[a] <=> h.red[a]
    BY <1>5
  <2> QED
    BY <2>1, <2>2, <2>4, <2>5, Zenon DEF Meets, Black
<1>10. \A t \in Side : Meets(g, n, FALSE, n, g.kid[n][t])
  BY <1>4 DEF Meets, Black
<1>11. g.root # NULL /\ g.red[g.root] => g.root = n
  <2>1. CASE p = NULL
    BY <2>1 DEF Joined
  <2>2. CASE p # NULL
    <3>1. g.root = h.root
      BY <2>2 DEF Joined
    <3>2. h.root # NULL => h.root \in In(h)
      BY DEF Shape, Linked
    <3>3. h.root # NULL => ~ h.red[h.root]
      BY DEF Apart
    <3>4. h.root # NULL => (g.red[h.root] <=> h.red[h.root])
      <4>1. "left" \in Side
        BY DEF Side
      <4> QED
        BY <1>5, <3>2, <4>1
    <3> QED
      BY <3>1, <3>3, <3>4
  <2> QED
    BY <2>1, <2>2
<1>12. Apart(g, n, FALSE)
  BY <1>9, <1>10, <1>11 DEF Apart
<1> QED
  BY <1>4, <1>8, <1>12 DEF K

\* So does what may meet.
LEMMA SameMeets ==
  ASSUME NEW h, NEW g, NEW at, NEW both, NEW a, NEW b, Meets(h, at, both, a, b),
         g.red[a] = h.red[a], b # NULL => g.red[b] = h.red[b]
  PROVE  Meets(g, at, both, a, b)
<1>1. g.red[a] <=> h.red[a]
  OBVIOUS
<1>2. b # NULL => (g.red[b] <=> h.red[b])
  OBVIOUS
<1> QED
  BY <1>1, <1>2, Zenon DEF Meets, Black

LEMMA StrictMeets ==
  ASSUME NEW h, NEW at, NEW both, NEW a, NEW b, Meets(h, NULL, FALSE, a, b)
  PROVE  Meets(h, at, both, a, b)
BY DEF Meets, Black

\* What unlinking n, with c its only child, leaves of the colours.
CutKept(h, g, H, u, n, c) ==
  /\ Apart(g, c, TRUE)
  /\ h.red[n] => c = NULL /\ Balanced(g, H, NULL, u) /\ Apart(g, NULL, FALSE)
  /\ ~ h.red[n] /\ h.up[n] = NULL => Balanced(g, H, NULL, u)
  /\ ~ h.red[n] /\ h.up[n] # NULL => Balanced(g, H, h.up[n], SideOf(h, n, h.up[n]))

\* The child of a black node that is taken out is a black short; a red node
\* that is taken out has no child.
LEMMA CutColours ==
  ASSUME NEW h, NEW D, Shape(h, D), NEW n \in In(h), NEW c, OnlyChild(h, n, c),
         NEW g, Cut1(h, g, n, c), In(g) = In(h) \ {n},
         NEW H, NEW u, Balanced(h, H, NULL, u), Apart(h, NULL, FALSE)
  PROVE  CutKept(h, g, H, u, n, c)
<1> DEFINE p == h.up[n]
           s == SideOf(h, n, p)
<1>1. /\ n \in Node /\ p \in Pointer /\ (p # NULL => p \in Node /\ s \in Side) /\ (p = NULL <=> h.root = n)
      /\ \A a \in Node, t \in Side : h.kid[a][t] = n <=> a = p /\ t = s
  BY PlaceIs
<1> HIDE DEF p, s
<1>2. PICK t0 \in Side : h.kid[n][t0] = c /\ h.kid[n][Other(t0)] = NULL
  BY DEF OnlyChild
<1>3. c \in Pointer /\ (c # NULL => c \in In(h) /\ c # n)
  BY <1>1, <1>2, BelowIs, KidIs
<1>4. H \in [Pointer -> Nat] /\ H[NULL] = 0 /\ \A a \in In(h), t \in Side : Count(h, H, NULL, u, a, t)
  BY DEF Balanced
<1>5. Other(t0) \in Side /\ n # NULL /\ H[c] \in Nat /\ H[n] \in Nat
  BY <1>1, <1>3, <1>4, Sides, NodeAssumption DEF Pointer
<1>6. H[n] = H[c] + (IF h.red[n] THEN 0 ELSE 1) /\ H[n] = (IF h.red[n] THEN 0 ELSE 1)
  <2>1. Count(h, H, NULL, u, n, t0) /\ Count(h, H, NULL, u, n, Other(t0))
    BY <1>4, <1>5
  <2> QED
    BY <1>2, <1>4, <1>5, <2>1 DEF Count
<1>7. ASSUME NEW a \in In(g), NEW t \in Side
      PROVE  /\ a \in In(h) /\ a \in Node /\ a # n /\ a # NULL /\ h.kid[a][t] \in Pointer
             /\ g.red[a] = h.red[a]
             /\ g.kid[a][t] = IF h.kid[a][t] = n THEN c ELSE h.kid[a][t]
             /\ h.kid[a][t] # n /\ h.kid[a][t] # NULL => h.kid[a][t] \in In(g)
  <2>1. a \in In(h) /\ a \in Node /\ a # n /\ h.kid[a][t] \in Pointer /\ a # NULL
    BY BelowIs, NodeAssumption DEF In
  <2>2. h.kid[a][t] # n /\ h.kid[a][t] # NULL => h.kid[a][t] \in In(g)
    BY <2>1, KidIs
  <2> QED
    BY <2>1, <2>2 DEF Cut1
<1>8. c # NULL => g.red[c] = h.red[c] /\ c \in In(g)
  BY <1>1, <1>3 DEF Cut1, In
<1>9. \A b \in In(g) : g.red[b] = h.red[b]
  BY DEF Cut1, In
<1>10. ASSUME NEW a \in In(g), NEW t \in Side PROVE g.kid[a][t] = c \/ Meets(g, NULL, FALSE, a, g.kid[a][t])
  <2>1. CASE h.kid[a][t] = n
    BY <1>7, <2>1
  <2>2. CASE h.kid[a][t] # n
    <3>1. g.kid[a][t] = h.kid[a][t] /\ g.red[a] = h.red[a]
      BY <1>7, <2>2
    <3>2. h.kid[a][t] # NULL => g.red[h.kid[a][t]] = h.red[h.kid[a][t]]
      BY <1>7, <1>9, <2>2
    <3>3. Meets(h, NULL, FALSE, a, h.kid[a][t])
      BY <1>7 DEF Apart
    <3> QED
      BY <3>1, <3>2, <3>3, SameMeets
  <2> QED
    BY <2>1, <2>2
<1>11. g.root = c \/ (g.root # NULL => ~ g.red[g.root])
  <2>1. CASE h.root = n
    BY <2>1 DEF Cut1
  <2>2. CASE h.root # n /\ h.root # NULL
    <3>1. h.root \in In(h) /\ g.root = h.root
      BY <2>2 DEF Shape, Linked, Cut1
    <3>2. h.root \in In(g)
      BY <2>2, <3>1
    <3>3. ~ h.red[h.root]
      BY <2>2 DEF Apart
    <3>4. g.red[h.root] = h.red[h.root]
      BY <1>9, <3>2
    <3> QED
      BY <3>1, <3>3, <3>4
  <2>3. CASE h.root = NULL
    BY <1>1, <1>5, <2>3 DEF Cut1
  <2> QED
    BY <2>1, <2>2, <2>3
<1>12. Apart(g, c, TRUE)
  <2>1. \A a \in In(g), t \in Side : Meets(g, c, TRUE, a, g.kid[a][t])
    <3> SUFFICES ASSUME NEW a \in In(g), NEW t \in Side PROVE Meets(g, c, TRUE, a, g.kid[a][t])
      OBVIOUS
    <3>1. CASE g.kid[a][t] = c
      BY <3>1 DEF Meets
    <3>2. CASE Meets(g, NULL, FALSE, a, g.kid[a][t])
      BY <3>2, StrictMeets
    <3> QED
      BY <1>10, <3>1, <3>2
  <2> QED
    BY <1>11, <2>1 DEF Apart
<1>13. ASSUME c = NULL PROVE Apart(g, NULL, FALSE)
  <2>1. \A a \in In(g), t \in Side : Meets(g, NULL, FALSE, a, g.kid[a][t])
    BY <1>10, <1>13 DEF Meets
  <2> QED
    BY <1>11, <1>13, <2>1 DEF Apart
<1>14. h.red[n] => c = NULL
  <2> SUFFICES ASSUME h.red[n], c # NULL PROVE FALSE
    OBVIOUS
  <2>1. H[c] = 0
    BY <1>5, <1>6
  <2>2. Meets(h, NULL, FALSE, n, c)
    BY <1>2 DEF Apart
  <2>3. ~ h.red[c]
    BY <2>2 DEF Meets, Black
  <2> QED
    BY <1>3, <2>1, <2>3, BlackCounts
<1>15. ASSUME NEW q, NEW w, ~ h.red[n],
              \A a \in Node, t \in Side : (h.kid[a][t] = n <=> a = q /\ t = w)
       PROVE  Balanced(g, H, q, w)
  <2> SUFFICES ASSUME NEW a \in In(g), NEW t \in Side PROVE Count(g, H, q, w, a, t)
    BY <1>4 DEF Balanced
  <2>1. Count(h, H, NULL, u, a, t)
    BY <1>4, <1>7
  <2>2. H[h.kid[a][t]] \in Nat
    BY <1>4, <1>7
  <2> DEFINE e == IF h.red[a] THEN 0 ELSE 1
  <2>3. H[a] = H[h.kid[a][t]] + e
    BY <1>7, <2>1, <2>2 DEF Count
  <2>4. e = (IF g.red[a] THEN 0 ELSE 1) /\ e \in Nat
    BY <1>7
  <2> HIDE DEF e
  <2>5. H[a] = H[g.kid[a][t]] + (IF a = q /\ t = w THEN 1 ELSE 0) + e
    <3>1. CASE h.kid[a][t] = n
      <4>1. g.kid[a][t] = c /\ a = q /\ t = w
        BY <1>7, <1>15, <3>1
      <4> QED
        BY <1>5, <1>6, <1>15, <2>3, <2>4, <3>1, <4>1
    <3>2. CASE h.kid[a][t] # n
      <4>1. g.kid[a][t] = h.kid[a][t] /\ ~ (a = q /\ t = w)
        BY <1>7, <1>15, <3>2
      <4> QED
        BY <2>2, <2>3, <2>4, <4>1
    <3> QED
      BY <3>1, <3>2
  <2> QED
    BY <2>4, <2>5 DEF Count
<1>16. ASSUME h.red[n] PROVE Balanced(g, H, NULL, u)
  <2> SUFFICES ASSUME NEW a \in In(g), NEW t \in Side PROVE Count(g, H, NULL, u, a, t)
    BY <1>4 DEF Balanced
  <2>1. Count(h, H, NULL, u, a, t) /\ g.red[a] = h.red[a]
    BY <1>4, <1>7
  <2>2. H[n] = H[c]
    BY <1>5, <1>6, <1>16
  <2>3. H[g.kid[a][t]] = H[h.kid[a][t]]
    BY <1>7, <2>2
  <2> QED
    BY <2>1, <2>3, SameCount
<1>17. ASSUME ~ h.red[n], p = NULL PROVE Balanced(g, H, NULL, u)
  <2>1. \A a \in Node, t \in Side : (h.kid[a][t] = n <=> a = NULL /\ t = u)
    BY <1>1, <1>17, NodeAssumption
  <2> QED
    BY <1>15, <1>17, <2>1
<1>18. ASSUME ~ h.red[n] PROVE Balanced(g, H, p, s)
  BY <1>1, <1>15, <1>18
<1> QED
  BY <1>12, <1>13, <1>14, <1>16, <1>17, <1>18 DEF CutKept, p, s

\* A node that takes the place of another one takes its colour and its count.
LEMMA SwapColours ==
  ASSUME NEW h, NEW D, Shape(h, D), NEW m \in In(h), NEW n \in Node \ In(h),
         NEW g, Swapped(h, g, m, n), In(g) = (In(h) \ {m}) \cup {n},
         NEW H, NEW q, q # n, NEW u, Balanced(h, H, q, u)
  PROVE  /\ Balanced(g, [H EXCEPT ![n] = H[m]], IF q = m THEN n ELSE q, u)
         /\ \A at, both : at # m /\ at # n /\ Apart(h, at, both) => Apart(g, at, both)
<1> DEFINE K == [H EXCEPT ![n] = H[m]]
           v == IF q = m THEN n ELSE q
<1>1. n \in Pointer /\ m \in Pointer /\ NULL \in Pointer /\ n # NULL /\ m # NULL /\ m # n /\ m \in Node
  BY NodeAssumption DEF Pointer, In
<1>2. H \in [Pointer -> Nat] /\ H[NULL] = 0 /\ \A a \in In(h), t \in Side : Count(h, H, q, u, a, t)
  BY DEF Balanced
<1>3. K \in [Pointer -> Nat] /\ K[NULL] = 0 /\ K[n] = H[m] /\ \A b \in Pointer : b # n => K[b] = H[b]
  BY <1>1, <1>2
<1>4. \A a \in Node : a # m /\ a # n => (a = q <=> a = v)
  BY <1>1
<1>5. m = q <=> n = v
  BY <1>1
<1> HIDE DEF K, v
<1>6. ASSUME NEW a \in In(h), NEW t \in Side
      PROVE  /\ a \in Node /\ a # n /\ a \in Pointer /\ h.kid[a][t] \in Pointer /\ h.kid[a][t] # n
             /\ h.kid[a][t] # NULL => h.kid[a][t] \in In(h)
             /\ h.kid[m][t] # m
  <2>1. a \in Node /\ a # n /\ h.kid[a][t] \in Pointer /\ a \in Pointer /\ h.kid[m][t] \in Pointer
    BY <1>1, BelowIs DEF In, Pointer
  <2>2. h.kid[a][t] # NULL => h.kid[a][t] \in In(h)
    BY <2>1, KidIs
  <2>3. h.kid[m][t] # NULL => h.kid[m][t] # m
    BY <1>1, KidIs
  <2> QED
    BY <1>1, <2>1, <2>2, <2>3
<1>7. g.red[n] = h.red[m] /\ \A t \in Side : g.kid[n][t] = h.kid[m][t]
  BY <1>1 DEF Swapped
<1>8. ASSUME NEW a \in In(h), a # m, NEW t \in Side
      PROVE  g.red[a] = h.red[a] /\ g.kid[a][t] = IF h.kid[a][t] = m THEN n ELSE h.kid[a][t]
  BY <1>6, <1>8 DEF Swapped
<1>9. ASSUME NEW a \in In(g), NEW t \in Side PROVE Count(g, K, v, u, a, t)
  <2>1. CASE a = n
    <3>1. K[g.kid[n][t]] = H[h.kid[m][t]]
      BY <1>3, <1>6, <1>7
    <3>2. H[m] = H[h.kid[m][t]] + (IF m = q /\ t = u THEN 1 ELSE 0) + (IF h.red[m] THEN 0 ELSE 1)
      BY <1>2 DEF Count
    <3>3. (IF m = q /\ t = u THEN 1 ELSE 0) = (IF n = v /\ t = u THEN 1 ELSE 0)
      BY <1>5
    <3>4. (IF h.red[m] THEN 0 ELSE 1) = (IF g.red[n] THEN 0 ELSE 1)
      BY <1>7
    <3>5. K[n] = K[g.kid[n][t]] + (IF n = v /\ t = u THEN 1 ELSE 0) + (IF g.red[n] THEN 0 ELSE 1)
      BY <1>3, <3>1, <3>2, <3>3, <3>4, Zenon
    <3> QED
      BY <2>1, <3>5 DEF Count
  <2>2. CASE a # n
    <3>1. a \in In(h) /\ a # m
      BY <2>2
    <3>2. K[a] = H[a] /\ K[g.kid[a][t]] = H[h.kid[a][t]] /\ g.red[a] = h.red[a]
      <4>1. CASE h.kid[a][t] = m
        BY <1>3, <1>6, <1>8, <3>1, <4>1
      <4>2. CASE h.kid[a][t] # m
        BY <1>3, <1>6, <1>8, <3>1, <4>2
      <4> QED
        BY <4>1, <4>2
    <3>3. Count(h, H, q, u, a, t)
      BY <1>2, <3>1
    <3>4. a = q <=> a = v
      BY <1>4, <1>6, <3>1
    <3> QED
      BY <3>2, <3>3, <3>4, SameCount
  <2> QED
    BY <2>1, <2>2
<1>10. Balanced(g, K, v, u)
  BY <1>3, <1>9 DEF Balanced
<1>11. ASSUME NEW at, NEW both, at # m, at # n, Apart(h, at, both) PROVE Apart(g, at, both)
  <2>1. ASSUME NEW a \in In(h), a # m, NEW t \in Side PROVE Meets(g, at, both, a, g.kid[a][t])
    <3>1. Meets(h, at, both, a, h.kid[a][t]) /\ g.red[a] = h.red[a]
      BY <1>8, <1>11, <2>1 DEF Apart
    <3>2. CASE h.kid[a][t] = m
      <4>1. g.kid[a][t] = n
        BY <1>8, <2>1, <3>2
      <4>2. (g.red[n] <=> h.red[m]) /\ (g.red[a] <=> h.red[a])
        BY <1>7, <3>1
      <4> QED
        BY <1>1, <1>11, <3>1, <3>2, <4>1, <4>2, Zenon DEF Meets, Black
    <3>3. CASE h.kid[a][t] # m
      <4>1. g.kid[a][t] = h.kid[a][t]
        BY <1>8, <2>1, <3>3
      <4>2. h.kid[a][t] # NULL => g.red[h.kid[a][t]] = h.red[h.kid[a][t]]
        <5>1. h.kid[a][t] # NULL => h.kid[a][t] \in In(h)
          BY <1>6
        <5> QED
          BY <1>8, <3>3, <5>1
      <4> QED
        BY <3>1, <4>1, <4>2, SameMeets
    <3> QED
      BY <3>2, <3>3
  <2>2. ASSUME NEW t \in Side PROVE Meets(g, at, both, n, g.kid[n][t])
    <3>1. Meets(h, at, both, m, h.kid[m][t]) /\ g.kid[n][t] = h.kid[m][t]
      BY <1>7, <1>11 DEF Apart
    <3>2. (g.red[n] <=> h.red[m])
      BY <1>7
    <3>3. h.kid[m][t] # NULL => (g.red[h.kid[m][t]] <=> h.red[h.kid[m][t]])
      <4>1. h.kid[m][t] # m /\ (h.kid[m][t] # NULL => h.kid[m][t] \in In(h))
        BY <1>6
      <4>2. h.kid[m][t] # NULL => g.red[h.kid[m][t]] = h.red[h.kid[m][t]]
        BY <1>8, <4>1
      <4> QED
        BY <4>2
    <3>4. ~ (both /\ m = at)
      BY <1>11
    <3> QED
      BY <3>1, <3>2, <3>3, <3>4, Zenon DEF Meets, Black
  <2>3. g.root # NULL /\ g.red[g.root] => g.root = at
    <3>1. h.root # NULL /\ h.red[h.root] => h.root = at
      BY <1>11 DEF Apart
    <3>2. CASE h.root = m
      <4>1. g.root = n /\ (g.red[n] <=> h.red[m])
        BY <1>7, <3>2 DEF Swapped
      <4> QED
        BY <1>1, <1>11, <3>1, <3>2, <4>1
    <3>3. CASE h.root # m
      <4>1. g.root = h.root /\ (h.root # NULL => h.root \in In(h))
        BY <3>3 DEF Swapped, Shape, Linked
      <4>2. h.root # NULL => g.red[h.root] = h.red[h.root]
        <5>1. "left" \in Side
          BY DEF Side
        <5> QED
          BY <1>8, <3>3, <4>1, <5>1
      <4> QED
        BY <3>1, <4>1, <4>2
    <3> QED
      BY <3>2, <3>3
  <2>4. \A a \in In(g), t \in Side : Meets(g, at, both, a, g.kid[a][t])
    BY <2>1, <2>2
  <2> QED
    BY <2>3, <2>4 DEF Apart
<1> QED
  BY <1>10, <1>11 DEF K, v

(***************************************************************************)
(* The rounds of rb_insert_color.                                          *)
(***************************************************************************)
\* A red node n with a red parent p, which is on side s of g.
Clash(h, n, p, g, s) ==
  /\ n \in Node /\ p \in Node /\ g \in Node /\ n \in In(h) /\ p \in In(h) /\ g \in In(h)
  /\ p # n /\ g # p /\ g # n
  /\ h.up[n] = p /\ h.up[p] = g
  /\ h.red[n] /\ h.red[p] /\ ~ h.red[g]
  /\ s \in Side /\ h.kid[g][s] = p
  /\ \E t \in Side : h.kid[p][t] = n

\* Where a red node has a red parent there is a black grandparent.
LEMMA Grandparent ==
  ASSUME NEW h, NEW D, Shape(h, D), NEW n \in In(h), h.red[n], Apart(h, n, FALSE), ~ Black(h, h.up[n])
  PROVE  Clash(h, n, h.up[n], h.up[h.up[n]], SideOf(h, h.up[n], h.up[h.up[n]]))
<1> DEFINE p == h.up[n]
           g == h.up[p]
           s == SideOf(h, p, g)
<1>0. p = h.up[n] /\ g = h.up[p] /\ s = SideOf(h, p, g)
  OBVIOUS
<1> HIDE DEF p, g, s
<1>1. p # NULL /\ h.red[p]
  BY <1>0 DEF Black
<1>2. n \in Node /\ p \in In(h) /\ p \in Node /\ p # n /\ \E t \in Side : h.kid[p][t] = n
  BY <1>0, <1>1, PlaceIs
<1>3. h.root # p
  BY <1>1, <1>2 DEF Apart
<1>4. g # NULL /\ g \in In(h) /\ g \in Node /\ g # p /\ s \in Side /\ h.kid[g][s] = p
  <2>1. h.up[p] # NULL
    BY <1>2, <1>3, PlaceIs
  <2> QED
    BY <1>0, <1>2, <2>1, PlaceIs
<1>5. Meets(h, n, FALSE, g, p)
  BY <1>4 DEF Apart
<1>6. ~ h.red[g]
  BY <1>1, <1>2, <1>5 DEF Meets, Black
<1>7. g # n
  BY <1>6
<1>8. Clash(h, n, p, g, s)
  BY <1>0, <1>1, <1>2, <1>4, <1>6, <1>7 DEF Clash
<1> QED
  BY <1>8 DEF p, g, s

\* A red uncle: the colours of the three are swapped and no count changes.
LEMMA RecolourColours ==
  ASSUME NEW h, NEW D, Shape(h, D), NEW n, NEW p, NEW g, NEW s, Clash(h, n, p, g, s), Apart(h, n, FALSE),
         NEW H, NEW w, Balanced(h, H, NULL, w), ~ Black(h, h.kid[g][Other(s)])
  PROVE  LET u == h.kid[g][Other(s)]
             k == Paint(Paint(Paint(h, u, FALSE), p, FALSE), g, TRUE)
         IN /\ Shape(k, D) /\ In(k) = In(h)
            /\ Balanced(k, [H EXCEPT ![p] = @ + 1, ![u] = @ + 1], NULL, w)
            /\ Apart(k, g, FALSE) /\ k.red[g] /\ g \in In(k)
<1> DEFINE u == h.kid[g][Other(s)]
           k == Paint(Paint(Paint(h, u, FALSE), p, FALSE), g, TRUE)
           K == [H EXCEPT ![p] = @ + 1, ![u] = @ + 1]
<1>1. /\ n \in Node /\ p \in Node /\ g \in Node /\ p \in In(h) /\ g \in In(h) /\ p # n /\ g # p /\ g # n
      /\ h.red[p] /\ ~ h.red[g] /\ s \in Side /\ h.kid[g][s] = p
  BY DEF Clash
<1>2. u # NULL /\ h.red[u]
  BY DEF Black
<1>3. k = Paint(Paint(Paint(h, u, FALSE), p, FALSE), g, TRUE) /\ h.up[n] = p /\ h.kid[g][Other(s)] = u /\ h.up[p] = g
  BY DEF Clash
<1>4. K = [H EXCEPT ![p] = @ + 1, ![u] = @ + 1]
  OBVIOUS
<1> HIDE DEF u, k, K
<1>5. Other(s) \in Side /\ Other(s) # s /\ \A t \in Side : t = s \/ t = Other(s)
  BY <1>1, Sides
<1>6. u \in In(h) /\ u \in Node /\ u # p /\ u # g /\ h.up[u] = g
  <2>1. u = h.kid[g][Other(s)]
    BY <1>3
  <2> QED
    BY <1>1, <1>2, <1>5, <2>1, KidIs
<1>7. k \in Heap /\ k.root = h.root /\ k.up = h.up /\ k.kid = h.kid
      /\ \A a \in Node : IF a = g THEN k.red[a] ELSE IF a = p \/ a = u THEN ~ k.red[a] ELSE k.red[a] = h.red[a]
  <2> DEFINE k1 == Paint(h, u, FALSE)
             k2 == Paint(k1, p, FALSE)
  <2>1. h \in Heap
    BY DEF Shape
  <2>2. k = Paint(k2, g, TRUE)
    BY <1>3
  <2>3. Blackened(h, k1, u)
    BY <2>1, PaintIs
  <2>4. k1 \in Heap
    BY <2>3 DEF Blackened
  <2> HIDE DEF k1
  <2>5. Blackened(k1, k2, p)
    BY <2>4, PaintIs
  <2>6. k2 \in Heap
    BY <2>5 DEF Blackened
  <2> HIDE DEF k2
  <2>7. Reddened(k2, k, g)
    BY <2>2, <2>6, PaintIs
  <2> QED
    BY <2>3, <2>5, <2>7 DEF Blackened, Reddened
<1>8. Shape(k, D) /\ In(k) = In(h)
  BY <1>7, SameLinks
<1>9. H \in [Pointer -> Nat] /\ H[NULL] = 0 /\ \A a \in In(h), t \in Side : Count(h, H, NULL, w, a, t)
  BY DEF Balanced
<1>10. p \in Pointer /\ u \in Pointer /\ NULL \in Pointer /\ NULL # p /\ NULL # u
  BY <1>1, <1>6, NodeAssumption DEF Pointer
<1>11. K \in [Pointer -> Nat] /\ \A b \in Pointer : K[b] = IF b = p \/ b = u THEN H[b] + 1 ELSE H[b]
  BY <1>4, <1>6, <1>9, <1>10
<1>12. ASSUME NEW a \in In(h), NEW t \in Side
       PROVE  /\ a \in Node /\ a # NULL /\ a \in Pointer /\ h.kid[a][t] \in Pointer
              /\ h.kid[a][t] # NULL => h.up[h.kid[a][t]] = a /\ h.kid[a][t] \in Node
              /\ a = g => h.kid[a][t] = p \/ h.kid[a][t] = u
              /\ a # g => h.kid[a][t] # p /\ h.kid[a][t] # u
  <2>1. a \in Node /\ a # NULL /\ a \in Pointer /\ h.kid[a][t] \in Pointer
    BY BelowIs, NodeAssumption DEF In, Pointer
  <2>2. h.kid[a][t] # NULL => h.up[h.kid[a][t]] = a /\ h.kid[a][t] \in Node
    BY <2>1, KidIs
  <2>3. a = g => h.kid[a][t] = p \/ h.kid[a][t] = u
    BY <1>1, <1>3, <1>5
  <2>4. h.up[p] = g /\ h.up[u] = g
    BY <1>3, <1>6
  <2> QED
    BY <1>10, <2>1, <2>2, <2>3, <2>4
<1>13. ASSUME NEW a \in In(h), NEW t \in Side PROVE Count(k, K, NULL, w, a, t)
  <2>1. H[a] = H[h.kid[a][t]] + (IF h.red[a] THEN 0 ELSE 1) /\ H[h.kid[a][t]] \in Nat
    BY <1>9, <1>12 DEF Count
  <2>2. k.kid[a][t] = h.kid[a][t] /\ a # NULL
    BY <1>7, <1>12
  <2>3. K[a] = K[h.kid[a][t]] + (IF k.red[a] THEN 0 ELSE 1)
    <3>1. CASE a = g
      <4>1. K[h.kid[a][t]] = H[h.kid[a][t]] + 1
        BY <1>11, <1>12, <3>1
      <4>2. k.red[a] /\ ~ h.red[a]
        BY <1>1, <1>7, <3>1
      <4>3. K[a] = H[a]
        BY <1>1, <1>6, <1>11, <1>12, <3>1
      <4> QED
        BY <2>1, <4>1, <4>2, <4>3
    <3>2. CASE a = p \/ a = u
      <4>1. a # g /\ h.red[a]
        BY <1>1, <1>2, <1>6, <3>2
      <4>2. ~ k.red[a]
        BY <1>7, <1>12, <3>2, <4>1
      <4>3. K[a] = H[a] + 1 /\ K[h.kid[a][t]] = H[h.kid[a][t]]
        BY <1>11, <1>12, <3>2, <4>1
      <4> QED
        BY <2>1, <4>1, <4>2, <4>3
    <3>3. CASE a # g /\ a # p /\ a # u
      <4>1. k.red[a] = h.red[a]
        BY <1>7, <1>12, <3>3
      <4>2. K[a] = H[a] /\ K[h.kid[a][t]] = H[h.kid[a][t]]
        BY <1>11, <1>12, <3>3
      <4> QED
        BY <2>1, <4>1, <4>2
    <3> QED
      BY <3>1, <3>2, <3>3
  <2>4. (IF a = NULL /\ t = w THEN 1 ELSE 0) = 0 /\ K[h.kid[a][t]] \in Nat
    BY <1>11, <1>12, <2>2
  <2> QED
    BY <2>2, <2>3, <2>4 DEF Count
<1>14. Balanced(k, K, NULL, w)
  BY <1>8, <1>9, <1>10, <1>11, <1>13 DEF Balanced
<1>15. ASSUME NEW a \in In(h), NEW t \in Side PROVE Meets(k, g, FALSE, a, k.kid[a][t])
  <2> DEFINE b == h.kid[a][t]
  <2>1. Meets(h, n, FALSE, a, b) /\ k.kid[a][t] = b
    BY <1>7 DEF Apart
  <2>2. a \in Node /\ (b # NULL => b \in Node /\ h.up[b] = a) /\ (a = g => b = p \/ b = u)
    BY <1>12
  <2> HIDE DEF b
  <2> SUFFICES ASSUME k.red[a], b # NULL, k.red[b], b # g PROVE FALSE
    BY <2>1 DEF Meets, Black
  <2>3. a # p /\ a # u /\ b # p /\ b # u /\ a # g
    BY <1>1, <1>6, <1>7, <2>2
  <2>4. h.red[a] /\ h.red[b]
    BY <1>7, <2>2, <2>3
  <2>5. b = n
    BY <2>1, <2>4 DEF Meets, Black
  <2> QED
    BY <1>3, <2>2, <2>3, <2>5
<1>16. k.root # NULL /\ k.red[k.root] => k.root = g
  <2> SUFFICES ASSUME h.root # NULL, k.red[h.root], h.root # g PROVE FALSE
    BY <1>7
  <2>1. h.root \in Node
    BY DEF Shape, Linked, In
  <2>2. h.red[h.root]
    BY <1>7, <2>1
  <2>3. h.root = n
    BY <2>2 DEF Apart
  <2>4. h.up[n] = NULL
    BY <2>3 DEF Shape, Linked
  <2> QED
    BY <1>3, <1>10, <2>4
<1>17. Apart(k, g, FALSE)
  BY <1>7, <1>8, <1>15, <1>16 DEF Apart
<1>18. k.red[g] /\ g \in In(k)
  BY <1>1, <1>7, <1>8
<1> QED
  BY <1>8, <1>14, <1>17, <1>18 DEF k, K, u

\* A node with no black missing, and its count.
LEMMA CountIs ==
  ASSUME NEW h, NEW D, Shape(h, D), NEW H, NEW w, Balanced(h, H, NULL, w), NEW n \in In(h), NEW t \in Side
  PROVE  /\ h.kid[n][t] \in Pointer /\ H[n] \in Nat /\ H[h.kid[n][t]] \in Nat
         /\ H[n] = H[h.kid[n][t]] + (IF h.red[n] THEN 0 ELSE 1)
<1>1. n \in Node /\ n # NULL /\ n \in Pointer /\ h.kid[n][t] \in Pointer
  BY BelowIs, NodeAssumption DEF In, Pointer
<1>2. H \in [Pointer -> Nat] /\ Count(h, H, NULL, w, n, t)
  BY DEF Balanced
<1>3. H[n] \in Nat /\ H[h.kid[n][t]] \in Nat
  BY <1>1, <1>2
<1>4. H[n] = H[h.kid[n][t]] + 0 + (IF h.red[n] THEN 0 ELSE 1)
  BY <1>1, <1>2 DEF Count
<1> QED
  BY <1>1, <1>3, <1>4

LEMMA CountOf ==
  ASSUME NEW h, NEW H, NEW w, NEW n, n # NULL, NEW t, H[h.kid[n][t]] \in Nat,
         H[n] = H[h.kid[n][t]] + (IF h.red[n] THEN 0 ELSE 1)
  PROVE  Count(h, H, NULL, w, n, t)
BY DEF Count

\* The first rotation of a round: the red node and its red parent change places.
InnerKept(h, k, D, H, w, n, p, g, s) ==
  /\ Shape(k, TurnedBelow(h, D, p, s)) /\ In(k) = In(h)
  /\ Balanced(k, H, NULL, w) /\ Apart(k, p, FALSE)
  /\ k.red = h.red /\ Clash(k, p, n, g, s)
  /\ k.kid[n][s] = p /\ k.kid[g][Other(s)] = h.kid[g][Other(s)]

LEMMA InnerTurn ==
  ASSUME NEW h, NEW D, Shape(h, D), NEW n, NEW p, NEW g, NEW s, Clash(h, n, p, g, s), Apart(h, n, FALSE),
         NEW H, NEW w, Balanced(h, H, NULL, w), h.kid[p][Other(s)] = n,
         NEW k, k = Rotate(h, p, s)
  PROVE  InnerKept(h, k, D, H, w, n, p, g, s)
<1>1. /\ n \in Node /\ p \in Node /\ g \in Node /\ p \in In(h) /\ g \in In(h) /\ p # n /\ g # p /\ g # n
      /\ h.red[p] /\ ~ h.red[g] /\ s \in Side /\ h.kid[g][s] = p
      /\ h.red[n] /\ h.up[p] = g /\ h.up[n] = p /\ n \in In(h)
  BY DEF Clash
<1> DEFINE x == h.kid[n][s]
           y == h.kid[p][s]
<1>2. Other(s) \in Side /\ Other(s) # s /\ \A t \in Side : t = s \/ t = Other(s)
  BY <1>1, Sides
<1>3. n # NULL /\ p # NULL /\ g # NULL /\ h.kid[p][Other(s)] # NULL
  BY <1>1, NodeAssumption
<1>4. Turned(h, k, p, s)
  BY <1>1, <1>3, RotateIs
<1>5. Shape(k, TurnedBelow(h, D, p, s)) /\ In(k) = In(h)
  BY <1>1, <1>3, <1>4, RotateShape
<1>6. /\ k.red = h.red /\ k.up[p] = n /\ k.up[n] = g
      /\ \A t \in Side : k.kid[p][t] = IF t = s THEN y ELSE x
      /\ \A t \in Side : k.kid[n][t] = IF t = s THEN p ELSE h.kid[n][t]
      /\ \A t \in Side : k.kid[g][t] = IF h.kid[g][t] = p THEN n ELSE h.kid[g][t]
  <2>1. k.red = h.red
    BY <1>4, Zenon DEF Turned
  <2>2. k.up[p] = h.kid[p][Other(s)] /\ k.up[h.kid[p][Other(s)]] = h.up[p]
    BY <1>1, <1>4 DEF Turned
  <2>3. \A a \in Node, t \in Side : k.kid[a][t] = IF a = p THEN IF t = s THEN h.kid[p][t] ELSE h.kid[h.kid[p][Other(s)]][s]
                         ELSE IF a = h.kid[p][Other(s)] THEN IF t = s THEN p ELSE h.kid[h.kid[p][Other(s)]][t]
                         ELSE IF h.kid[a][t] = p THEN h.kid[p][Other(s)] ELSE h.kid[a][t]
    BY <1>4 DEF Turned
  <2> DEFINE m == h.kid[p][Other(s)]
  <2>4. m = n
    OBVIOUS
  <2>5. \A a \in Node, t \in Side : k.kid[a][t] = IF a = p THEN IF t = s THEN h.kid[p][t] ELSE h.kid[m][s]
                         ELSE IF a = m THEN IF t = s THEN p ELSE h.kid[m][t]
                         ELSE IF h.kid[a][t] = p THEN m ELSE h.kid[a][t]
    BY <2>3
  <2>6. k.up[p] = m /\ k.up[m] = h.up[p]
    BY <2>2
  <2> HIDE DEF m
  <2>7. \A t \in Side : k.kid[p][t] = IF t = s THEN h.kid[p][t] ELSE h.kid[m][s]
    BY <1>1, <2>5
  <2>8. \A t \in Side : k.kid[m][t] = IF t = s THEN p ELSE h.kid[m][t]
    BY <1>1, <2>4, <2>5
  <2>9. \A t \in Side : k.kid[g][t] = IF h.kid[g][t] = p THEN m ELSE h.kid[g][t]
    BY <1>1, <2>4, <2>5
  <2> QED
    BY <1>1, <2>1, <2>4, <2>6, <2>7, <2>8, <2>9
<1>7. \A t \in Side : h.kid[g][t] = p <=> t = s
  <2>1. h.kid[g][s] # NULL /\ h.kid[g][s] = p
    BY <1>1, <1>3
  <2> QED
    BY <1>1, <2>1, SideIs
<1>8. k.kid[n][s] = p /\ k.kid[g][s] = n /\ k.kid[g][Other(s)] = h.kid[g][Other(s)]
  BY <1>1, <1>2, <1>6, <1>7
<1>9. /\ H[n] \in Nat /\ H[p] \in Nat /\ H[x] = H[n] /\ H[y] = H[p] /\ H[n] = H[p]
      /\ H[h.kid[n][Other(s)]] = H[n]
  <2>1. /\ H[n] \in Nat /\ H[x] \in Nat /\ H[h.kid[n][Other(s)]] \in Nat
        /\ H[n] = H[x] + (IF h.red[n] THEN 0 ELSE 1)
        /\ H[n] = H[h.kid[n][Other(s)]] + (IF h.red[n] THEN 0 ELSE 1)
    BY <1>1, <1>2, CountIs
  <2>2. /\ H[p] \in Nat /\ H[y] \in Nat
        /\ H[p] = H[y] + (IF h.red[p] THEN 0 ELSE 1)
        /\ H[p] = H[h.kid[p][Other(s)]] + (IF h.red[p] THEN 0 ELSE 1)
    BY <1>1, <1>2, CountIs
  <2> QED
    BY <1>1, <2>1, <2>2
<1>10. Balanced(k, H, NULL, w)
  <2>1. H \in [Pointer -> Nat] /\ H[NULL] = 0 /\ \A a \in In(h), t \in Side : Count(h, H, NULL, w, a, t)
    BY DEF Balanced
  <2>2. k.kid[p][s] = y /\ k.kid[p][Other(s)] = x /\ k.kid[n][s] = p /\ k.kid[n][Other(s)] = h.kid[n][Other(s)]
    BY <1>1, <1>2, <1>6
  <2>3. k.red[p] /\ k.red[n]
    BY <1>1, <1>6
  <2> HIDE DEF x, y
  <2>4. \A t \in Side : Count(k, H, NULL, w, p, t) /\ Count(k, H, NULL, w, n, t)
    <3> SUFFICES ASSUME NEW t \in Side PROVE Count(k, H, NULL, w, p, t) /\ Count(k, H, NULL, w, n, t)
      OBVIOUS
    <3>1. H[k.kid[p][t]] = H[p] /\ H[k.kid[n][t]] = H[n]
      BY <1>2, <1>9, <2>2
    <3> QED
      BY <1>3, <1>9, <2>3, <3>1, CountOf
  <2>5. \A a \in Pointer : a # p /\ a # h.kid[p][Other(s)] => H[a] = H[a]
    OBVIOUS
  <2>6. \A a \in In(h), t \in Side : a # p /\ a # h.kid[p][Other(s)] => Count(h, H, NULL, w, a, t)
    BY <2>1
  <2>7. H[h.kid[p][Other(s)]] = H[p] /\ n = h.kid[p][Other(s)]
    BY <1>9
  <2>8. /\ Count(k, H, NULL, w, p, s) /\ Count(k, H, NULL, w, p, Other(s))
        /\ Count(k, H, NULL, w, h.kid[p][Other(s)], s) /\ Count(k, H, NULL, w, h.kid[p][Other(s)], Other(s))
    BY <1>1, <1>2, <2>4, <2>7
  <2>9. H[NULL] = 0 /\ H \in [Pointer -> Nat] /\ H[h.kid[p][Other(s)]] = H[p]
    BY <2>1, <2>7
  <2> QED
    BY <1>1, <1>3, <1>4, <2>5, <2>6, <2>8, <2>9, TurnCounts
<1>11. Apart(k, p, FALSE)
  <2>1. \A a \in In(h), t \in Side : Meets(h, n, FALSE, a, h.kid[a][t])
    BY DEF Apart
  <2>2. \A a \in In(h), t \in Side : h.kid[a][t] # n => Meets(h, NULL, FALSE, a, h.kid[a][t])
    BY <2>1 DEF Meets
  <2>3. \A a \in In(h), t \in Side : a # p => h.kid[a][t] # n
    <3>1. \A a \in Node, t \in Side : h.kid[a][t] = h.kid[p][Other(s)] => a = p
      BY <1>1, <1>2, <1>3, SideIs
    <3> QED
      BY <3>1 DEF In
  <2>4. \A a \in In(h), t \in Side : a # p => Meets(h, p, FALSE, a, h.kid[a][t])
    BY <2>2, <2>3, StrictMeets
  <2>5. Meets(h, p, FALSE, p, y)
    <3>1. y # n
      <4>1. y = n => s = Other(s)
        BY <1>1, <1>2, <1>3, SideIs
      <4> QED
        BY <1>2, <4>1
    <3> QED
      BY <1>1, <2>2, <3>1, StrictMeets
  <2>6. Meets(h, p, FALSE, n, x) /\ Meets(h, p, FALSE, n, h.kid[n][Other(s)])
    BY <1>1, <1>2, <2>4
  <2>7. Meets(h, p, FALSE, p, x)
    <3>1. h.red[p] /\ h.red[n]
      BY <1>1
    <3> QED
      BY <1>1, <2>6, <3>1 DEF Meets
  <2>8. Meets(h, p, FALSE, n, p)
    BY DEF Meets
  <2>9. \A a \in In(h), t \in Side : h.kid[a][t] = p => Meets(h, p, FALSE, a, n)
    <3> SUFFICES ASSUME NEW a \in In(h), NEW t \in Side, h.kid[a][t] = p PROVE Meets(h, p, FALSE, a, n)
      OBVIOUS
    <3>1. a = g
      <4>1. \A b \in Node, v \in Side : h.kid[b][v] = h.kid[g][s] => b = g
        BY <1>1, <1>3, SideIs
      <4> QED
        BY <1>1, <4>1 DEF In
    <3> QED
      BY <1>1, <3>1 DEF Meets
  <2>10. h.root # p /\ (h.root # NULL /\ h.red[h.root] => h.root = p)
    <3>1. h.root # NULL => h.up[h.root] = NULL
      BY DEF Shape, Linked
    <3>2. h.root # n
      BY <1>1, <1>3, <3>1
    <3>3. h.root # p
      BY <1>1, <1>3, <3>1
    <3>4. ~ (h.root # NULL /\ h.red[h.root])
      BY <3>2 DEF Apart
    <3> QED
      BY <3>3, <3>4
  <2>11. MeetsTurned(h, p, FALSE, p, s)
    <3>1. \A a \in In(h), t \in Side : a # p /\ a # n /\ h.kid[a][t] # p => Meets(h, p, FALSE, a, h.kid[a][t])
      BY <2>4
    <3>2. h.root # p \/ ~ h.red[n]
      BY <2>10
    <3> QED
      BY <2>5, <2>6, <2>7, <2>8, <2>9, <2>10, <3>1, <3>2 DEF MeetsTurned
  <2> HIDE DEF x, y
  <2> QED
    BY <1>1, <1>3, <1>4, <2>11, TurnApart
<1>12. Clash(k, p, n, g, s)
  <2>1. k.red[n] /\ k.red[p] /\ ~ k.red[g]
    BY <1>1, <1>6
  <2>2. \E t \in Side : k.kid[n][t] = p
    BY <1>1, <1>8
  <2> QED
    BY <1>1, <1>5, <1>6, <1>8, <2>1, <2>2 DEF Clash
<1> QED
  BY <1>5, <1>6, <1>8, <1>10, <1>11, <1>12 DEF InnerKept

\* A black node g with a red child c: what is to change places and colours
\* when g is turned to side o, and what has changed.
RedBelow(h, g, c, o) ==
  /\ g \in Node /\ c \in Node /\ g \in In(h) /\ c \in In(h) /\ c # g
  /\ o \in Side /\ h.kid[g][Other(o)] = c
  /\ h.red[c] /\ ~ h.red[g]

RedTurned(h, k, g, c, o) ==
  /\ k.kid[g][o] = h.kid[g][o] /\ k.kid[g][Other(o)] = h.kid[c][o]
  /\ k.kid[c][o] = g /\ k.kid[c][Other(o)] = h.kid[c][Other(o)]
  /\ \A a \in Node, t \in Side : a # g /\ a # c
       => k.kid[a][t] = IF h.kid[a][t] = g THEN c ELSE h.kid[a][t]
  /\ \A a \in Node : IF a = g THEN k.red[a] ELSE IF a = c THEN ~ k.red[a] ELSE k.red[a] = h.red[a]

\* Such a rotation keeps the counts, and a missing black at the side g is turned to.
RedKept(h, D, H, q, v, g, c, o) ==
         LET j == Paint(Paint(h, c, FALSE), g, TRUE)
             k == Rotate(j, g, o)
         IN /\ Shape(k, TurnedBelow(j, D, g, o)) /\ In(k) = In(h)
            /\ RedTurned(h, k, g, c, o)
            /\ Balanced(k, [H EXCEPT ![c] = H[g], ![g] = H[c]], q, v)
            /\ \A at : at # g /\ at # c /\ Apart(h, at, FALSE) /\ Black(h, h.kid[g][o]) /\ Black(h, h.kid[c][o])
                 => Apart(k, at, FALSE)

LEMMA RedTurn ==
  ASSUME NEW h, NEW D, Shape(h, D), NEW g, NEW c, NEW o, RedBelow(h, g, c, o),
         NEW H, NEW q, NEW v, Balanced(h, H, q, v), q # c, q = g => v = o
  PROVE  RedKept(h, D, H, q, v, g, c, o)
<1> DEFINE i == Paint(h, c, FALSE)
           j == Paint(i, g, TRUE)
           s == Other(o)
           k == Rotate(j, g, o)
           K == [H EXCEPT ![c] = H[g], ![g] = H[c]]
           x == h.kid[c][o]
           y == h.kid[c][s]
           u == h.kid[g][o]
<1>1. /\ g \in Node /\ c \in Node /\ g \in In(h) /\ c \in In(h) /\ c # g
      /\ o \in Side /\ h.kid[g][s] = c /\ h.red[c] /\ ~ h.red[g]
  BY DEF RedBelow
<1>2. s \in Side /\ o # s /\ Other(o) = s /\ \A t \in Side : t = s \/ t = o
  BY <1>1, Sides
<1>3. c # NULL /\ g # NULL /\ c \in Pointer /\ g \in Pointer /\ NULL \in Pointer
  BY <1>1, NodeAssumption DEF Pointer
<1>4. j \in Heap /\ j.root = h.root /\ j.up = h.up /\ j.kid = h.kid
      /\ \A a \in Node : IF a = g THEN j.red[a] ELSE IF a = c THEN ~ j.red[a] ELSE j.red[a] = h.red[a]
  <2>1. h \in Heap
    BY DEF Shape
  <2>2. Blackened(h, i, c)
    BY <2>1, PaintIs
  <2>3. i \in Heap
    BY <2>2 DEF Blackened
  <2> HIDE DEF i
  <2>4. Reddened(i, j, g)
    BY <2>3, PaintIs
  <2> HIDE DEF j
  <2> QED
    BY <1>1, <2>2, <2>4 DEF Blackened, Reddened
<1>5. Shape(j, D) /\ In(j) = In(h)
  <2> HIDE DEF j
  <2> QED
    BY <1>4, SameLinks
<1>6. /\ k = Rotate(j, g, o) /\ x = h.kid[c][o] /\ u = h.kid[g][o] /\ y = h.kid[c][s]
      /\ K = [H EXCEPT ![c] = H[g], ![g] = H[c]]
  OBVIOUS
<1> HIDE DEF j, s, k, K, x, u, y
<1>7. j.kid[g][Other(o)] = c /\ j.kid[c][o] = x /\ j.kid[g][o] = u /\ j.kid[c][Other(o)] = y
  BY <1>1, <1>2, <1>4, <1>6
<1>8. Pivot(j, D, g, o, c, x, u, y)
  <2>1. Pivot(j, D, g, o, j.kid[g][Other(o)], j.kid[j.kid[g][Other(o)]][o], j.kid[g][o], j.kid[j.kid[g][Other(o)]][Other(o)])
    BY <1>1, <1>2, <1>3, <1>5, <1>7, PivotIs
  <2> QED
    BY <1>7, <2>1
<1>9. /\ x \in Pointer /\ u \in Pointer /\ y \in Pointer
      /\ x # g /\ x # c /\ u # g /\ u # c /\ y # g /\ y # c /\ j.up[c] = g
  BY <1>8 DEF Pivot
<1>11. Turned(j, k, g, o)
  BY <1>1, <1>2, <1>3, <1>5, <1>6, <1>7, RotateIs
<1>12. Shape(k, TurnedBelow(j, D, g, o)) /\ In(k) = In(h)
  BY <1>1, <1>2, <1>3, <1>5, <1>7, <1>11, RotateShape
<1>13. /\ k.red = j.red
       /\ k.kid[g][o] = u /\ k.kid[g][s] = x /\ k.kid[c][o] = g /\ k.kid[c][s] = y
       /\ \A a \in Node, t \in Side : a # g /\ a # c
            => k.kid[a][t] = IF h.kid[a][t] = g THEN c ELSE h.kid[a][t]
  <2>1. k.red = j.red
    BY <1>11, Zenon DEF Turned
  <2> DEFINE d == j.kid[g][Other(o)]
  <2>2. d = c
    BY <1>7
  <2>3. \A a \in Node, t \in Side : k.kid[a][t] = IF a = g THEN IF t = o THEN j.kid[g][t] ELSE j.kid[d][o]
                         ELSE IF a = d THEN IF t = o THEN g ELSE j.kid[d][t]
                         ELSE IF j.kid[a][t] = g THEN d ELSE j.kid[a][t]
    BY <1>11 DEF Turned
  <2> HIDE DEF d
  <2>4. k.kid[g][o] = j.kid[g][o] /\ k.kid[g][s] = j.kid[d][o]
    BY <1>1, <1>2, <2>3
  <2>5. k.kid[d][o] = g /\ k.kid[d][s] = j.kid[d][s]
    BY <1>1, <1>2, <2>2, <2>3
  <2>6. ASSUME NEW a \in Node, NEW t \in Side, a # g, a # c
        PROVE  k.kid[a][t] = IF h.kid[a][t] = g THEN c ELSE h.kid[a][t]
    <3>1. k.kid[a][t] = IF j.kid[a][t] = g THEN d ELSE j.kid[a][t]
      BY <2>2, <2>3, <2>6
    <3> QED
      BY <1>4, <2>2, <3>1
  <2> QED
    BY <1>2, <1>7, <2>1, <2>2, <2>4, <2>5, <2>6
<1>14. RedTurned(h, k, g, c, o)
  <2>1. \A a \in Node : IF a = g THEN k.red[a] ELSE IF a = c THEN ~ k.red[a] ELSE k.red[a] = h.red[a]
    BY <1>4, <1>13
  <2> QED
    BY <1>2, <1>6, <1>13, <2>1 DEF RedTurned
<1>15. H \in [Pointer -> Nat] /\ H[NULL] = 0 /\ \A a \in In(h), t \in Side : Count(h, H, q, v, a, t)
  BY DEF Balanced
<1> DEFINE e == IF g = q /\ o = v THEN 1 ELSE 0
<1>16. /\ H[c] \in Nat /\ H[x] \in Nat /\ H[y] \in Nat /\ H[u] \in Nat /\ H[g] \in Nat /\ e \in Nat
       /\ H[g] = H[c] + 1 /\ H[x] = H[c] /\ H[y] = H[c] /\ H[c] = H[u] + e
  <2>1. H[c] \in Nat /\ H[x] \in Nat /\ H[y] \in Nat /\ H[u] \in Nat /\ H[g] \in Nat
    BY <1>3, <1>9, <1>15
  <2>2. H[c] = H[x] + 0 + 0
    <3>1. Count(h, H, q, v, c, o)
      BY <1>1, <1>15
    <3> QED
      BY <1>1, <1>6, <3>1 DEF Count
  <2>3. H[c] = H[y] + 0 + 0
    <3>1. Count(h, H, q, v, c, s)
      BY <1>1, <1>2, <1>15
    <3> QED
      BY <1>1, <1>6, <3>1 DEF Count
  <2>4. H[g] = H[c] + 0 + 1
    <3>1. Count(h, H, q, v, g, s) /\ ~ (g = q /\ s = v)
      BY <1>1, <1>2, <1>15
    <3> QED
      BY <1>1, <3>1 DEF Count
  <2>5. H[g] = H[u] + e + 1
    <3>1. Count(h, H, q, v, g, o)
      BY <1>1, <1>15
    <3> QED
      BY <1>1, <1>6, <3>1 DEF Count
  <2>6. e \in Nat
    OBVIOUS
  <2> HIDE DEF e
  <2> QED
    BY <2>1, <2>2, <2>3, <2>4, <2>5, <2>6
<1>17. K \in [Pointer -> Nat] /\ K[c] = H[g] /\ K[g] = H[c] /\ \A a \in Pointer : a # g /\ a # c => K[a] = H[a]
  BY <1>1, <1>3, <1>6, <1>15, <1>16
<1>18. Balanced(k, K, q, v)
  <2>1. k.red[g] /\ ~ k.red[c]
    BY <1>1, <1>4, <1>13
  <2>2. K[u] = H[u] /\ K[x] = H[x] /\ K[y] = H[y]
    BY <1>9, <1>17
  <2>3. Count(k, K, q, v, g, o)
    <3>1. K[g] = K[k.kid[g][o]] + e + 0
      <4> HIDE DEF e
      <4> QED
        BY <1>13, <1>16, <1>17, <2>2
    <3> QED
      BY <2>1, <3>1 DEF Count
  <2>4. Count(k, K, q, v, g, s)
    <3>1. K[g] = K[k.kid[g][s]] + 0 + 0 /\ ~ (g = q /\ s = v)
      BY <1>2, <1>13, <1>16, <1>17, <2>2
    <3> QED
      BY <2>1, <3>1 DEF Count
  <2>5. Count(k, K, q, v, c, o)
    <3>1. K[c] = K[k.kid[c][o]] + 0 + 1
      BY <1>13, <1>16, <1>17, <2>2
    <3> QED
      BY <2>1, <3>1 DEF Count
  <2>6. Count(k, K, q, v, c, s)
    <3>1. K[c] = K[k.kid[c][s]] + 0 + 1
      BY <1>13, <1>16, <1>17, <2>2
    <3> QED
      BY <2>1, <3>1 DEF Count
  <2>7. \A a \in In(j), t \in Side : a # g /\ a # j.kid[g][Other(o)] => Count(j, H, q, v, a, t)
    <3> SUFFICES ASSUME NEW a \in In(h), NEW t \in Side, a # g, a # c PROVE Count(j, H, q, v, a, t)
      BY <1>5, <1>7
    <3>1. Count(h, H, q, v, a, t) /\ j.red[a] = h.red[a] /\ j.kid[a][t] = h.kid[a][t]
      BY <1>4, <1>15 DEF In
    <3> QED
      BY <3>1, SameCount
  <2>8. /\ K[j.kid[g][Other(o)]] = H[g]
        /\ \A a \in Pointer : a # g /\ a # j.kid[g][Other(o)] => K[a] = H[a]
    BY <1>7, <1>17
  <2>9. /\ Count(k, K, q, v, g, o) /\ Count(k, K, q, v, g, Other(o))
        /\ Count(k, K, q, v, j.kid[g][Other(o)], o) /\ Count(k, K, q, v, j.kid[g][Other(o)], Other(o))
    BY <1>2, <1>7, <2>3, <2>4, <2>5, <2>6
  <2>10. j.kid[g][Other(o)] # NULL /\ H[NULL] = 0 /\ K \in [Pointer -> Nat]
    BY <1>3, <1>7, <1>15, <1>17
  <2> QED
    BY <1>1, <1>5, <1>11, <2>7, <2>8, <2>9, <2>10, TurnCounts
<1>19. ASSUME NEW at, at # g, at # c, Apart(h, at, FALSE), Black(h, u), Black(h, x)
       PROVE  Apart(k, at, FALSE)
  <2>1. j.red[g] /\ ~ j.red[c]
    BY <1>1, <1>4
  <2>2. ASSUME NEW a \in In(h), NEW t \in Side, a # g, a # c, h.kid[a][t] # g
        PROVE  Meets(j, at, FALSE, a, h.kid[a][t])
    <3>1. Meets(h, at, FALSE, a, h.kid[a][t]) /\ j.red[a] = h.red[a]
      BY <1>4, <1>19, <2>2 DEF Apart, In
    <3>2. h.kid[a][t] # NULL => h.kid[a][t] \in Node /\ h.up[h.kid[a][t]] = a
      BY KidIs DEF In
    <3>3. h.kid[a][t] # c
      BY <1>3, <1>4, <1>9, <2>2, <3>2
    <3>4. h.kid[a][t] # NULL => j.red[h.kid[a][t]] = h.red[h.kid[a][t]]
      BY <1>4, <2>2, <3>2, <3>3
    <3> QED
      BY <3>1, <3>4, SameMeets
  <2>3. ASSUME NEW z \in {u, x} PROVE Meets(j, at, FALSE, g, z)
    <3>1. Black(h, z) /\ z # g /\ z # c
      BY <1>9, <1>19
    <3>2. z # NULL => z \in Node
      BY <1>9 DEF Pointer
    <3>3. z # NULL => (j.red[z] <=> h.red[z])
      BY <1>4, <3>1, <3>2
    <3>4. Black(j, z)
      BY <3>1, <3>3, Zenon DEF Black
    <3> QED
      BY <3>4 DEF Meets
  <2>5. \A a, b : Meets(j, at, FALSE, c, b) /\ Meets(j, at, FALSE, a, c)
    BY <1>3, <2>1 DEF Meets, Black
  <2>6. h.root # g /\ h.root # NULL /\ j.red[h.root] => h.root = at
    <3> SUFFICES ASSUME h.root # g, h.root # NULL, j.red[h.root] PROVE h.root = at
      OBVIOUS
    <3>1. h.root \in Node /\ h.root # c
      BY <2>1 DEF Shape, Linked, In
    <3>2. h.red[h.root]
      BY <1>4, <3>1
    <3> QED
      BY <1>19, <3>2 DEF Apart
  <2>7. MeetsTurned(j, at, FALSE, g, o)
    <3> DEFINE d == j.kid[g][Other(o)]
    <3>1. d = c
      BY <1>7
    <3>2. \A a \in In(j), t \in Side : a # g /\ a # d /\ j.kid[a][t] # g => Meets(j, at, FALSE, a, j.kid[a][t])
      BY <1>4, <1>5, <2>2, <3>1
    <3>3. j.kid[g][o] = u /\ j.kid[d][o] = x
      BY <1>7, <3>1
    <3> HIDE DEF d
    <3>4. /\ Meets(j, at, FALSE, g, j.kid[g][o]) /\ Meets(j, at, FALSE, g, j.kid[d][o])
          /\ Meets(j, at, FALSE, d, g) /\ Meets(j, at, FALSE, d, j.kid[d][Other(o)])
          /\ \A a \in In(j), t \in Side : j.kid[a][t] = g => Meets(j, at, FALSE, a, d)
      BY <2>3, <2>5, <3>1, <3>3
    <3>5. ~ (j.root = g /\ j.red[d])
      BY <2>1, <3>1
    <3>6. j.root # g /\ j.root # NULL /\ j.red[j.root] => j.root = at
      BY <1>4, <2>6
    <3> QED
      BY <3>2, <3>4, <3>5, <3>6 DEF MeetsTurned, d
  <2> QED
    BY <1>1, <1>3, <1>5, <1>7, <1>11, <2>7, TurnApart
<1> QED
  BY <1>6, <1>12, <1>14, <1>18, <1>19 DEF RedKept, k, K, j

\* The last rotation of a round: the red parent takes the place and the colour
\* of the grandparent.
OuterKept(h, D, H, w, n, p, g, s) ==
  LET j == Paint(Paint(h, p, FALSE), g, TRUE)
      k == Rotate(j, g, Other(s))
  IN /\ Shape(k, TurnedBelow(j, D, g, Other(s))) /\ In(k) = In(h)
     /\ Balanced(k, [H EXCEPT ![p] = H[g], ![g] = H[p]], NULL, w)
     /\ Apart(k, n, FALSE) /\ k.red[n]

LEMMA OuterTurn ==
  ASSUME NEW h, NEW D, Shape(h, D), NEW n, NEW p, NEW g, NEW s, Clash(h, n, p, g, s), Apart(h, n, FALSE),
         NEW H, NEW w, Balanced(h, H, NULL, w), h.kid[p][s] = n, Black(h, h.kid[g][Other(s)])
  PROVE  OuterKept(h, D, H, w, n, p, g, s)
<1> DEFINE o == Other(s)
           j == Paint(Paint(h, p, FALSE), g, TRUE)
           k == Rotate(j, g, o)
<1>1. /\ n \in Node /\ p \in Node /\ g \in Node /\ p \in In(h) /\ g \in In(h) /\ p # n /\ g # p /\ g # n
      /\ h.red[p] /\ ~ h.red[g] /\ s \in Side /\ h.kid[g][s] = p /\ h.red[n]
  BY DEF Clash
<1>2. o \in Side /\ o # s /\ Other(o) = s
  BY <1>1, Sides
<1>3. RedBelow(h, g, p, o)
  BY <1>1, <1>2 DEF RedBelow
<1>4. NULL # p /\ NULL # g /\ n # NULL
  BY <1>1, NodeAssumption
<1>5. h.kid[p][o] # n
  <2>1. h.kid[p][s] # NULL /\ h.kid[p][s] = n
    BY <1>4
  <2>2. \A a \in Node, t \in Side : h.kid[a][t] = n => t = s
    BY <1>1, <2>1, SideIs
  <2> QED
    BY <1>1, <1>2, <2>2
<1>6. Black(h, h.kid[p][o])
  <2>1. Meets(h, n, FALSE, p, h.kid[p][o])
    BY <1>1, <1>2 DEF Apart
  <2> QED
    BY <1>1, <1>5, <2>1 DEF Meets
<1>7. Black(h, h.kid[g][o]) /\ n # g /\ n # p
  BY <1>1
<1> HIDE DEF o
<1>8. /\ Shape(k, TurnedBelow(j, D, g, o)) /\ In(k) = In(h)
      /\ RedTurned(h, k, g, p, o)
      /\ Balanced(k, [H EXCEPT ![p] = H[g], ![g] = H[p]], NULL, w)
      /\ Apart(k, n, FALSE)
  <2>1. NULL # p /\ (NULL = g => w = o)
    BY <1>4
  <2>2. /\ Shape(k, TurnedBelow(j, D, g, o)) /\ In(k) = In(h)
        /\ RedTurned(h, k, g, p, o)
        /\ Balanced(k, [H EXCEPT ![p] = H[g], ![g] = H[p]], NULL, w)
        /\ \A at : at # g /\ at # p /\ Apart(h, at, FALSE) /\ Black(h, h.kid[g][o]) /\ Black(h, h.kid[p][o])
             => Apart(k, at, FALSE)
    <3>1. RedKept(h, D, H, NULL, w, g, p, o)
      BY <1>3, <2>1, RedTurn
    <3> QED
      BY <3>1, Zenon DEF RedKept
  <2> HIDE DEF j, k
  <2> QED
    BY <1>6, <1>7, <2>2
<1> HIDE DEF k
<1>9. k.red[n]
  BY <1>1, <1>8 DEF RedTurned
<1> QED
  BY <1>8, <1>9 DEF OuterKept, k, o

(***************************************************************************)
(* The rounds of __rb_erase_color.                                         *)
(***************************************************************************)
\* Where nothing is excepted a red node has black children.
LEMMA StrictIs ==
  ASSUME NEW h, Apart(h, NULL, FALSE)
  PROVE  /\ \A a \in In(h), t \in Side : ~ (h.red[a] /\ ~ Black(h, h.kid[a][t]))
         /\ h.root # NULL => ~ h.red[h.root]
         /\ \A at, both : Apart(h, at, both)
<1>1. \A a \in In(h), t \in Side : Meets(h, NULL, FALSE, a, h.kid[a][t])
  BY DEF Apart
<1>2. h.root # NULL => ~ h.red[h.root]
  BY DEF Apart
<1>3. \A a \in In(h), t \in Side : ~ (h.red[a] /\ ~ Black(h, h.kid[a][t]))
  BY <1>1 DEF Meets, Black
<1>4. \A at, both : Apart(h, at, both)
  BY <1>2, <1>3 DEF Apart, Meets
<1> QED
  BY <1>2, <1>3, <1>4

\* On side s of p, where z is, a black is missing.
Short(h, H, p, s, z) ==
  /\ p \in Node /\ p \in In(h) /\ s \in Side /\ h.kid[p][s] = z /\ Black(h, z)
  /\ Balanced(h, H, p, s) /\ Apart(h, NULL, FALSE)

LEMMA ShortIs ==
  ASSUME NEW h, NEW D, Shape(h, D), NEW H, NEW p, NEW s, NEW z, Short(h, H, p, s, z)
  PROVE  LET b == h.kid[p][Other(s)]
         IN /\ z \in Pointer /\ Other(s) \in Side /\ Other(Other(s)) = s /\ Other(s) # s
            /\ \A t \in Side : t = s \/ t = Other(s)
            /\ b # NULL /\ b \in Node /\ b \in In(h) /\ b # p /\ b # z /\ h.up[b] = p /\ z # p
            /\ H \in [Pointer -> Nat] /\ H[b] = H[z] + 1
<1>1. p \in Node /\ p \in In(h) /\ s \in Side /\ h.kid[p][s] = z /\ Balanced(h, H, p, s)
  BY DEF Short
<1>2. Other(s) \in Side /\ Other(Other(s)) = s /\ Other(s) # s /\ \A t \in Side : t = s \/ t = Other(s)
  BY <1>1, Sides
<1>3. h.kid[p][Other(s)] # NULL /\ H[h.kid[p][Other(s)]] = H[h.kid[p][s]] + 1
  BY <1>1, BrotherIs
<1>4. /\ h.kid[p][Other(s)] \in Node /\ h.kid[p][Other(s)] \in In(h) /\ h.kid[p][Other(s)] # p
      /\ h.up[h.kid[p][Other(s)]] = p /\ h.kid[p][Other(s)] # h.kid[p][Other(Other(s))]
  BY <1>1, <1>2, <1>3, KidIs
<1>5. z \in Pointer /\ z # p
  <2>1. h.kid[p][s] \in Pointer
    BY <1>1, BelowIs
  <2>2. h.kid[p][s] # NULL => h.kid[p][s] # p
    BY <1>1, KidIs
  <2> QED
    BY <1>1, <2>1, <2>2, NodeAssumption
<1>6. H \in [Pointer -> Nat]
  BY <1>1 DEF Balanced
<1> QED
  BY <1>1, <1>2, <1>3, <1>4, <1>5, <1>6

\* A red brother: the parent is turned, and has a black child in its place.
LEMMA RaiseBrother ==
  ASSUME NEW h, NEW D, Shape(h, D), NEW H, NEW p, NEW s, NEW z, Short(h, H, p, s, z), h.red[h.kid[p][Other(s)]]
  PROVE  LET b == h.kid[p][Other(s)]
             j == Paint(Paint(h, b, FALSE), p, TRUE)
             k == Rotate(j, p, s)
         IN /\ Shape(k, TurnedBelow(j, D, p, s)) /\ In(k) = In(h)
            /\ Short(k, [H EXCEPT ![b] = H[p], ![p] = H[b]], p, s, z)
            /\ ~ k.red[k.kid[p][Other(s)]]
<1> DEFINE b == h.kid[p][Other(s)]
           j == Paint(Paint(h, b, FALSE), p, TRUE)
           k == Rotate(j, p, s)
           K == [H EXCEPT ![b] = H[p], ![p] = H[b]]
           x == h.kid[b][s]
<1>1. /\ p \in Node /\ p \in In(h) /\ s \in Side /\ h.kid[p][s] = z /\ Black(h, z)
      /\ Balanced(h, H, p, s) /\ Apart(h, NULL, FALSE)
  BY DEF Short
<1>2. /\ z \in Pointer /\ Other(s) \in Side /\ Other(s) # s
      /\ b # NULL /\ b \in Node /\ b \in In(h) /\ b # p /\ b # z /\ z # p
  BY ShortIs
<1>3. ~ h.red[p] /\ Black(h, x) /\ h.red[b]
  <2>1. ~ Black(h, b)
    BY <1>2 DEF Black
  <2>2. h.red[b]
    OBVIOUS
  <2> HIDE DEF b
  <2>3. ~ (h.red[b] /\ ~ Black(h, x))
    BY <1>1, <1>2, StrictIs
  <2>4. ~ (h.red[p] /\ ~ Black(h, h.kid[p][Other(s)]))
    BY <1>1, <1>2, StrictIs
  <2> QED
    BY <2>1, <2>2, <2>3, <2>4 DEF b
<1>4. RedBelow(h, p, b, s)
  BY <1>1, <1>2, <1>3 DEF RedBelow
<1>5. p # b /\ NULL # p /\ NULL # b
  BY <1>1, <1>2, NodeAssumption
<1>6. h.kid[p][Other(s)] = b /\ x = h.kid[b][s]
  OBVIOUS
<1> HIDE DEF b, x
<1>7. /\ Shape(k, TurnedBelow(j, D, p, s)) /\ In(k) = In(h)
      /\ RedTurned(h, k, p, b, s)
      /\ Balanced(k, K, p, s)
      /\ Apart(k, NULL, FALSE)
  <2>1. p # b /\ (p = p => s = s)
    BY <1>5
  <2>2. /\ Shape(k, TurnedBelow(j, D, p, s)) /\ In(k) = In(h)
        /\ RedTurned(h, k, p, b, s)
        /\ Balanced(k, K, p, s)
        /\ \A at : at # p /\ at # b /\ Apart(h, at, FALSE) /\ Black(h, h.kid[p][s]) /\ Black(h, h.kid[b][s])
             => Apart(k, at, FALSE)
    <3>1. RedKept(h, D, H, p, s, p, b, s)
      BY <1>1, <1>4, <2>1, RedTurn
    <3> QED
      BY <3>1, Zenon DEF RedKept
  <2> HIDE DEF j, k, K
  <2> QED
    BY <1>1, <1>3, <1>5, <1>6, <2>2
<1> HIDE DEF j, k, K
<1>8. k.kid[p][s] = z /\ k.kid[p][Other(s)] = x
  BY <1>1, <1>6, <1>7 DEF RedTurned
<1>9. Black(k, z)
  <2>1. z # NULL => k.red[z] = h.red[z]
    BY <1>2, <1>7 DEF RedTurned, Pointer
  <2> QED
    BY <1>1, <2>1 DEF Black
<1>10. Short(k, K, p, s, z)
  BY <1>1, <1>7, <1>8, <1>9 DEF Short
<1>11. x # NULL /\ x \in Node /\ x # p /\ x # b
  <2>1. x # NULL
    BY <1>7, <1>8, <1>10, ShortIs
  <2> QED
    BY <1>1, <1>2, <1>6, <2>1, KidIs, BelowIs, UpIs DEF Shape
<1>12. ~ k.red[x]
  <2>1. k.red[x] = h.red[x]
    BY <1>7, <1>11 DEF RedTurned
  <2> QED
    BY <1>3, <1>11, <2>1 DEF Black
<1> QED
  BY <1>7, <1>8, <1>10, <1>12 DEF b, j, k, K

\* The brother b is black, of its children the one near the hole alone is red.
NearRed(h, p, s, b) ==
  b = h.kid[p][Other(s)] /\ ~ h.red[b] /\ Black(h, h.kid[b][Other(s)]) /\ ~ Black(h, h.kid[b][s])

\* What turning the child of b near the hole up leaves.
NearKept(h, D, H, p, s, z, b) ==
  LET y == h.kid[b][s]
      j == Paint(Paint(h, y, FALSE), b, TRUE)
      k == Rotate(j, b, Other(s))
  IN /\ Shape(k, TurnedBelow(j, D, b, Other(s))) /\ In(k) = In(h)
     /\ Short(k, [H EXCEPT ![y] = H[b], ![b] = H[y]], p, s, z)
     /\ ~ k.red[k.kid[p][Other(s)]]
     /\ ~ Black(k, k.kid[k.kid[p][Other(s)]][Other(s)])

\* A black brother with a red child on the near side only: it is turned, and
\* the red node is on the far side.
LEMMA NearTurn ==
  ASSUME NEW h, NEW D, Shape(h, D), NEW H, NEW p, NEW s, NEW z, Short(h, H, p, s, z),
         NEW b, NearRed(h, p, s, b)
  PROVE  NearKept(h, D, H, p, s, z, b)
<1>0. b = h.kid[p][Other(s)] /\ ~ h.red[b] /\ Black(h, h.kid[b][Other(s)]) /\ ~ Black(h, h.kid[b][s])
  BY DEF NearRed
<1> DEFINE o == Other(s)
           y == h.kid[b][s]
           j == Paint(Paint(h, y, FALSE), b, TRUE)
           k == Rotate(j, b, o)
           K == [H EXCEPT ![y] = H[b], ![b] = H[y]]
<1>1. /\ p \in Node /\ p \in In(h) /\ s \in Side /\ h.kid[p][s] = z /\ Black(h, z)
      /\ Balanced(h, H, p, s) /\ Apart(h, NULL, FALSE)
  BY DEF Short
<1>2. /\ z \in Pointer /\ o \in Side /\ o # s /\ Other(o) = s
      /\ b # NULL /\ b \in Node /\ b \in In(h) /\ b # p /\ b # z /\ z # p /\ h.up[b] = p
  BY <1>0, ShortIs
<1>3. y # NULL /\ h.red[y] /\ h.kid[p][o] = b /\ Black(h, h.kid[b][o])
  BY <1>0 DEF Black
<1>4. y \in Node /\ y \in In(h) /\ h.up[y] = b /\ y # b
  <2>1. h.kid[b][s] # NULL /\ s \in Side /\ b \in Node
    BY <1>1, <1>2, <1>3
  <2> QED
    BY <2>1, KidIs
<1>5. y # p /\ y # z
  <2>1. y # z
    <3>1. z # NULL => h.up[z] = p
      BY <1>1, KidIs
    <3> QED
      BY <1>2, <1>3, <1>4, <3>1
  <2>2. y # p
    <3>1. p \in D[p] /\ b \in D[p] /\ y \in D[b]
      <4>1. b \in D[p]
        <5>1. o \in Side /\ h.kid[p][o] # NULL /\ p \in Node
          BY <1>1, <1>2, <1>3
        <5>2. h.kid[p][o] \in D[p]
          BY <5>1, KidIs
        <5> QED
          BY <1>3, <5>2
      <4>2. y \in D[b]
        BY <1>1, <1>2, <1>3, KidIs
      <4> QED
        BY <1>1, <4>1, <4>2, BelowIs
    <3> QED
      BY <1>1, <1>2, <3>1, OneAbove
  <2> QED
    BY <2>1, <2>2
<1>6. y = h.kid[b][s] /\ o = Other(s)
  OBVIOUS
<1> HIDE DEF y, o
<1>7. RedBelow(h, b, y, o)
  BY <1>0, <1>2, <1>3, <1>4, <1>6 DEF RedBelow
<1>8. Black(h, h.kid[y][o])
  BY <1>1, <1>2, <1>3, <1>4, StrictIs
<1>9. NULL # b /\ NULL # y /\ p # b /\ p # y
  BY <1>2, <1>3, <1>5
<1>10. /\ Shape(k, TurnedBelow(j, D, b, o)) /\ In(k) = In(h)
       /\ RedTurned(h, k, b, y, o)
       /\ Balanced(k, K, p, s)
       /\ Apart(k, NULL, FALSE)
  <2>1. p # y /\ (p = b => s = o)
    BY <1>9
  <2>2. /\ Shape(k, TurnedBelow(j, D, b, o)) /\ In(k) = In(h)
        /\ RedTurned(h, k, b, y, o)
        /\ Balanced(k, K, p, s)
        /\ \A at : at # b /\ at # y /\ Apart(h, at, FALSE) /\ Black(h, h.kid[b][o]) /\ Black(h, h.kid[y][o])
             => Apart(k, at, FALSE)
    <3>1. Balanced(h, H, p, s)
      BY <1>1
    <3>2. RedKept(h, D, H, p, s, b, y, o)
      BY <1>7, <2>1, <3>1, RedTurn
    <3> QED
      BY <3>2, Zenon DEF RedKept
  <2> HIDE DEF j, k, K
  <2> QED
    BY <1>1, <1>3, <1>8, <1>9, <2>2
<1> HIDE DEF j, k, K
<1>11. k.kid[p][s] = z /\ k.kid[p][o] = y /\ k.kid[y][o] = b /\ k.red[b] /\ ~ k.red[y]
  BY <1>1, <1>2, <1>3, <1>4, <1>9, <1>10 DEF RedTurned
<1>12. Black(k, z)
  <2>1. z # NULL => k.red[z] = h.red[z]
    BY <1>2, <1>5, <1>10 DEF RedTurned, Pointer
  <2> QED
    BY <1>1, <2>1 DEF Black
<1>13. Short(k, K, p, s, z)
  BY <1>1, <1>10, <1>11, <1>12 DEF Short
<1>14. ~ Black(k, k.kid[k.kid[p][o]][o])
  BY <1>2, <1>11 DEF Black
<1> QED
  BY <1>10, <1>11, <1>13, <1>14 DEF NearKept, y, o, j, k, K

\* The brother b is black and so are its children.
NoneRed(h, p, s, b) == b = h.kid[p][Other(s)] /\ ~ h.red[b] /\ \A t \in Side : Black(h, h.kid[b][t])

\* What painting the brother b of a hole red leaves, for the place (q, v) of
\* the parent p.
PassKept(h, D, H, p, b, q, v) ==
  LET k == Paint(h, b, TRUE)
  IN /\ Shape(k, D) /\ In(k) = In(h) /\ k.root = h.root /\ k.up = h.up /\ k.kid = h.kid
     /\ Balanced(k, [H EXCEPT ![b] = @ - 1, ![p] = @ - 1], q, v)
     /\ Apart(k, p, TRUE)

\* A black brother without a red child: it is painted red, and the parent is
\* what a black is missing at.
LEMMA PassUp ==
  ASSUME NEW h, NEW D, Shape(h, D), NEW H, NEW p, NEW s, NEW z, Short(h, H, p, s, z),
         NEW b, NoneRed(h, p, s, b),
         NEW q, NEW v, \A a \in Node, t \in Side : h.kid[a][t] = p <=> a = q /\ t = v
  PROVE  PassKept(h, D, H, p, b, q, v)
<1>0. b = h.kid[p][Other(s)] /\ ~ h.red[b] /\ \A t \in Side : Black(h, h.kid[b][t])
  BY DEF NoneRed
<1> USE <1>0
<1> DEFINE o == Other(s)
           k == Paint(h, b, TRUE)
           K == [H EXCEPT ![b] = @ - 1, ![p] = @ - 1]
<1>1. /\ p \in Node /\ p \in In(h) /\ s \in Side /\ h.kid[p][s] = z /\ Black(h, z)
      /\ Balanced(h, H, p, s) /\ Apart(h, NULL, FALSE)
  BY DEF Short
<1>2. /\ z \in Pointer /\ o \in Side /\ o # s /\ (\A t \in Side : t = s \/ t = o)
      /\ b # NULL /\ b \in Node /\ b \in In(h) /\ b # p /\ b # z /\ h.up[b] = p /\ z # p
      /\ H \in [Pointer -> Nat] /\ H[b] = H[z] + 1
  BY ShortIs
<1>3. h.kid[p][o] = b
  OBVIOUS
<1>4. Reddened(h, k, b)
  BY PaintIs DEF Shape
<1>5. K = [H EXCEPT ![b] = @ - 1, ![p] = @ - 1]
  OBVIOUS
<1> HIDE DEF o, k, K
<1>6. /\ k \in Heap /\ k.root = h.root /\ k.up = h.up /\ k.kid = h.kid
      /\ \A a \in Node : IF a = b THEN k.red[a] ELSE k.red[a] = h.red[a]
  BY <1>4 DEF Reddened
<1>7. Shape(k, D) /\ In(k) = In(h)
  BY <1>6, SameLinks
<1>8. p \in Pointer /\ b \in Pointer /\ NULL \in Pointer /\ p # NULL
  BY <1>1, <1>2, NodeAssumption DEF Pointer
<1>9. \A a \in In(h), t \in Side : Count(h, H, p, s, a, t)
  BY <1>1 DEF Balanced
<1>10. H[z] \in Nat /\ H[b] \in Nat /\ H[p] \in Nat /\ H[NULL] = 0
  BY <1>1, <1>2, <1>8 DEF Balanced
<1>11. H[p] = H[b] + (IF h.red[p] THEN 0 ELSE 1)
  <2>1. H[p] = H[b] + 0 + (IF h.red[p] THEN 0 ELSE 1)
    <3>1. Count(h, H, p, s, p, o)
      BY <1>1, <1>2, <1>9
    <3> QED
      BY <1>2, <1>3, <3>1 DEF Count
  <2> QED
    BY <1>10, <2>1
<1>12. K \in [Pointer -> Nat] /\ K[b] = H[b] - 1 /\ K[p] = H[p] - 1 /\ \A a \in Pointer : a # b /\ a # p => K[a] = H[a]
  <2>1. H[b] - 1 \in Nat /\ H[p] - 1 \in Nat
    BY <1>2, <1>10, <1>11
  <2> QED
    BY <1>2, <1>5, <1>8, <2>1
<1>13. ASSUME NEW a \in In(h), NEW t \in Side
       PROVE  /\ a \in Node /\ a \in Pointer /\ h.kid[a][t] \in Pointer /\ H[h.kid[a][t]] \in Nat /\ H[a] \in Nat
              /\ (h.kid[a][t] = b <=> a = p /\ t = o)
              /\ (h.kid[a][t] = p <=> a = q /\ t = v)
              /\ h.kid[a][t] # NULL => h.kid[a][t] \in Node
  <2>1. a \in Node /\ h.kid[a][t] \in Pointer /\ a \in Pointer
    BY BelowIs DEF In, Pointer
  <2>2. h.kid[a][t] = b <=> a = p /\ t = o
    <3>1. \A c \in Node, r \in Side : h.kid[c][r] = h.kid[p][o] => c = p /\ r = o
      BY <1>1, <1>2, <1>3, SideIs
    <3> QED
      BY <1>3, <2>1, <3>1
  <2>3. h.kid[a][t] # NULL => h.kid[a][t] \in Node
    BY <2>1 DEF Pointer
  <2> QED
    BY <1>2, <2>1, <2>2, <2>3
<1>14. ASSUME NEW a \in In(h), NEW t \in Side PROVE Count(k, K, q, v, a, t)
  <2> DEFINE w == h.kid[a][t]
             e == IF h.red[a] THEN 0 ELSE 1
             hole == IF a = p /\ t = s THEN 1 ELSE 0
             new == IF a = q /\ t = v THEN 1 ELSE 0
  <2>1. H[a] = H[w] + hole + e /\ e \in Nat /\ hole \in {0, 1} /\ new \in {0, 1} /\ H[a] \in Nat /\ H[w] \in Nat
    BY <1>9, <1>13 DEF Count
  <2>2. w \in Pointer /\ (w = b <=> a = p /\ t = o) /\ (w = p <=> a = q /\ t = v) /\ a \in Pointer /\ a \in Node
    BY <1>13
  <2>3. w = k.kid[a][t]
    BY <1>6
  <2>4. (a = p /\ t = s => hole = 1) /\ (~ (a = p /\ t = s) => hole = 0)
        /\ (w = p => new = 1) /\ (w # p => new = 0)
    BY <2>2
  <2>5. a # b => e = (IF k.red[a] THEN 0 ELSE 1)
    <3>1. a # b => k.red[a] = h.red[a]
      BY <1>6, <2>2
    <3> QED
      BY <3>1
  <2>6. a = b => e = 1 /\ (IF k.red[a] THEN 0 ELSE 1) = 0
    BY <1>6, <2>2
  <2>7. w = h.kid[a][t]
    OBVIOUS
  <2> HIDE DEF w, e, hole, new
  <2>8. K[a] = K[w] + new + (IF k.red[a] THEN 0 ELSE 1)
    <3>1. CASE a = p /\ t = s
      <4>1. w = z /\ w # b /\ w # p /\ a # b
        BY <1>1, <1>2, <2>7, <3>1
      <4> QED
        BY <1>12, <2>1, <2>2, <2>4, <2>5, <3>1, <4>1
    <3>2. CASE a = p /\ t = o
      <4>1. w = b /\ w # p /\ a # b /\ hole = 0
        BY <1>2, <2>2, <2>4, <3>2
      <4> QED
        BY <1>12, <2>1, <2>2, <2>4, <2>5, <3>2, <4>1
    <3>3. CASE a = b
      <4>1. w # b /\ w # p /\ hole = 0
        <5>1. w # p
          <6>1. w = p => p \in D[b]
            <7>1. h.kid[b][t] # NULL => h.kid[b][t] \in D[b]
              BY <1>2, KidIs
            <7> QED
              BY <1>8, <2>7, <3>3, <7>1
          <6>2. b \in D[p]
            BY <1>1, <1>2, <1>3, KidIs
          <6> QED
            BY <1>1, <1>2, <6>1, <6>2, OneAbove
        <5> QED
          BY <1>2, <2>2, <2>4, <3>3, <5>1
      <4> QED
        BY <1>12, <2>1, <2>2, <2>4, <2>6, <3>3, <4>1
    <3>4. CASE a # p /\ a # b
      <4>1. w # b /\ hole = 0
        BY <2>2, <2>4, <3>4
      <4>2. CASE w = p
        BY <1>12, <2>1, <2>2, <2>4, <2>5, <3>4, <4>1, <4>2
      <4>3. CASE w # p
        BY <1>12, <2>1, <2>2, <2>4, <2>5, <3>4, <4>1, <4>3
      <4> QED
        BY <4>2, <4>3
    <3> QED
      BY <1>2, <3>1, <3>2, <3>3, <3>4
  <2> QED
    BY <2>3, <2>8 DEF Count, new
<1>15. Balanced(k, K, q, v)
  BY <1>2, <1>7, <1>8, <1>10, <1>12, <1>14 DEF Balanced
<1>16. ASSUME NEW a \in In(h), NEW t \in Side PROVE Meets(k, p, TRUE, a, k.kid[a][t])
  <2> SUFFICES ASSUME k.red[a], h.kid[a][t] # NULL, k.red[h.kid[a][t]], a # p PROVE FALSE
    BY <1>6 DEF Meets, Black
  <2>1. h.kid[a][t] # b /\ h.kid[a][t] \in Node /\ a \in Node
    BY <1>13
  <2>2. h.red[h.kid[a][t]]
    BY <1>6, <2>1
  <2>3. ~ Black(h, h.kid[a][t])
    BY <2>2 DEF Black
  <2>4. a # b
    BY <2>3
  <2>5. h.red[a]
    BY <1>6, <2>1, <2>4
  <2> QED
    BY <1>1, <2>3, <2>5, StrictIs
<1>17. k.root # NULL /\ k.red[k.root] => k.root = p
  <2> SUFFICES ASSUME h.root # NULL, k.red[h.root] PROVE FALSE
    BY <1>6
  <2>1. h.root \in Node /\ h.up[h.root] = NULL
    BY DEF Shape, Linked, In
  <2>2. h.root # b
    BY <1>2, <1>8, <2>1
  <2>3. h.red[h.root]
    BY <1>6, <2>1, <2>2
  <2> QED
    BY <1>1, <2>3, StrictIs
<1>18. Apart(k, p, TRUE)
  BY <1>6, <1>7, <1>16, <1>17 DEF Apart
<1> QED
  BY <1>6, <1>7, <1>15, <1>18 DEF PassKept, k, K

\* A black brother with a red child on the far side: the last rotation makes up
\* for the missing black.
LEMMA LastTurn ==
  ASSUME NEW h, NEW D, Shape(h, D), NEW H, NEW p, NEW s, NEW z, Short(h, H, p, s, z),
         ~ h.red[h.kid[p][Other(s)]], ~ Black(h, h.kid[h.kid[p][Other(s)]][Other(s)]), NEW w
  PROVE  LET b == h.kid[p][Other(s)]
             f == h.kid[b][Other(s)]
             j == Paint(Paint(Paint(h, b, h.red[p]), p, FALSE), f, FALSE)
             k == Rotate(j, p, s)
         IN /\ Shape(k, TurnedBelow(j, D, p, s)) /\ In(k) = In(h)
            /\ Balanced(k, [[H EXCEPT ![f] = @ + 1] EXCEPT ![b] = H[p], ![p] = H[b]], NULL, w)
            /\ Apart(k, NULL, FALSE)
<1> DEFINE o == Other(s)
           b == h.kid[p][o]
           f == h.kid[b][o]
           x == h.kid[b][s]
           j1 == Paint(h, b, h.red[p])
           j2 == Paint(j1, p, FALSE)
           j == Paint(j2, f, FALSE)
           k == Rotate(j, p, s)
           G == [H EXCEPT ![f] = @ + 1]
           K == [G EXCEPT ![b] = H[p], ![p] = H[b]]
<1>1. /\ p \in Node /\ p \in In(h) /\ s \in Side /\ h.kid[p][s] = z /\ Black(h, z)
      /\ Balanced(h, H, p, s) /\ Apart(h, NULL, FALSE)
  BY DEF Short
<1>2. /\ z \in Pointer /\ o \in Side /\ o # s /\ Other(o) = s /\ (\A t \in Side : t = s \/ t = o)
      /\ b # NULL /\ b \in Node /\ b \in In(h) /\ b # p /\ b # z /\ h.up[b] = p /\ z # p
      /\ H \in [Pointer -> Nat] /\ H[b] = H[z] + 1
  BY ShortIs
<1>3. f # NULL /\ h.red[f] /\ ~ h.red[b]
  BY DEF Black
<1>4. f \in Node /\ f \in In(h) /\ h.up[f] = b /\ f # b
  <2>1. h.kid[b][o] # NULL /\ o \in Side /\ b \in Node
    BY <1>2, <1>3
  <2> HIDE DEF b, o
  <2> QED
    BY <2>1, KidIs
<1>5. /\ h.kid[p][o] = b /\ f = h.kid[b][o] /\ x = h.kid[b][s] /\ o = Other(s)
      /\ k = Rotate(j, p, s) /\ G = [H EXCEPT ![f] = @ + 1] /\ K = [G EXCEPT ![b] = H[p], ![p] = H[b]]
  OBVIOUS
<1> HIDE DEF f, b, x, o
<1>6. /\ j \in Heap /\ j.root = h.root /\ j.up = h.up /\ j.kid = h.kid
      /\ \A a \in Node : IF a = p \/ a = f THEN ~ j.red[a]
                         ELSE IF a = b THEN j.red[a] = h.red[p] ELSE j.red[a] = h.red[a]
  <2>1. h \in Heap /\ h.red[p] \in BOOLEAN
    BY <1>1 DEF Shape, Heap
  <2>2. /\ j1 \in Heap /\ j1.root = h.root /\ j1.up = h.up /\ j1.kid = h.kid
        /\ \A a \in Node : j1.red[a] = IF a = b THEN h.red[p] ELSE h.red[a]
    BY <2>1, PaintSets
  <2> HIDE DEF j1
  <2>3. Blackened(j1, j2, p)
    BY <2>2, PaintIs
  <2>4. j2 \in Heap
    BY <2>3 DEF Blackened
  <2> HIDE DEF j2
  <2>5. Blackened(j2, j, f)
    BY <2>4, PaintIs
  <2> HIDE DEF j
  <2>6. /\ j2.root = h.root /\ j2.up = h.up /\ j2.kid = h.kid
        /\ \A a \in Node : IF a = p THEN ~ j2.red[a] ELSE j2.red[a] = j1.red[a]
    BY <2>2, <2>3 DEF Blackened
  <2>7. /\ j \in Heap /\ j.root = h.root /\ j.up = h.up /\ j.kid = h.kid
        /\ \A a \in Node : IF a = f THEN ~ j.red[a] ELSE j.red[a] = j2.red[a]
    BY <2>5, <2>6 DEF Blackened
  <2>8. \A a \in Node : IF a = p \/ a = f THEN ~ j.red[a]
                        ELSE IF a = b THEN j.red[a] = h.red[p] ELSE j.red[a] = h.red[a]
    BY <2>2, <2>6, <2>7
  <2> QED
    BY <2>7, <2>8
<1> HIDE DEF j, k, G, K
<1>7. Shape(j, D) /\ In(j) = In(h)
  BY <1>6, SameLinks
<1>8. j.kid[p][Other(s)] = b /\ j.kid[b][s] = x /\ j.kid[p][s] = z /\ j.kid[b][Other(s)] = f
  BY <1>1, <1>5, <1>6
<1>9. Pivot(j, D, p, s, b, x, z, f)
  <2>1. Pivot(j, D, p, s, j.kid[p][Other(s)], j.kid[j.kid[p][Other(s)]][s], j.kid[p][s], j.kid[j.kid[p][Other(s)]][Other(s)])
    BY <1>1, <1>2, <1>7, <1>8, PivotIs
  <2> QED
    BY <1>8, <2>1
<1>10. /\ x \in Pointer /\ f \in Pointer /\ b \in Pointer /\ p \in Pointer /\ NULL \in Pointer /\ p # NULL
       /\ x # p /\ x # b /\ f # p /\ f # b /\ h.up[p] # b /\ h.up[p] # p
  BY <1>1, <1>2, <1>4, <1>6, <1>9, NodeAssumption DEF Pivot, Pointer
<1>11. x # f /\ z # f
  <2>1. \A a \in Node, t \in Side : h.kid[a][t] = h.kid[b][o] => a = b /\ t = o
    BY <1>2, <1>3, <1>5, SideIs
  <2>2. h.kid[p][s] # f
    BY <1>1, <1>2, <1>5, <2>1
  <2>3. h.kid[b][s] # f
    BY <1>1, <1>2, <1>5, <2>1
  <2> QED
    BY <1>1, <1>5, <2>2, <2>3
<1>12. Turned(j, k, p, s)
  BY <1>1, <1>2, <1>5, <1>7, <1>8, RotateIs
<1>13. Shape(k, TurnedBelow(j, D, p, s)) /\ In(k) = In(h)
  BY <1>1, <1>2, <1>7, <1>8, <1>12, RotateShape
<1>14. /\ k.red = j.red
       /\ k.kid[p][s] = z /\ k.kid[p][o] = x /\ k.kid[b][s] = p /\ k.kid[b][o] = f
  <2>1. k.red = j.red
    BY <1>12, Zenon DEF Turned
  <2> DEFINE d == j.kid[p][Other(s)]
  <2>2. d = b
    BY <1>8
  <2>3. \A a \in Node, t \in Side : k.kid[a][t] = IF a = p THEN IF t = s THEN j.kid[p][t] ELSE j.kid[d][s]
                         ELSE IF a = d THEN IF t = s THEN p ELSE j.kid[d][t]
                         ELSE IF j.kid[a][t] = p THEN d ELSE j.kid[a][t]
    BY <1>12 DEF Turned
  <2> HIDE DEF d
  <2>4. k.kid[p][s] = j.kid[p][s] /\ k.kid[p][o] = j.kid[d][s]
    BY <1>1, <1>2, <2>3
  <2>5. k.kid[d][s] = p /\ k.kid[d][o] = j.kid[d][o]
    BY <1>1, <1>2, <2>2, <2>3
  <2> QED
    BY <1>5, <1>8, <2>1, <2>2, <2>4, <2>5
<1>15. H[NULL] = 0 /\ \A a \in In(h), t \in Side : Count(h, H, p, s, a, t)
  BY <1>1 DEF Balanced
<1> DEFINE e == IF h.red[p] THEN 0 ELSE 1
<1>16. /\ H[b] \in Nat /\ H[z] \in Nat /\ H[x] \in Nat /\ H[f] \in Nat /\ H[p] \in Nat /\ e \in Nat
       /\ H[b] = H[z] + 1 /\ H[x] = H[z] /\ H[f] = H[z] /\ H[p] = H[b] + e
  <2>1. H[b] \in Nat /\ H[z] \in Nat /\ H[x] \in Nat /\ H[f] \in Nat /\ H[p] \in Nat
    BY <1>2, <1>10
  <2>2. H[b] = H[x] + 0 + 1
    <3>1. Count(h, H, p, s, b, s)
      BY <1>1, <1>2, <1>15
    <3> QED
      BY <1>2, <1>3, <1>5, <3>1 DEF Count
  <2>3. H[b] = H[f] + 0 + 1
    <3>1. Count(h, H, p, s, b, o)
      BY <1>2, <1>15
    <3> QED
      BY <1>2, <1>3, <1>5, <3>1 DEF Count
  <2>4. H[p] = H[b] + 0 + e
    <3>1. Count(h, H, p, s, p, o)
      BY <1>1, <1>2, <1>15
    <3> QED
      BY <1>2, <1>5, <3>1 DEF Count
  <2>5. e \in Nat
    OBVIOUS
  <2> HIDE DEF e
  <2> QED
    BY <1>2, <2>1, <2>2, <2>3, <2>4, <2>5
<1>17. G \in [Pointer -> Nat] /\ G[f] = H[f] + 1 /\ \A a \in Pointer : a # f => G[a] = H[a]
  BY <1>2, <1>5, <1>10, <1>16
<1>18. K \in [Pointer -> Nat] /\ K[b] = H[p] /\ K[p] = H[b] /\ \A a \in Pointer : a # b /\ a # p => K[a] = G[a]
  BY <1>2, <1>5, <1>10, <1>16, <1>17
<1>19. ASSUME NEW a \in In(h), NEW t \in Side, a # p, a # b PROVE Count(j, G, NULL, w, a, t)
  <2>1. a \in Node /\ a \in Pointer /\ a # NULL /\ h.kid[a][t] \in Pointer
    BY BelowIs, NodeAssumption DEF In, Pointer
  <2>2. h.kid[a][t] # f
    <3>1. h.kid[a][t] # NULL => h.up[h.kid[a][t]] = a
      BY <2>1, KidIs
    <3> QED
      BY <1>3, <1>4, <1>19, <3>1
  <2>3. G[h.kid[a][t]] = H[h.kid[a][t]] /\ H[h.kid[a][t]] \in Nat /\ j.kid[a][t] = h.kid[a][t] /\ G[a] \in Nat
    BY <1>2, <1>6, <1>17, <2>1, <2>2
  <2>4. H[a] = H[h.kid[a][t]] + 0 + (IF h.red[a] THEN 0 ELSE 1)
    <3>1. Count(h, H, p, s, a, t)
      BY <1>15
    <3> QED
      BY <1>19, <3>1 DEF Count
  <2>5. G[a] = G[j.kid[a][t]] + (IF j.red[a] THEN 0 ELSE 1)
    <3>1. CASE a = f
      <4>1. ~ j.red[f]
        BY <1>4, <1>6
      <4> QED
        BY <1>3, <1>17, <2>3, <2>4, <3>1, <4>1
    <3>2. CASE a # f
      <4>1. j.red[a] = h.red[a]
        BY <1>6, <1>19, <2>1, <3>2
      <4> QED
        BY <1>17, <2>1, <2>3, <2>4, <3>2, <4>1
    <3> QED
      BY <3>1, <3>2
  <2> QED
    BY <2>1, <2>3, <2>5, CountOf
<1>20. Balanced(k, K, NULL, w)
  <2>1. ~ k.red[p] /\ (k.red[b] = h.red[p])
    BY <1>1, <1>2, <1>6, <1>10, <1>14
  <2>2. K[z] = H[z] /\ K[x] = H[z] /\ K[f] = H[b] /\ K[p] = H[b] /\ K[b] = H[b] + e
    <3> HIDE DEF e
    <3> QED
      BY <1>2, <1>10, <1>11, <1>16, <1>17, <1>18
  <2>3. ASSUME NEW t \in Side PROVE Count(k, K, NULL, w, p, t) /\ Count(k, K, NULL, w, b, t)
    <3>1. K[k.kid[p][t]] = H[z] /\ K[k.kid[b][t]] = H[b]
      BY <1>2, <1>14, <2>2
    <3>2. K[p] = K[k.kid[p][t]] + (IF k.red[p] THEN 0 ELSE 1)
      BY <1>16, <2>1, <2>2, <3>1
    <3>3. e = (IF k.red[b] THEN 0 ELSE 1)
      BY <2>1
    <3> HIDE DEF e
    <3>4. K[b] = K[k.kid[b][t]] + (IF k.red[b] THEN 0 ELSE 1)
      BY <1>16, <2>2, <3>1, <3>3
    <3> QED
      BY <1>2, <1>10, <1>16, <3>1, <3>2, <3>4, CountOf
  <2>4. \A a \in In(j), t \in Side : a # p /\ a # j.kid[p][Other(s)] => Count(j, G, NULL, w, a, t)
    BY <1>7, <1>8, <1>19
  <2>5. /\ K[j.kid[p][Other(s)]] = G[p]
        /\ \A a \in Pointer : a # p /\ a # j.kid[p][Other(s)] => K[a] = G[a]
    BY <1>8, <1>10, <1>17, <1>18
  <2>6. /\ Count(k, K, NULL, w, p, s) /\ Count(k, K, NULL, w, p, Other(s))
        /\ Count(k, K, NULL, w, j.kid[p][Other(s)], s) /\ Count(k, K, NULL, w, j.kid[p][Other(s)], Other(s))
    BY <1>1, <1>2, <1>5, <1>8, <2>3
  <2>7. j.kid[p][Other(s)] # NULL /\ G[NULL] = 0 /\ K \in [Pointer -> Nat]
    BY <1>2, <1>3, <1>8, <1>10, <1>15, <1>17, <1>18
  <2> QED
    BY <1>1, <1>7, <1>12, <2>4, <2>5, <2>6, <2>7, TurnCounts
<1>21. Apart(k, NULL, FALSE)
  <2>1. ~ j.red[p] /\ ~ j.red[f] /\ (j.red[b] <=> h.red[p])
    BY <1>1, <1>2, <1>4, <1>6, <1>10
  <2>2. ASSUME NEW a \in In(h), NEW t \in Side, a # p, a # b, h.kid[a][t] # p
        PROVE  Meets(j, NULL, FALSE, a, h.kid[a][t])
    <3> SUFFICES ASSUME j.red[a], h.kid[a][t] # NULL, j.red[h.kid[a][t]] PROVE FALSE
      BY DEF Meets, Black
    <3>1. a \in Node /\ h.kid[a][t] \in Node /\ h.up[h.kid[a][t]] = a
      BY KidIs DEF In
    <3>2. h.kid[a][t] # b /\ a # f /\ h.kid[a][t] # f
      BY <1>2, <2>1, <2>2, <3>1
    <3>3. h.red[a] /\ h.red[h.kid[a][t]]
      BY <1>6, <2>2, <3>1, <3>2
    <3>4. ~ (h.red[a] /\ ~ Black(h, h.kid[a][t]))
      BY <1>1, StrictIs
    <3> QED
      BY <3>3, <3>4 DEF Black
  <2>3. ASSUME NEW a \in In(h), NEW t \in Side, h.kid[a][t] = p PROVE Meets(j, NULL, FALSE, a, b)
    <3> SUFFICES ASSUME j.red[a], j.red[b] PROVE FALSE
      BY <1>2 DEF Meets, Black
    <3>1. a \in Node /\ h.up[p] = a
      BY <1>10, <2>3, KidIs DEF In
    <3>2. a # p /\ a # f /\ a # b
      BY <1>10, <2>1, <3>1
    <3>3. h.red[a] /\ h.red[h.kid[a][t]]
      BY <1>6, <2>1, <2>3, <3>1, <3>2
    <3>4. ~ (h.red[a] /\ ~ Black(h, h.kid[a][t]))
      BY <1>1, StrictIs
    <3> QED
      BY <1>10, <2>3, <3>3, <3>4 DEF Black
  <2>4. /\ \A a : Meets(j, NULL, FALSE, p, a) /\ Meets(j, NULL, FALSE, a, p)
        /\ Meets(j, NULL, FALSE, b, f)
    BY <1>3, <1>10, <2>1 DEF Meets, Black
  <2>5. ~ (h.root = p /\ j.red[b])
    <3>1. h.root = p => ~ h.red[h.root]
      BY <1>1, <1>10, StrictIs
    <3> QED
      BY <2>1, <3>1
  <2>6. ~ (h.root # p /\ h.root # NULL /\ j.red[h.root])
    <3> SUFFICES ASSUME h.root # p, h.root # NULL, j.red[h.root] PROVE FALSE
      OBVIOUS
    <3>1. h.root \in Node /\ h.up[h.root] = NULL
      BY DEF Shape, Linked, In
    <3>2. h.root # b /\ h.root # f
      BY <1>2, <1>10, <2>1, <3>1
    <3>3. h.red[h.root]
      BY <1>6, <3>1, <3>2
    <3> QED
      BY <1>1, <3>3, StrictIs
  <2>7. MeetsTurned(j, NULL, FALSE, p, s)
    <3> DEFINE d == j.kid[p][Other(s)]
    <3>1. d = b
      BY <1>8
    <3>2. \A a \in In(j), t \in Side : a # p /\ a # d /\ j.kid[a][t] # p => Meets(j, NULL, FALSE, a, j.kid[a][t])
      BY <1>6, <1>7, <2>2, <3>1
    <3>3. \A a \in In(j), t \in Side : j.kid[a][t] = p => Meets(j, NULL, FALSE, a, d)
      BY <1>6, <1>7, <2>3, <3>1
    <3>4. j.kid[d][Other(s)] = f
      BY <1>8, <3>1
    <3> HIDE DEF d
    <3>5. /\ Meets(j, NULL, FALSE, p, j.kid[p][s]) /\ Meets(j, NULL, FALSE, p, j.kid[d][s])
          /\ Meets(j, NULL, FALSE, d, p) /\ Meets(j, NULL, FALSE, d, j.kid[d][Other(s)])
      BY <2>4, <3>1, <3>4
    <3>6. ~ (j.root = p /\ j.red[d]) /\ ~ (j.root # p /\ j.root # NULL /\ j.red[j.root])
      BY <1>6, <2>5, <2>6, <3>1
    <3> QED
      BY <3>2, <3>3, <3>5, <3>6 DEF MeetsTurned, d
  <2>8. j.kid[p][Other(s)] # NULL
    BY <1>2, <1>8
  <2> QED
    BY <1>1, <1>7, <1>12, <2>7, <2>8, TurnApart
<1> QED
  BY <1>13, <1>20, <1>21 DEF o, b, f, j, j1, j2, k, G, K

\* A red node that a black is missing at, or the root, is made black.
BlackKept(h, D, H, n, v) ==
  LET k == Paint(h, n, FALSE)
  IN /\ Shape(k, D) /\ In(k) = In(h)
     /\ Balanced(k, IF h.red[n] THEN [H EXCEPT ![n] = @ + 1] ELSE H, NULL, v)
     /\ Apart(k, NULL, FALSE)

LEMMA BlackenColours ==
  ASSUME NEW h, NEW D, Shape(h, D), NEW n \in In(h), NEW H, NEW q, NEW v, Balanced(h, H, q, v), Apart(h, n, TRUE),
         ~ h.red[n] => q = NULL,
         h.red[n] => \A a \in In(h), t \in Side : h.kid[a][t] = n <=> a = q /\ t = v
  PROVE  BlackKept(h, D, H, n, v)
<1> DEFINE k == Paint(h, n, FALSE)
           K == IF h.red[n] THEN [H EXCEPT ![n] = @ + 1] ELSE H
<1>1. n \in Node /\ n \in Pointer /\ n # NULL /\ NULL \in Pointer /\ h \in Heap
  BY NodeAssumption DEF In, Pointer, Shape
<1>2. Blackened(h, k, n)
  BY <1>1, PaintIs
<1>3. h.red[n] => K = [H EXCEPT ![n] = @ + 1]
  OBVIOUS
<1>4. ~ h.red[n] => K = H
  OBVIOUS
<1> HIDE DEF k, K
<1>5. /\ k \in Heap /\ k.root = h.root /\ k.up = h.up /\ k.kid = h.kid
      /\ \A a \in Node : IF a = n THEN ~ k.red[a] ELSE k.red[a] = h.red[a]
  BY <1>2 DEF Blackened
<1>6. Shape(k, D) /\ In(k) = In(h)
  BY <1>5, SameLinks
<1>7. H \in [Pointer -> Nat] /\ H[NULL] = 0 /\ H[n] \in Nat /\ \A a \in In(h), t \in Side : Count(h, H, q, v, a, t)
  BY <1>1 DEF Balanced
<1>8. /\ K \in [Pointer -> Nat] /\ K[NULL] = 0
      /\ h.red[n] => K[n] = H[n] + 1 /\ \A a \in Pointer : a # n => K[a] = H[a]
  BY <1>1, <1>3, <1>4, <1>7
<1>9. ASSUME NEW a \in In(h), NEW t \in Side PROVE Count(k, K, NULL, v, a, t)
  <2> DEFINE w == h.kid[a][t]
  <2>1. a \in Node /\ a \in Pointer /\ a # NULL /\ w \in Pointer
    BY BelowIs, NodeAssumption DEF In, Pointer
  <2>2. /\ H[w] \in Nat /\ H[a] \in Nat /\ K[w] \in Nat
        /\ H[a] = H[w] + (IF a = q /\ t = v THEN 1 ELSE 0) + (IF h.red[a] THEN 0 ELSE 1)
    BY <1>7, <1>8, <2>1 DEF Count
  <2>3. w # NULL => w # a
    BY <2>1, KidIs
  <2>4. k.kid[a][t] = w
    BY <1>5
  <2>5. h.red[n] => (w = n <=> a = q /\ t = v)
    OBVIOUS
  <2> HIDE DEF w
  <2>6. K[a] = K[w] + (IF k.red[a] THEN 0 ELSE 1)
    <3>1. CASE ~ h.red[n]
      <4>1. ~ (a = q /\ t = v)
        BY <2>1, <3>1
      <4>2. K[a] = H[a] /\ K[w] = H[w] /\ (k.red[a] <=> h.red[a])
        BY <1>4, <1>5, <2>1, <3>1
      <4> QED
        BY <2>2, <4>1, <4>2
    <3>2. CASE h.red[n] /\ a = n
      <4>1. w # n /\ ~ (a = q /\ t = v) /\ ~ k.red[a]
        BY <1>1, <1>5, <2>3, <2>5, <3>2
      <4>2. K[a] = H[a] + 1 /\ K[w] = H[w]
        BY <1>8, <2>1, <3>2, <4>1
      <4> QED
        BY <2>2, <3>2, <4>1, <4>2
    <3>3. CASE h.red[n] /\ a # n
      <4>1. K[a] = H[a] /\ (k.red[a] <=> h.red[a])
        BY <1>5, <1>8, <2>1, <3>3
      <4>2. CASE w = n
        <5>1. a = q /\ t = v /\ K[w] = H[w] + 1
          BY <1>8, <2>5, <3>3, <4>2
        <5> QED
          BY <2>2, <4>1, <5>1
      <4>3. CASE w # n
        <5>1. ~ (a = q /\ t = v) /\ K[w] = H[w]
          BY <1>8, <2>1, <2>5, <3>3, <4>3
        <5> QED
          BY <2>2, <4>1, <5>1
      <4> QED
        BY <4>2, <4>3
    <3> QED
      BY <3>1, <3>2, <3>3
  <2> QED
    BY <2>1, <2>2, <2>4, <2>6, CountOf
<1>10. Balanced(k, K, NULL, v)
  BY <1>6, <1>8, <1>9 DEF Balanced
<1>11. ASSUME NEW a \in In(h), NEW t \in Side PROVE Meets(k, NULL, FALSE, a, k.kid[a][t])
  <2> SUFFICES ASSUME k.red[a], h.kid[a][t] # NULL, k.red[h.kid[a][t]] PROVE FALSE
    BY <1>5 DEF Meets, Black
  <2>1. a \in Node /\ h.kid[a][t] \in Node
    BY KidIs DEF In
  <2>2. a # n /\ h.kid[a][t] # n
    BY <1>5, <2>1
  <2>3. h.red[a] /\ h.red[h.kid[a][t]]
    BY <1>5, <2>1, <2>2
  <2>4. Meets(h, n, TRUE, a, h.kid[a][t])
    BY DEF Apart
  <2> QED
    BY <2>2, <2>3, <2>4 DEF Meets, Black
<1>12. ~ (k.root # NULL /\ k.red[k.root])
  <2> SUFFICES ASSUME h.root # NULL, k.red[h.root] PROVE FALSE
    BY <1>5
  <2>1. h.root \in Node
    BY DEF Shape, Linked, In
  <2>2. h.root # n
    BY <1>5, <2>1
  <2>3. h.red[h.root]
    BY <1>5, <2>1, <2>2
  <2> QED
    BY <2>2, <2>3 DEF Apart
<1>13. Apart(k, NULL, FALSE)
  BY <1>6, <1>11, <1>12 DEF Apart
<1> QED
  BY <1>6, <1>10, <1>13 DEF BlackKept, k, K

LEMMA AnySide ==
  ASSUME NEW h, NEW H, NEW u, NEW v, Balanced(h, H, NULL, u)
  PROVE  Balanced(h, H, NULL, v)
<1>1. H \in [Pointer -> Nat] /\ H[NULL] = 0 /\ \A n \in In(h), t \in Side : Count(h, H, NULL, u, n, t)
  BY DEF Balanced
<1>2. ASSUME NEW n \in In(h), NEW t \in Side PROVE Count(h, H, NULL, v, n, t)
  <2>1. n # NULL
    BY NodeAssumption DEF In
  <2>2. ~ (n = NULL /\ t = u) /\ ~ (n = NULL /\ t = v)
    BY <2>1
  <2>3. Count(h, H, NULL, u, n, t)
    BY <1>1
  <2> QED
    BY <2>2, <2>3 DEF Count
<1> QED
  BY <1>1, <1>2 DEF Balanced

(***************************************************************************)
(* The inductive invariant, of the tree h and the call o under way.        *)
(***************************************************************************)
\* A black is missing on a side of the parent, until the loop is at the root.
Hole(h, o) == o.pc = "erase" /\ o.node # h.root

Locals(h, o) ==
  /\ o \in Op
  /\ o.pc = "idle" => o = Idle
  /\ o.pc = "insert" => /\ o.of \in In(h) /\ o.node \in In(h) /\ h.red[o.node]
  /\ Hole(h, o) => o.parent \in In(h) /\ h.kid[o.parent][SideOf(h, o.node, o.parent)] = o.node
  /\ o.pc \in {"erase", "augment"} /\ o.deepest # NULL => o.deepest \in In(h)

Colours(h, o, H) ==
  /\ IF Hole(h, o) THEN Balanced(h, H, o.parent, SideOf(h, o.node, o.parent))
     ELSE Balanced(h, H, NULL, "left")
  /\ CASE o.pc = "insert" -> Apart(h, o.node, FALSE)
       [] o.pc = "erase" -> Apart(h, o.node, TRUE)
       [] OTHER -> Apart(h, NULL, FALSE)

Good(h, o) == Locals(h, o) /\ \E D, H : Shape(h, D) /\ Colours(h, o, H)
IInv == Good(heap, op)

LEMMA GoodInsert ==
  ASSUME NEW h, NEW o \in Op, o.pc = "insert", o.of \in In(h), o.node \in In(h), h.red[o.node],
         NEW D, Shape(h, D), NEW H, NEW u, Balanced(h, H, NULL, u), Apart(h, o.node, FALSE)
  PROVE  Good(h, o)
<1>1. Balanced(h, H, NULL, "left")
  BY AnySide
<1>2. ~ Hole(h, o)
  BY DEF Hole
<1>3. Locals(h, o)
  BY <1>2 DEF Locals
<1>4. Colours(h, o, H)
  BY <1>1, <1>2 DEF Colours
<1> QED
  BY <1>3, <1>4 DEF Good

LEMMA GoodHole ==
  ASSUME NEW h, NEW o \in Op, o.pc = "erase", o.node # h.root, o.parent \in In(h), NEW s,
         s = SideOf(h, o.node, o.parent), h.kid[o.parent][s] = o.node, o.deepest # NULL => o.deepest \in In(h),
         NEW D, Shape(h, D), NEW H, Balanced(h, H, o.parent, s), Apart(h, o.node, TRUE)
  PROVE  Good(h, o)
<1>1. Hole(h, o)
  BY DEF Hole
<1>2. Locals(h, o)
  BY <1>1 DEF Locals
<1>3. Colours(h, o, H)
  BY <1>1 DEF Colours
<1> QED
  BY <1>2, <1>3 DEF Good

LEMMA GoodRoot ==
  ASSUME NEW h, NEW o \in Op, o.pc = "erase", o.node = h.root, o.deepest # NULL => o.deepest \in In(h),
         NEW D, Shape(h, D), NEW H, NEW u, Balanced(h, H, NULL, u), Apart(h, o.node, TRUE)
  PROVE  Good(h, o)
<1>1. ~ Hole(h, o)
  BY DEF Hole
<1>2. Locals(h, o)
  BY <1>1 DEF Locals
<1>3. Balanced(h, H, NULL, "left")
  BY AnySide
<1>4. Colours(h, o, H)
  BY <1>1, <1>3 DEF Colours
<1> QED
  BY <1>2, <1>4 DEF Good

LEMMA GoodAugment ==
  ASSUME NEW h, NEW o \in Op, o.pc = "augment", o.deepest # NULL => o.deepest \in In(h),
         NEW D, Shape(h, D), NEW H, NEW u, Balanced(h, H, NULL, u), Apart(h, NULL, FALSE)
  PROVE  Good(h, o)
<1>1. ~ Hole(h, o)
  BY DEF Hole
<1>2. Locals(h, o)
  BY <1>1 DEF Locals
<1>3. Balanced(h, H, NULL, "left")
  BY AnySide
<1>4. Colours(h, o, H)
  BY <1>1, <1>3 DEF Colours
<1> QED
  BY <1>2, <1>4 DEF Good

LEMMA GoodIdle ==
  ASSUME NEW h, NEW D, Shape(h, D), NEW H, NEW u, Balanced(h, H, NULL, u), Apart(h, NULL, FALSE)
  PROVE  Good(h, Idle)
<1>1. Idle \in Op /\ Idle.pc = "idle"
  BY NodeAssumption DEF Idle, Op, Pointer
<1>2. ~ Hole(h, Idle)
  BY <1>1 DEF Hole
<1>3. Locals(h, Idle)
  BY <1>1, <1>2 DEF Locals
<1>4. Balanced(h, H, NULL, "left")
  BY AnySide
<1>5. Colours(h, Idle, H)
  BY <1>1, <1>2, <1>4 DEF Colours
<1> QED
  BY <1>3, <1>5 DEF Good

\* What the invariant says of each kind of call.
LEMMA GoodIs ==
  ASSUME NEW h, NEW o, Good(h, o)
  PROVE  /\ Locals(h, o)
         /\ \E D, H : /\ Shape(h, D)
                      /\ IF Hole(h, o) THEN Balanced(h, H, o.parent, SideOf(h, o.node, o.parent))
                         ELSE Balanced(h, H, NULL, "left")
                      /\ CASE o.pc = "insert" -> Apart(h, o.node, FALSE)
                           [] o.pc = "erase" -> Apart(h, o.node, TRUE)
                           [] OTHER -> Apart(h, NULL, FALSE)
BY DEF Good, Colours

\* At the start no node is in the tree.
LEMMA StartGood ==
  ASSUME Init
  PROVE  IInv
<1> DEFINE D == [n \in Pointer |-> IF n = NULL THEN {} ELSE {n}]
           H == [n \in Pointer |-> 0]
<1>1. /\ heap \in Heap /\ heap.root = NULL /\ (\A n \in Node : heap.up[n] = n)
      /\ \A n \in Node, s \in Side : heap.kid[n][s] = NULL
  BY NodeAssumption DEF Init, Heap, Pointer
<1>2. In(heap) = {}
  BY <1>1 DEF In
<1>3. D \in [Pointer -> SUBSET Node] /\ D[NULL] = {} /\ \A n \in Node : D[n] = {n}
  BY NodeAssumption DEF Pointer
<1> HIDE DEF D
<1>4. "left" \in Side /\ "right" \in Side
  BY DEF Side
<1>5. Spread(heap, D)
  BY <1>1, <1>3, <1>4 DEF Spread
<1>6. Linked(heap)
  BY <1>1, <1>2 DEF Linked
<1>7. Shape(heap, D)
  BY <1>1, <1>2, <1>3, <1>5, <1>6 DEF Shape
<1>8. Balanced(heap, H, NULL, "left")
  BY <1>2 DEF Balanced, Pointer
<1>9. Apart(heap, NULL, FALSE)
  BY <1>1, <1>2 DEF Apart
<1>10. op = Idle
  BY DEF Init
<1> HIDE DEF H
<1>11. Good(heap, Idle)
  BY <1>7, <1>8, <1>9, GoodIdle
<1> QED
  BY <1>10, <1>11 DEF IInv

LEMMA InsertGood ==
  ASSUME IInv, NEW n \in Node, Insert(n)
  PROVE  IInv' /\ In(heap') = In(heap) \cup {n} /\ \A m \in In(heap) : key[m] # key[n]
<1> DEFINE at == Search(heap, key[n])
<1>1. op.pc = "idle" /\ at.found = NULL /\ heap' = Link(heap, n, at.parent, at.side)
      /\ op' = [Idle EXCEPT !.pc = "insert", !.of = n, !.node = n]
  BY DEF Insert
<1>2. PICK D, H : Shape(heap, D) /\ Balanced(heap, H, NULL, "left") /\ Apart(heap, NULL, FALSE)
  <2>1. ~ Hole(heap, op)
    BY <1>1 DEF Hole
  <2>2. Good(heap, op)
    BY DEF IInv
  <2> QED
    BY <1>1, <2>1, <2>2, GoodIs
<1>3. key[n] \in Int
  BY NodeAssumption
<1>4. Room(heap, D, key[n], at.parent, at.side) /\ \A x \in In(heap) : key[x] # key[n]
  BY <1>1, <1>2, <1>3, SearchIs
<1> HIDE DEF at
<1>5. n \notin In(heap)
  BY <1>4
<1>6. at.parent \in Pointer /\ at.side \in Side /\ at.parent # n
      /\ (at.parent # NULL => at.parent \in In(heap) /\ heap.kid[at.parent][at.side] = NULL)
  BY <1>4, <1>5, NodeAssumption DEF Room
<1>7. Joined(heap, heap', n, at.parent, at.side)
  BY <1>1, <1>2, <1>6, LinkIs DEF Shape
<1>8. Shape(heap', JoinedBelow(D, n, at.parent)) /\ In(heap') = In(heap) \cup {n}
  BY <1>2, <1>4, <1>5, <1>7, JoinShape
<1>9. Balanced(heap', [H EXCEPT ![n] = 0], NULL, "left") /\ Apart(heap', n, FALSE) /\ heap'.red[n]
  BY <1>2, <1>5, <1>6, <1>7, <1>8, JoinColours
<1>10. op' \in Op /\ op'.pc = "insert" /\ op'.of = n /\ op'.node = n
  BY <1>1, NodeAssumption DEF Idle, Op, Pointer
<1>11. Good(heap', op')
  BY <1>8, <1>9, <1>10, GoodInsert
<1> QED
  BY <1>4, <1>8, <1>11 DEF IInv

LEMMA InsertIs ==
  ASSUME IInv, op.pc = "insert"
  PROVE  /\ op \in Op /\ op.of \in In(heap) /\ op.node \in In(heap) /\ heap.red[op.node]
         /\ \E D, H : Shape(heap, D) /\ Balanced(heap, H, NULL, "left") /\ Apart(heap, op.node, FALSE)
<1>1. Good(heap, op) /\ ~ Hole(heap, op)
  BY DEF IInv, Hole
<1>2. Locals(heap, op)
  BY <1>1, GoodIs
<1>3. \E D, H : Shape(heap, D) /\ Balanced(heap, H, NULL, "left") /\ Apart(heap, op.node, FALSE)
  BY <1>1, GoodIs
<1> QED
  BY <1>2, <1>3 DEF Locals

LEMMA RecolourGood ==
  ASSUME IInv, InsertRecolour
  PROVE  IInv' /\ In(heap') = In(heap)
<1> DEFINE n == op.node
           p == heap.up[n]
           g == heap.up[p]
           s == SideOf(heap, p, g)
           u == heap.kid[g][Other(s)]
           k == Paint(Paint(Paint(heap, u, FALSE), p, FALSE), g, TRUE)
<1>1. op.pc = "insert" /\ ~ Black(heap, p) /\ ~ Black(heap, u) /\ heap' = k /\ op' = [op EXCEPT !.node = g]
  BY DEF InsertRecolour
<1>2. op \in Op /\ op.of \in In(heap) /\ n \in In(heap) /\ heap.red[n]
  BY <1>1, InsertIs
<1>3. PICK D, H : Shape(heap, D) /\ Balanced(heap, H, NULL, "left") /\ Apart(heap, n, FALSE)
  BY <1>1, InsertIs
<1>4. Clash(heap, n, p, g, s)
  BY <1>1, <1>2, <1>3, Grandparent
<1>5. u = heap.kid[g][Other(s)]
  OBVIOUS
<1> HIDE DEF n, p, g, s
<1>6. /\ Shape(k, D) /\ In(k) = In(heap)
      /\ Balanced(k, [H EXCEPT ![p] = @ + 1, ![u] = @ + 1], NULL, "left")
      /\ Apart(k, g, FALSE) /\ k.red[g] /\ g \in In(k)
  <2>1. ~ Black(heap, heap.kid[g][Other(s)])
    BY <1>1
  <2> QED
    BY <1>3, <1>4, <2>1, RecolourColours
<1> HIDE DEF k, u
<1>7. op' \in Op /\ op'.pc = "insert" /\ op'.of = op.of /\ op'.node = g
  BY <1>1, <1>2, <1>4 DEF Clash, Op, Pointer
<1>8. Good(k, op')
  BY <1>2, <1>6, <1>7, GoodInsert
<1> QED
  BY <1>1, <1>6, <1>8 DEF IInv

LEMMA RotateGood ==
  ASSUME IInv, InsertRotate
  PROVE  IInv' /\ In(heap') = In(heap)
<1> DEFINE n == op.node
           p == heap.up[n]
           g == heap.up[p]
           s == SideOf(heap, p, g)
           inner == heap.kid[p][Other(s)] = n
           h == IF inner THEN Rotate(heap, p, s) ELSE heap
           q == IF inner THEN n ELSE p
           r == IF inner THEN p ELSE n
           k == Rotate(Paint(Paint(h, q, FALSE), g, TRUE), g, Other(s))
<1>1. op.pc = "insert" /\ ~ Black(heap, p) /\ Black(heap, heap.kid[g][Other(s)]) /\ heap' = k
      /\ op' = [op EXCEPT !.node = r]
  BY DEF InsertRotate
<1>2. op \in Op /\ op.of \in In(heap) /\ n \in In(heap) /\ heap.red[n]
  BY <1>1, InsertIs
<1>3. PICK D, H : Shape(heap, D) /\ Balanced(heap, H, NULL, "left") /\ Apart(heap, n, FALSE)
  BY <1>1, InsertIs
<1>4. Clash(heap, n, p, g, s)
  BY <1>1, <1>2, <1>3, Grandparent
<1> HIDE DEF n, p, g, s
<1>5. n \in Node /\ p \in Node /\ s \in Side /\ Other(s) \in Side /\ (\A t \in Side : t = s \/ t = Other(s))
  BY <1>4, Sides DEF Clash
<1>6. \E E : /\ Shape(h, E) /\ In(h) = In(heap) /\ Balanced(h, H, NULL, "left")
             /\ Apart(h, r, FALSE) /\ Clash(h, r, q, g, s) /\ h.kid[q][s] = r /\ Black(h, h.kid[g][Other(s)])
  <2>1. CASE inner
    <3> DEFINE j == Rotate(heap, p, s)
    <3>1. heap.kid[p][Other(s)] = n
      BY <2>1
    <3>2. j = Rotate(heap, p, s)
      OBVIOUS
    <3> HIDE DEF j
    <3>3. /\ Shape(j, TurnedBelow(heap, D, p, s)) /\ In(j) = In(heap)
          /\ Balanced(j, H, NULL, "left") /\ Apart(j, p, FALSE)
          /\ j.red = heap.red /\ Clash(j, p, n, g, s)
          /\ j.kid[n][s] = p /\ j.kid[g][Other(s)] = heap.kid[g][Other(s)]
      <4>1. InnerKept(heap, j, D, H, "left", n, p, g, s)
        BY <1>3, <1>4, <3>1, <3>2, InnerTurn
      <4> QED
        BY <4>1 DEF InnerKept
    <3>4. Black(j, j.kid[g][Other(s)])
      BY <1>1, <3>3 DEF Black
    <3>5. h = j /\ r = p /\ q = n
      BY <2>1 DEF j
    <3> HIDE DEF h, r, q
    <3> QED
      BY <3>3, <3>4, <3>5
  <2>2. CASE ~ inner
    <3>1. h = heap /\ r = n /\ q = p
      BY <2>2
    <3>2. heap.kid[p][s] = n
      BY <1>4, <1>5, <2>2 DEF Clash
    <3>3. Black(heap, heap.kid[g][Other(s)])
      BY <1>1
    <3> HIDE DEF h, r, q, inner
    <3> QED
      BY <1>3, <1>4, <3>1, <3>2, <3>3
  <2> QED
    BY <2>1, <2>2
<1>7. PICK E : /\ Shape(h, E) /\ In(h) = In(heap) /\ Balanced(h, H, NULL, "left")
               /\ Apart(h, r, FALSE) /\ Clash(h, r, q, g, s) /\ h.kid[q][s] = r /\ Black(h, h.kid[g][Other(s)])
  BY <1>6
<1>8. r \in Node
  BY <1>5
<1> HIDE DEF h, r, q, inner
<1> DEFINE j == Paint(Paint(h, q, FALSE), g, TRUE)
<1>9. /\ Shape(k, TurnedBelow(j, E, g, Other(s))) /\ In(k) = In(h)
      /\ Balanced(k, [H EXCEPT ![q] = H[g], ![g] = H[q]], NULL, "left")
      /\ Apart(k, r, FALSE) /\ k.red[r]
  <2>1. OuterKept(h, E, H, "left", r, q, g, s)
    BY <1>7, OuterTurn
  <2> QED
    BY <2>1, Zenon DEF OuterKept
<1> HIDE DEF k, j
<1>10. op' \in Op /\ op'.pc = "insert" /\ op'.of = op.of /\ op'.node = r
  BY <1>1, <1>2, <1>8 DEF Op, Pointer
<1>11. r \in In(k)
  BY <1>7, <1>9 DEF Clash
<1>12. Good(k, op')
  BY <1>2, <1>7, <1>9, <1>10, <1>11, GoodInsert
<1> QED
  BY <1>1, <1>7, <1>9, <1>12 DEF IInv

LEMMA InsertDoneGood ==
  ASSUME IInv, InsertDone
  PROVE  IInv' /\ In(heap') = In(heap)
<1> DEFINE n == op.node
           r == heap.root
           h == Paint(heap, r, FALSE)
           d == AugmentInsert(h, op.of)
<1>1. op.pc = "insert" /\ Black(heap, heap.up[n]) /\ heap' = h
      /\ op' = [Idle EXCEPT !.pc = "augment", !.of = op.of, !.deepest = d]
  BY DEF InsertDone
<1>2. op \in Op /\ op.of \in In(heap) /\ n \in In(heap) /\ heap.red[n]
  BY <1>1, InsertIs
<1>3. PICK D, H : Shape(heap, D) /\ Balanced(heap, H, NULL, "left") /\ Apart(heap, n, FALSE)
  BY <1>1, InsertIs
<1>4. r # NULL /\ r \in In(heap) /\ r \in Node /\ heap.up[r] = NULL
  <2>1. r # NULL
    <3>1. D[NULL] = {} /\ D[heap.root] = In(heap)
      BY <1>3 DEF Shape, Spread
    <3> QED
      BY <1>2, <3>1
  <2> QED
    BY <1>3, <2>1 DEF Shape, Linked, In
<1>5. \A a \in In(heap), t \in Side : heap.kid[a][t] # NULL => heap.up[heap.kid[a][t]] = a /\ a # NULL
  BY <1>3, KidIs, NodeAssumption DEF In
<1>6. Apart(heap, r, TRUE)
  <2>1. ASSUME NEW a \in In(heap), NEW t \in Side PROVE Meets(heap, r, TRUE, a, heap.kid[a][t])
    <3>1. Meets(heap, n, FALSE, a, heap.kid[a][t])
      BY <1>3 DEF Apart
    <3> SUFFICES ASSUME heap.red[a], ~ Black(heap, heap.kid[a][t]) PROVE FALSE
      BY DEF Meets
    <3>2. heap.kid[a][t] = n /\ n # NULL
      BY <3>1 DEF Meets, Black
    <3>3. heap.up[n] = a /\ a # NULL
      BY <1>5, <3>2
    <3> QED
      BY <1>1, <3>3 DEF Black
  <2> HIDE DEF r
  <2> QED
    BY <2>1 DEF Apart, r
<1>7. \A a \in In(heap), t \in Side : heap.kid[a][t] = r <=> a = NULL /\ t = "left"
  <2>1. \A a \in In(heap) : a # NULL
    BY NodeAssumption DEF In
  <2> QED
    BY <1>4, <1>5, <2>1
<1> HIDE DEF n, r
<1>8. /\ Shape(h, D) /\ In(h) = In(heap)
      /\ Balanced(h, IF heap.red[r] THEN [H EXCEPT ![r] = @ + 1] ELSE H, NULL, "left")
      /\ Apart(h, NULL, FALSE)
  <2> DEFINE q == NULL
             v == "left"
  <2>1. q = NULL /\ v = "left"
    OBVIOUS
  <2> HIDE DEF q, v
  <2>2. /\ Balanced(heap, H, q, v)
        /\ ~ heap.red[r] => q = NULL
        /\ heap.red[r] => \A a \in In(heap), t \in Side : heap.kid[a][t] = r <=> a = q /\ t = v
    BY <1>3, <1>7, <2>1
  <2>3. Shape(heap, D) /\ r \in In(heap) /\ Apart(heap, r, TRUE)
    BY <1>3, <1>4, <1>6
  <2>4. BlackKept(heap, D, H, r, v)
    BY <2>2, <2>3, BlackenColours
  <2> QED
    BY <2>1, <2>4, Zenon DEF BlackKept
<1> HIDE DEF h
<1>9. d \in In(h) /\ d \in Node
  <2>1. op.of \in In(h) /\ op.of \in Node
    BY <1>2, <1>8 DEF In
  <2>2. \A t \in Side : h.kid[op.of][t] # NULL => h.kid[op.of][t] \in In(h)
    BY <1>8, <2>1, KidIs
  <2>3. "left" \in Side /\ "right" \in Side
    BY DEF Side
  <2>4. d \in In(h)
    BY <2>1, <2>2, <2>3 DEF AugmentInsert
  <2> QED
    BY <2>4 DEF In
<1> HIDE DEF d
<1>10. op' \in Op /\ op'.pc = "augment" /\ op'.deepest = d
  BY <1>1, <1>2, <1>9, NodeAssumption DEF Op, Pointer, Idle
<1>11. Good(h, op')
  BY <1>8, <1>9, <1>10, GoodAugment
<1> QED
  BY <1>1, <1>8, <1>11 DEF IInv

LEMMA NotRoot ==
  ASSUME NEW h, NEW D, Shape(h, D), NEW p \in In(h), NEW s \in Side
  PROVE  h.kid[p][s] # h.root
<1>1. h.root # NULL
  <2>1. D[NULL] = {} /\ D[h.root] = In(h)
    BY DEF Shape, Spread
  <2> QED
    BY <2>1
<1>2. h.up[h.root] = NULL
  BY <1>1 DEF Shape, Linked
<1>3. p \in Node /\ p # NULL
  BY NodeAssumption DEF In
<1>4. h.kid[p][s] # NULL => h.up[h.kid[p][s]] = p
  BY <1>3, KidIs
<1> QED
  BY <1>1, <1>2, <1>3, <1>4

\* What is left of the tree when n has been unlinked: where its place, or that
\* of the next node, was black, a black is missing at its child.
Unlinked(h, g, n, c, p, isRed) ==
  \E E, H : /\ Shape(g, E)
            /\ IF isRed THEN Balanced(g, H, NULL, "left") /\ Apart(g, NULL, FALSE)
               ELSE /\ Apart(g, c, TRUE)
                    /\ \/ p = NULL /\ g.root = c /\ Balanced(g, H, NULL, "left")
                       \/ \E u \in Side : p \in In(g) /\ g.kid[p][u] = c /\ Balanced(g, H, p, u)

LEMMA UnlinkOneGood ==
  ASSUME NEW h, NEW D, Shape(h, D), NEW n \in In(h), ~ \A s \in Side : h.kid[n][s] # NULL,
         NEW H, Balanced(h, H, NULL, "left"), Apart(h, NULL, FALSE)
  PROVE  LET cut == UnlinkOne(h, n)
             g == InitNode(cut.heap, n)
         IN /\ Unlinked(h, g, n, cut.child, cut.parent, cut.red) /\ In(g) = In(h) \ {n}
            /\ cut.child \in Pointer /\ cut.parent \in Pointer
<1> DEFINE cut == UnlinkOne(h, n)
           g == InitNode(cut.heap, n)
           c == cut.child
           p == cut.parent
           s == SideOf(h, n, p)
<1>1. OnlyChild(h, n, c) /\ Cut1(h, g, n, c) /\ p = h.up[n] /\ cut.red = h.red[n]
  BY UnlinkOneIs
<1> HIDE DEF cut, g
<1>2. Shape(g, CutBelow(D, n)) /\ In(g) = In(h) \ {n}
  <2> HIDE DEF c, p
  <2> QED
    BY <1>1, CutShape
<1>3. /\ Apart(g, c, TRUE)
      /\ h.red[n] => c = NULL /\ Balanced(g, H, NULL, "left") /\ Apart(g, NULL, FALSE)
      /\ ~ h.red[n] /\ h.up[n] = NULL => Balanced(g, H, NULL, "left")
      /\ ~ h.red[n] /\ h.up[n] # NULL => Balanced(g, H, h.up[n], SideOf(h, n, h.up[n]))
  <2> HIDE DEF c, p
  <2> QED
    <3>1. CutKept(h, g, H, "left", n, c)
      BY <1>1, <1>2, CutColours
    <3> QED
      BY <3>1, Zenon DEF CutKept
<1> HIDE DEF c, p
<1>4. /\ n \in Node /\ p \in Pointer /\ p # n /\ (p = NULL <=> h.root = n)
      /\ p # NULL => p \in In(h) /\ p \in Node /\ s \in Side /\ h.kid[p][s] = n
  BY <1>1, PlaceIs
<1>5. c \in Pointer
  BY <1>1, <1>4, BelowIs DEF OnlyChild
<1> HIDE DEF s
<1>6. p # NULL => p \in In(g) /\ g.kid[p][s] = c
  BY <1>1, <1>2, <1>4 DEF Cut1
<1>7. p = NULL => g.root = c
  BY <1>1, <1>4 DEF Cut1
<1>8. Unlinked(h, g, n, c, p, cut.red)
  <2>1. CASE h.red[n]
    BY <1>1, <1>2, <1>3, <2>1 DEF Unlinked
  <2>2. CASE ~ h.red[n] /\ p = NULL
    BY <1>1, <1>2, <1>3, <1>7, <2>2 DEF Unlinked
  <2>3. CASE ~ h.red[n] /\ p # NULL
    <3>1. Balanced(g, H, p, s)
      BY <1>1, <1>3, <2>3 DEF s
    <3> QED
      BY <1>1, <1>2, <1>3, <1>4, <1>6, <2>3, <3>1 DEF Unlinked
  <2> QED
    BY <2>1, <2>2, <2>3
<1> QED
  BY <1>2, <1>4, <1>5, <1>8 DEF cut, g, c, p

LEMMA UnlinkTwoGood ==
  ASSUME NEW h, NEW D, Shape(h, D), NEW n \in In(h), \A s \in Side : h.kid[n][s] # NULL,
         NEW H, Balanced(h, H, NULL, "left"), Apart(h, NULL, FALSE)
  PROVE  LET cut == UnlinkTwo(h, n)
             g == InitNode(cut.heap, n)
         IN /\ Unlinked(h, g, n, cut.child, cut.parent, cut.red) /\ In(g) = In(h) \ {n}
            /\ cut.child \in Pointer /\ cut.parent \in Pointer
<1> DEFINE cut == UnlinkTwo(h, n)
           g == InitNode(cut.heap, n)
           m == Next1(h, n)
           one == InitNode(UnlinkOne(h, m).heap, m)
           c == cut.child
           p == cut.parent
           q == h.up[m]
           u == SideOf(h, m, q)
           E == CutBelow(D, m)
           K == [H EXCEPT ![m] = H[n]]
<1>1. /\ Cut1(h, one, m, c) /\ Swapped(one, g, n, m) /\ FitsFor(one, E, n, m)
      /\ p = (IF q = n THEN m ELSE q) /\ cut.red = h.red[m] /\ c = h.kid[m]["right"]
  BY UnlinkTwoIs
<1>2. /\ m \in Node /\ m \in In(h) /\ m # n /\ m \in D[n] /\ OnlyChild(h, m, h.kid[m]["right"])
      /\ q \in In(h)
  BY NextIs
<1>3. n \in Node /\ NULL \notin Node
  BY NodeAssumption DEF In
<1>4. c # m /\ c # n /\ c \in Pointer
  <2>1. "right" \in Side
    BY DEF Side
  <2>2. h.kid[m]["right"] \in Pointer
    BY <1>2, <2>1, BelowIs
  <2>3. h.kid[m]["right"] # NULL => h.kid[m]["right"] # m /\ h.kid[m]["right"] \in D[m]
    BY <1>2, <2>1, KidIs
  <2>4. n \notin D[m]
    BY <1>2, <1>3, OneAbove
  <2> QED
    BY <1>1, <1>2, <1>3, <2>2, <2>3, <2>4
<1>5. OnlyChild(h, m, c)
  BY <1>1, <1>2
<1> HIDE DEF cut, g, one, c, p
<1>6. /\ m \in Node /\ q \in Node /\ q # m /\ u \in Side /\ h.kid[q][u] = m
      /\ \A a \in Node, t \in Side : h.kid[a][t] = m <=> a = q /\ t = u
  <2> HIDE DEF m
  <2>1. q # NULL
    BY <1>2, NodeAssumption DEF In
  <2> QED
    BY <1>2, <2>1, PlaceIs
<1> HIDE DEF m
<1>7. Shape(one, E) /\ In(one) = In(h) \ {m}
  BY <1>1, <1>2, <1>5, CutShape
<1>8. /\ Apart(one, c, TRUE)
      /\ h.red[m] => c = NULL /\ Balanced(one, H, NULL, "left") /\ Apart(one, NULL, FALSE)
      /\ ~ h.red[m] /\ h.up[m] = NULL => Balanced(one, H, NULL, "left")
      /\ ~ h.red[m] /\ h.up[m] # NULL => Balanced(one, H, h.up[m], SideOf(h, m, h.up[m]))
  <2>1. CutKept(h, one, H, "left", m, c)
    <3>1. Cut1(h, one, m, c) /\ m \in In(h)
      BY <1>1, <1>2
    <3> QED
      BY <1>5, <1>7, <3>1, CutColours
  <2> QED
    BY <2>1, Zenon DEF CutKept
<1>9. n \in In(one) /\ m \in Node \ In(one)
  BY <1>2, <1>7
<1> HIDE DEF E
<1>10. Shape(g, SwappedBelow(E, n, m)) /\ In(g) = (In(one) \ {n}) \cup {m}
  BY <1>1, <1>7, <1>9, SwapShape
<1>11. In(g) = In(h) \ {n}
  BY <1>2, <1>7, <1>10
<1> HIDE DEF q, u
<1>12. \A at, both : at # n /\ at # m /\ Apart(one, at, both) => Apart(g, at, both)
  <2>1. \E r, v : r # m /\ Balanced(one, H, r, v)
    BY <1>2, <1>3, <1>6, <1>8 DEF q
  <2> QED
    BY <1>1, <1>7, <1>9, <1>10, <2>1, SwapColours
<1>13. Apart(g, c, TRUE)
  BY <1>4, <1>8, <1>12
<1>14. CASE h.red[m]
  <2>1. Balanced(g, K, IF NULL = n THEN m ELSE NULL, "left")
    <3>1. Balanced(one, H, NULL, "left") /\ NULL # m
      BY <1>3, <1>6, <1>8, <1>14
    <3> QED
      BY <1>1, <1>7, <1>9, <1>10, <3>1, SwapColours
  <2>2. Balanced(g, K, NULL, "left")
    BY <1>3, <2>1
  <2>3. Apart(g, NULL, FALSE)
    BY <1>3, <1>6, <1>8, <1>12, <1>14
  <2>4. Unlinked(h, g, n, c, p, cut.red)
    <3> HIDE DEF K
    <3> QED
      BY <1>1, <1>10, <1>14, <2>2, <2>3 DEF Unlinked
  <2> QED
    BY <1>1, <1>4, <1>6, <1>11, <2>4 DEF cut, g, c, p, Pointer
<1>15. CASE ~ h.red[m]
  <2>1. Balanced(g, K, IF q = n THEN m ELSE q, u)
    <3>1. Balanced(one, H, q, u) /\ q # m
      BY <1>3, <1>6, <1>8, <1>15 DEF q, u
    <3> QED
      BY <1>1, <1>7, <1>9, <1>10, <3>1, SwapColours
  <2>2. Balanced(g, K, p, u)
    BY <1>1, <2>1
  <2>3. g.kid[p][u] = c
    <3>1. one.kid[q][u] = c
      BY <1>1, <1>6 DEF Cut1
    <3>2. CASE q = n
      <4>1. g.kid[m][u] = one.kid[n][u]
        BY <1>1, <1>2, <1>6 DEF Swapped
      <4> QED
        BY <1>1, <3>1, <3>2, <4>1
    <3>3. CASE q # n
      <4>1. g.kid[q][u] = c
        BY <1>1, <1>4, <1>6, <3>1, <3>3 DEF Swapped
      <4> QED
        BY <1>1, <3>3, <4>1
    <3> QED
      BY <3>2, <3>3
  <2>4. p \in In(g)
    BY <1>1, <1>2, <1>6, <1>11
  <2>5. Unlinked(h, g, n, c, p, cut.red)
    <3> HIDE DEF K
    <3> QED
      BY <1>1, <1>6, <1>10, <1>13, <1>15, <2>2, <2>3, <2>4 DEF Unlinked
  <2> QED
    BY <1>1, <1>4, <1>6, <1>11, <2>5 DEF cut, g, c, p, Pointer
<1> QED
  BY <1>14, <1>15

\* rb_augment_erase_begin names a node that stays in the tree.
LEMMA DeepestIs ==
  ASSUME NEW h, NEW D, Shape(h, D), NEW n \in In(h)
  PROVE  LET d == AugmentErase(h, n) IN d # NULL => d \in In(h) /\ d # n /\ d \in Node
<1> DEFINE l == h.kid[n]["left"]
           r == h.kid[n]["right"]
           d == AugmentErase(h, n)
<1>1. /\ n \in Node /\ h.up[n] # n /\ (h.up[n] # NULL => h.up[n] \in In(h) /\ h.up[n] \in Node)
  BY PlaceIs
<1>2. "left" \in Side /\ "right" \in Side
  BY DEF Side
<1>3. /\ l # NULL => l \in In(h) /\ l # n /\ l \in Node
      /\ r # NULL => r \in In(h) /\ r # n /\ r \in Node
  BY <1>1, <1>2, KidIs
<1>4. CASE l = NULL /\ r = NULL
  <2>1. d = h.up[n]
    BY <1>4 DEF AugmentErase
  <2> QED
    BY <1>1, <2>1
<1>5. CASE l # NULL /\ r = NULL
  <2>1. d = l
    BY <1>5 DEF AugmentErase
  <2> QED
    BY <1>3, <1>5, <2>1
<1>6. CASE l = NULL /\ r # NULL
  <2>1. d = r
    BY <1>6 DEF AugmentErase
  <2> QED
    BY <1>3, <1>6, <2>1
<1>7. CASE l # NULL /\ r # NULL
  <2> DEFINE m == Next1(h, n)
  <2>1. \A s \in Side : h.kid[n][s] # NULL
    BY <1>7 DEF Side
  <2>2. /\ m \in Node /\ m \in In(h) /\ m # n /\ m \in D[n] /\ h.up[m] \in In(h) /\ RbNext(h, n) = m
    BY <2>1, NextIs
  <2> HIDE DEF m
  <2>3. d = IF h.kid[m]["right"] # NULL THEN h.kid[m]["right"]
            ELSE IF h.up[m] # n THEN h.up[m] ELSE m
    <3> DEFINE e == RbNext(h, n)
    <3>1. d = IF h.kid[e]["right"] # NULL THEN h.kid[e]["right"]
              ELSE IF h.up[e] # n THEN h.up[e] ELSE e
      BY <1>7 DEF AugmentErase
    <3> QED
      BY <2>2, <3>1
  <2>4. h.kid[m]["right"] # NULL
          => h.kid[m]["right"] \in In(h) /\ h.kid[m]["right"] # n /\ h.kid[m]["right"] \in Node
    <3> SUFFICES ASSUME h.kid[m]["right"] # NULL
                 PROVE  h.kid[m]["right"] \in In(h) /\ h.kid[m]["right"] # n /\ h.kid[m]["right"] \in Node
      OBVIOUS
    <3>1. h.kid[m]["right"] \in In(h) /\ h.kid[m]["right"] \in Node /\ h.kid[m]["right"] \in D[m]
      BY <1>2, <2>2, KidIs
    <3>2. n \notin D[m]
      BY <1>1, <2>2, OneAbove
    <3> QED
      BY <3>1, <3>2
  <2>5. h.up[m] \in Node
    BY <2>2 DEF In
  <2> QED
    BY <2>2, <2>3, <2>4, <2>5
<1> QED
  BY <1>4, <1>5, <1>6, <1>7


LEMMA EraseGood ==
  ASSUME IInv, NEW n \in Node, Erase(n)
  PROVE  IInv' /\ n \in In(heap) /\ In(heap') = In(heap) \ {n}
<1> DEFINE two == \A s \in Side : heap.kid[n][s] # NULL
           cut == IF two THEN UnlinkTwo(heap, n) ELSE UnlinkOne(heap, n)
           g == InitNode(cut.heap, n)
           c == cut.child
           p == cut.parent
           isRed == cut.red
           d == AugmentErase(heap, n)
<1>1. /\ op.pc = "idle" /\ InTree(heap, n) /\ heap' = g
      /\ op' = [pc |-> IF isRed THEN "augment" ELSE "erase", of |-> n,
                node |-> c, parent |-> p, deepest |-> d]
  BY DEF Erase
<1>2. PICK D, H : Shape(heap, D) /\ Balanced(heap, H, NULL, "left") /\ Apart(heap, NULL, FALSE)
  <2>1. ~ Hole(heap, op)
    BY <1>1 DEF Hole
  <2>2. Good(heap, op)
    BY DEF IInv
  <2> QED
    BY <1>1, <2>1, <2>2, GoodIs
<1>3. n \in In(heap)
  BY <1>1, <1>2, InTreeIs
<1>4. Unlinked(heap, g, n, c, p, isRed) /\ In(g) = In(heap) \ {n} /\ c \in Pointer /\ p \in Pointer
  <2>1. CASE two
    BY <1>2, <1>3, <2>1, UnlinkTwoGood
  <2>2. CASE ~ two
    BY <1>2, <1>3, <2>2, UnlinkOneGood
  <2> QED
    BY <2>1, <2>2
<1>5. d # NULL => d \in In(g) /\ d \in Node
  <2>1. d # NULL => d \in In(heap) /\ d # n /\ d \in Node
    BY <1>2, <1>3, DeepestIs
  <2> QED
    BY <1>4, <2>1
<1> HIDE DEF g, c, p, isRed, d, cut
<1>6. op' \in Op /\ op'.of = n /\ op'.node = c /\ op'.parent = p /\ op'.deepest = d
      /\ op'.pc = IF isRed THEN "augment" ELSE "erase"
  BY <1>1, <1>4, <1>5, NodeAssumption DEF Op, Pointer
<1>7. PICK E, K : /\ Shape(g, E)
                  /\ IF isRed THEN Balanced(g, K, NULL, "left") /\ Apart(g, NULL, FALSE)
                     ELSE /\ Apart(g, c, TRUE)
                          /\ \/ p = NULL /\ g.root = c /\ Balanced(g, K, NULL, "left")
                             \/ \E u \in Side : p \in In(g) /\ g.kid[p][u] = c /\ Balanced(g, K, p, u)
  BY <1>4 DEF Unlinked
<1>8. Good(g, op')
  <2>1. CASE isRed
    BY <1>5, <1>6, <1>7, <2>1, GoodAugment
  <2>2. CASE ~ isRed /\ p = NULL /\ g.root = c /\ Balanced(g, K, NULL, "left")
    BY <1>5, <1>6, <1>7, <2>2, GoodRoot
  <2>3. CASE ~ isRed /\ \E u \in Side : p \in In(g) /\ g.kid[p][u] = c /\ Balanced(g, K, p, u)
    <3>1. PICK u \in Side : p \in In(g) /\ g.kid[p][u] = c /\ Balanced(g, K, p, u)
      BY <2>3
    <3>2. SideOf(g, c, p) = u
      BY <1>7, <3>1, BrotherIs
    <3>3. c # g.root
      BY <1>7, <3>1, NotRoot
    <3> QED
      BY <1>5, <1>6, <1>7, <2>3, <3>1, <3>2, <3>3, GoodHole
  <2> QED
    BY <1>7, <2>1, <2>2, <2>3
<1> QED
  BY <1>1, <1>3, <1>4, <1>8 DEF IInv

\* At a hole all but the black that is missing is in order.
LEMMA HoleIs ==
  ASSUME IInv, op.pc = "erase"
  PROVE  /\ op \in Op /\ (op.deepest # NULL => op.deepest \in In(heap))
         /\ \E D, H : /\ Shape(heap, D) /\ Apart(heap, op.node, TRUE)
                      /\ op.node = heap.root => Balanced(heap, H, NULL, "left")
                      /\ op.node # heap.root
                           => /\ op.parent \in In(heap)
                              /\ heap.kid[op.parent][SideOf(heap, op.node, op.parent)] = op.node
                              /\ Balanced(heap, H, op.parent, SideOf(heap, op.node, op.parent))
<1>1. Good(heap, op) /\ (Hole(heap, op) <=> op.node # heap.root)
  BY DEF IInv, Hole
<1>2. Locals(heap, op)
  BY <1>1, GoodIs
<1>3. PICK D, H : /\ Shape(heap, D)
                  /\ IF Hole(heap, op) THEN Balanced(heap, H, op.parent, SideOf(heap, op.node, op.parent))
                     ELSE Balanced(heap, H, NULL, "left")
                  /\ Apart(heap, op.node, TRUE)
  BY <1>1, GoodIs
<1> QED
  BY <1>1, <1>2, <1>3 DEF Locals

\* A node that is black is no exception among the red ones.
LEMMA BlackStrict ==
  ASSUME NEW h, NEW z, Black(h, z), Apart(h, z, TRUE)
  PROVE  Apart(h, NULL, FALSE)
BY NodeAssumption DEF Apart, Meets, Black, In

\* What a round of the loop of __rb_erase_color goes on from once the brother
\* is black.
Shorted(h, p, s, z) ==
  \E D, H : Shape(h, D) /\ Short(h, H, p, s, z)

LEMMA HoleShort ==
  ASSUME IInv, op.pc = "erase", Black(heap, op.node), op.node # heap.root
  PROVE  /\ Shorted(heap, op.parent, SideOf(heap, op.node, op.parent), op.node)
         /\ op \in Op /\ (op.deepest # NULL => op.deepest \in In(heap))
<1> DEFINE p == op.parent
           s == SideOf(heap, op.node, p)
<1>1. PICK D, H : Shape(heap, D) /\ Apart(heap, op.node, TRUE) /\ p \in In(heap)
                  /\ heap.kid[p][s] = op.node /\ Balanced(heap, H, p, s)
  BY HoleIs
<1>2. Apart(heap, NULL, FALSE)
  BY <1>1, BlackStrict
<1>3. s \in Side /\ p \in Node
  BY <1>1 DEF SideOf, Side, In
<1>4. Short(heap, H, p, s, op.node)
  BY <1>1, <1>2, <1>3 DEF Short
<1>5. Shorted(heap, p, s, op.node)
  BY <1>1, <1>4 DEF Shorted
<1> QED
  BY <1>5, HoleIs

LEMMA NearShort ==
  ASSUME NEW h, NEW p, NEW s, NEW z, Shorted(h, p, s, z), NEW b, NearRed(h, p, s, b)
  PROVE  LET k == Rotate(Paint(Paint(h, h.kid[b][s], FALSE), b, TRUE), b, Other(s))
         IN /\ Shorted(k, p, s, z) /\ In(k) = In(h) /\ ~ k.red[k.kid[p][Other(s)]]
            /\ ~ Black(k, k.kid[k.kid[p][Other(s)]][Other(s)])
<1> DEFINE y == h.kid[b][s]
           i == Paint(Paint(h, y, FALSE), b, TRUE)
           k == Rotate(i, b, Other(s))
<1>1. PICK D, H : Shape(h, D) /\ Short(h, H, p, s, z)
  BY DEF Shorted
<1>2. Shape(k, TurnedBelow(i, D, b, Other(s))) /\ In(k) = In(h)
      /\ Short(k, [H EXCEPT ![y] = H[b], ![b] = H[y]], p, s, z)
      /\ ~ k.red[k.kid[p][Other(s)]]
      /\ ~ Black(k, k.kid[k.kid[p][Other(s)]][Other(s)])
  <2>1. NearKept(h, D, H, p, s, z, b)
    BY <1>1, NearTurn
  <2> QED
    BY <2>1, Zenon DEF NearKept
<1> HIDE DEF k, i, y
<1>3. Shorted(k, p, s, z)
  BY <1>2 DEF Shorted
<1>4. /\ Shorted(k, p, s, z) /\ In(k) = In(h) /\ ~ k.red[k.kid[p][Other(s)]]
      /\ ~ Black(k, k.kid[k.kid[p][Other(s)]][Other(s)])
  BY <1>2, <1>3
<1> QED
  BY <1>4 DEF k, i, y

LEMMA BlackBrother ==
  ASSUME NEW h, NEW p, NEW s, NEW z, Shorted(h, p, s, z)
  PROVE  LET b == h.kid[p][Other(s)]
             k == IF h.red[b] THEN Rotate(Paint(Paint(h, b, FALSE), p, TRUE), p, s) ELSE h
         IN Shorted(k, p, s, z) /\ In(k) = In(h) /\ ~ k.red[k.kid[p][Other(s)]]
<1> DEFINE b == h.kid[p][Other(s)]
           j == Rotate(Paint(Paint(h, b, FALSE), p, TRUE), p, s)
           k == IF h.red[b] THEN j ELSE h
<1>1. PICK D, H : Shape(h, D) /\ Short(h, H, p, s, z)
  BY DEF Shorted
<1>2. CASE h.red[b]
  <2>1. Shape(j, TurnedBelow(Paint(Paint(h, b, FALSE), p, TRUE), D, p, s)) /\ In(j) = In(h)
        /\ Short(j, [H EXCEPT ![b] = H[p], ![p] = H[b]], p, s, z)
        /\ ~ j.red[j.kid[p][Other(s)]]
    BY <1>1, <1>2, RaiseBrother
  <2> HIDE DEF j
  <2>2. Shorted(j, p, s, z)
    BY <2>1 DEF Shorted
  <2>3. k = j
    BY <1>2
  <2> HIDE DEF k
  <2>4. Shorted(k, p, s, z) /\ In(k) = In(h) /\ ~ k.red[k.kid[p][Other(s)]]
    BY <2>1, <2>2, <2>3
  <2> QED
    BY <2>4 DEF k, j
<1>3. CASE ~ h.red[b]
  BY <1>3
<1> QED
  BY <1>2, <1>3

LEMMA FarNephew ==
  ASSUME NEW h, NEW p, NEW s, NEW z, Shorted(h, p, s, z), ~ h.red[h.kid[p][Other(s)]],
         ~ \A t \in Side : Black(h, h.kid[h.kid[p][Other(s)]][t])
  PROVE  LET b == h.kid[p][Other(s)]
             o == Other(s)
             k == IF Black(h, h.kid[b][o])
                  THEN Rotate(Paint(Paint(h, h.kid[b][s], FALSE), b, TRUE), b, o) ELSE h
         IN /\ Shorted(k, p, s, z) /\ In(k) = In(h) /\ ~ k.red[k.kid[p][o]]
            /\ ~ Black(k, k.kid[k.kid[p][o]][o])
<1> DEFINE b == h.kid[p][Other(s)]
           o == Other(s)
           i == Paint(Paint(h, h.kid[b][s], FALSE), b, TRUE)
           j == Rotate(i, b, o)
           k == IF Black(h, h.kid[b][o]) THEN j ELSE h
<1>1. PICK D, H : Shape(h, D) /\ Short(h, H, p, s, z)
  BY DEF Shorted
<1>2. \A t \in Side : t = s \/ t = o
  BY <1>1, ShortIs
<1>3. CASE Black(h, h.kid[b][o])
  <2>1. ~ Black(h, h.kid[b][s])
    BY <1>2, <1>3
  <2>2. NearRed(h, p, s, b)
    BY <1>3, <2>1 DEF NearRed
  <2>3. Shorted(j, p, s, z) /\ In(j) = In(h) /\ ~ j.red[j.kid[p][o]] /\ ~ Black(j, j.kid[j.kid[p][o]][o])
    <3> HIDE DEF b
    <3> QED
      BY <2>2, NearShort
  <2> HIDE DEF j, i
  <2>4. k = j
    BY <1>3
  <2> HIDE DEF k
  <2>5. Shorted(k, p, s, z) /\ In(k) = In(h) /\ ~ k.red[k.kid[p][o]] /\ ~ Black(k, k.kid[k.kid[p][o]][o])
    BY <2>3, <2>4
  <2> QED
    BY <2>5 DEF k, j, i
<1>4. CASE ~ Black(h, h.kid[b][o])
  BY <1>4
<1> QED
  BY <1>3, <1>4

LEMMA EraseRoundGood ==
  ASSUME IInv, EraseRound
  PROVE  IInv' /\ In(heap') = In(heap)
<1> DEFINE z == op.node
           p == op.parent
           s == SideOf(heap, z, p)
           o == Other(s)
           b0 == heap.kid[p][o]
           h1 == IF heap.red[b0] THEN Rotate(Paint(Paint(heap, b0, FALSE), p, TRUE), p, s) ELSE heap
           b1 == h1.kid[p][o]
           h2 == IF Black(h1, h1.kid[b1][o])
                 THEN Rotate(Paint(Paint(h1, h1.kid[b1][s], FALSE), b1, TRUE), b1, o) ELSE h1
           b2 == h2.kid[p][o]
           h3 == Paint(Paint(Paint(h2, b2, h2.red[p]), p, FALSE), h2.kid[b2][o], FALSE)
<1>1. /\ op.pc = "erase" /\ Black(heap, z) /\ z # heap.root
      /\ IF \A t \in Side : Black(h1, h1.kid[b1][t])
         THEN heap' = Paint(h1, b1, TRUE) /\ op' = [op EXCEPT !.node = p, !.parent = h1.up[p]]
         ELSE heap' = Rotate(h3, p, s) /\ op' = [op EXCEPT !.node = heap'.root, !.parent = p]
  BY DEF EraseRound
<1>2. Shorted(heap, p, s, z) /\ op \in Op /\ (op.deepest # NULL => op.deepest \in In(heap))
  BY <1>1, HoleShort
<1> HIDE DEF z, p, s
<1>3. Shorted(h1, p, s, z) /\ In(h1) = In(heap) /\ ~ h1.red[b1]
  BY <1>2, BlackBrother
<1> HIDE DEF h1, b0
<1>4. PICK D, H : Shape(h1, D) /\ Short(h1, H, p, s, z)
  BY <1>3 DEF Shorted
<1>5. p \in Node /\ p \in In(h1) /\ o \in Side
  <2>1. p \in Node /\ p \in In(h1)
    BY <1>4 DEF Short
  <2>2. o \in Side
    BY <1>4, ShortIs
  <2> QED
    BY <2>1, <2>2
<1>6. CASE \A t \in Side : Black(h1, h1.kid[b1][t])
  <2> DEFINE k == Paint(h1, b1, TRUE)
             q == h1.up[p]
             v == SideOf(h1, p, q)
             K == [H EXCEPT ![b1] = @ - 1, ![p] = @ - 1]
  <2>1. heap' = k /\ op' = [op EXCEPT !.node = p, !.parent = q]
    BY <1>1, <1>6
  <2>2. /\ q \in Pointer /\ (q = NULL <=> h1.root = p)
        /\ (q # NULL => q \in In(h1) /\ h1.kid[q][v] = p)
        /\ \A a \in Node, t \in Side : h1.kid[a][t] = p <=> a = q /\ t = v
    BY <1>4, <1>5, PlaceIs
  <2> HIDE DEF q, v
  <2>3. /\ Shape(k, D) /\ In(k) = In(h1) /\ k.root = h1.root /\ k.up = h1.up /\ k.kid = h1.kid
        /\ Balanced(k, K, q, v) /\ Apart(k, p, TRUE)
    <3>1. NoneRed(h1, p, s, b1)
      BY <1>3, <1>6 DEF NoneRed
    <3> HIDE DEF b1
    <3>2. PassKept(h1, D, H, p, b1, q, v)
      BY <1>4, <2>2, <3>1, PassUp
    <3> QED
      BY <3>2, Zenon DEF PassKept
  <2> HIDE DEF k, K
  <2>4. /\ op' \in Op /\ op'.pc = "erase" /\ op'.node = p /\ op'.parent = q /\ op'.deepest = op.deepest
    BY <1>1, <1>2, <1>5, <2>1, <2>2 DEF Op, Pointer
  <2>5. op'.deepest # NULL => op'.deepest \in In(k)
    BY <1>2, <1>3, <2>3, <2>4
  <2>6. Good(k, op')
    <3>1. CASE q = NULL
      BY <2>2, <2>3, <2>4, <2>5, <3>1, GoodRoot
    <3>2. CASE q # NULL
      <4>1. v = SideOf(k, p, q)
        BY <2>3 DEF v, SideOf
      <4> QED
        BY <2>2, <2>3, <2>4, <2>5, <3>2, <4>1, GoodHole
    <3> QED
      BY <3>1, <3>2
  <2> QED
    BY <1>3, <2>1, <2>3, <2>6 DEF IInv
<1>7. CASE ~ \A t \in Side : Black(h1, h1.kid[b1][t])
  <2> DEFINE k == Rotate(h3, p, s)
  <2>1. heap' = k /\ op' = [op EXCEPT !.node = k.root, !.parent = p]
    BY <1>1, <1>7
  <2>2. Shorted(h2, p, s, z) /\ In(h2) = In(h1) /\ ~ h2.red[h2.kid[p][o]]
        /\ ~ Black(h2, h2.kid[h2.kid[p][o]][o])
    BY <1>3, <1>7, FarNephew
  <2> HIDE DEF h2
  <2>3. PICK E, G : Shape(h2, E) /\ Short(h2, G, p, s, z)
    BY <2>2 DEF Shorted
  <2>4. \E F, K : Shape(k, F) /\ In(k) = In(h2) /\ Balanced(k, K, NULL, "left") /\ Apart(k, NULL, FALSE)
    BY <2>2, <2>3, LastTurn
  <2> HIDE DEF k
  <2>5. PICK F, K : Shape(k, F) /\ In(k) = In(h2) /\ Balanced(k, K, NULL, "left") /\ Apart(k, NULL, FALSE)
    BY <2>4
  <2>6. Apart(k, k.root, TRUE)
    BY <2>5, StrictIs
  <2>7. k.root \in Pointer
    BY <2>5, HeapFields DEF Shape
  <2>8. op' \in Op /\ op'.pc = "erase" /\ op'.node = k.root /\ op'.deepest = op.deepest
    BY <1>1, <1>2, <1>5, <2>1, <2>7 DEF Op, Pointer
  <2>9. op'.deepest # NULL => op'.deepest \in In(k)
    BY <1>2, <1>3, <2>2, <2>5, <2>8
  <2>10. Good(k, op')
    BY <2>5, <2>6, <2>8, <2>9, GoodRoot
  <2> QED
    BY <1>3, <2>1, <2>2, <2>5, <2>10 DEF IInv
<1> QED
  BY <1>6, <1>7

LEMMA EraseDoneGood ==
  ASSUME IInv, EraseDone
  PROVE  IInv' /\ In(heap') = In(heap)
<1> DEFINE z == op.node
           p == op.parent
           s == SideOf(heap, z, p)
           k == Paint(heap, z, FALSE)
<1>1. /\ op.pc = "erase" /\ (~ Black(heap, z) \/ z = heap.root)
      /\ heap' = (IF z = NULL THEN heap ELSE k) /\ op' = [op EXCEPT !.pc = "augment"]
  BY DEF EraseDone
<1>2. op \in Op /\ (op.deepest # NULL => op.deepest \in In(heap))
  BY <1>1, HoleIs
<1>3. op' \in Op /\ op'.pc = "augment" /\ op'.deepest = op.deepest
  BY <1>1, <1>2 DEF Op
<1>4. PICK D, H : /\ Shape(heap, D) /\ Apart(heap, z, TRUE)
                  /\ z = heap.root => Balanced(heap, H, NULL, "left")
                  /\ z # heap.root => p \in In(heap) /\ heap.kid[p][s] = z /\ Balanced(heap, H, p, s)
  BY <1>1, HoleIs
<1> HIDE DEF z, p, s
<1>5. CASE z = NULL
  <2>1. heap' = heap /\ z = heap.root
    BY <1>1, <1>5 DEF Black
  <2>2. Apart(heap, NULL, FALSE)
    BY <1>4, <1>5, BlackStrict DEF Black
  <2>3. Good(heap, op')
    BY <1>2, <1>3, <1>4, <2>1, <2>2, GoodAugment
  <2> QED
    BY <2>1, <2>3 DEF IInv
<1>6. CASE z # NULL
  <2>1. z \in In(heap) /\ \E q, v : /\ Balanced(heap, H, q, v)
                                    /\ ~ heap.red[z] => q = NULL
                                    /\ heap.red[z] => \A a \in In(heap), t \in Side :
                                                        heap.kid[a][t] = z <=> a = q /\ t = v
    <3>1. CASE z = heap.root
      <4>1. z \in In(heap)
        BY <1>4, <1>6, <3>1 DEF Shape, Linked
      <4>2. \A a \in In(heap), t \in Side : heap.kid[a][t] # z /\ a # NULL
        BY <1>4, <3>1, NotRoot, NodeAssumption DEF In
      <4> QED
        BY <1>4, <3>1, <4>1, <4>2
    <3>2. CASE z # heap.root
      <4>1. heap.red[z]
        BY <1>1, <1>6, <3>2 DEF Black
      <4>2. p \in Node /\ s \in Side /\ heap.kid[p][s] # NULL
        BY <1>4, <1>6, <3>2 DEF s, SideOf, Side, In
      <4>3. z \in In(heap)
        BY <1>4, <3>2, <4>2, KidIs
      <4>4. \A a \in In(heap), t \in Side : heap.kid[a][t] = z <=> a = p /\ t = s
        BY <1>4, <3>2, <4>2, SideIs DEF In
      <4> QED
        BY <1>4, <3>2, <4>1, <4>3, <4>4
    <3> QED
      BY <3>1, <3>2
  <2>2. PICK q, v : /\ Balanced(heap, H, q, v)
                    /\ ~ heap.red[z] => q = NULL
                    /\ heap.red[z] => \A a \in In(heap), t \in Side : heap.kid[a][t] = z <=> a = q /\ t = v
    BY <2>1
  <2>3. BlackKept(heap, D, H, z, v)
    BY <1>4, <2>1, <2>2, BlackenColours
  <2>4. heap' = k
    BY <1>1, <1>6
  <2>5. /\ Shape(k, D) /\ In(k) = In(heap) /\ Apart(k, NULL, FALSE)
        /\ Balanced(k, IF heap.red[z] THEN [H EXCEPT ![z] = @ + 1] ELSE H, NULL, v)
    BY <2>3, Zenon DEF BlackKept
  <2> HIDE DEF k
  <2>6. Good(k, op')
    BY <1>2, <1>3, <2>5, GoodAugment
  <2> QED
    BY <2>4, <2>5, <2>6 DEF IInv
<1> QED
  BY <1>5, <1>6

LEMMA PathGood ==
  ASSUME IInv, AugmentRound
  PROVE  IInv' /\ heap' = heap
<1>1. /\ op.pc = "augment" /\ op.deepest # NULL /\ heap.up[op.deepest] # NULL
      /\ op' = [op EXCEPT !.deepest = heap.up[op.deepest]] /\ heap' = heap
  BY DEF AugmentRound
<1>2. Good(heap, op) /\ ~ Hole(heap, op)
  BY <1>1 DEF IInv, Hole
<1>3. op \in Op /\ op.deepest \in In(heap)
  BY <1>1, <1>2, GoodIs DEF Locals
<1>4. PICK D, H : Shape(heap, D) /\ Balanced(heap, H, NULL, "left") /\ Apart(heap, NULL, FALSE)
  BY <1>1, <1>2, GoodIs
<1>5. heap.up[op.deepest] \in In(heap) /\ heap.up[op.deepest] \in Node
  BY <1>1, <1>3, <1>4, PlaceIs
<1>6. op' \in Op /\ op'.pc = "augment" /\ op'.deepest \in In(heap)
  BY <1>1, <1>3, <1>5 DEF Op, Pointer
<1>7. Good(heap, op')
  BY <1>4, <1>6, GoodAugment
<1> QED
  BY <1>1, <1>7 DEF IInv

LEMMA PathDoneGood ==
  ASSUME IInv, AugmentDone
  PROVE  IInv' /\ heap' = heap
<1>1. op.pc = "augment" /\ op' = Idle /\ heap' = heap
  BY DEF AugmentDone
<1>2. Good(heap, op) /\ ~ Hole(heap, op)
  BY <1>1 DEF IInv, Hole
<1>3. PICK D, H : Shape(heap, D) /\ Balanced(heap, H, NULL, "left") /\ Apart(heap, NULL, FALSE)
  BY <1>1, <1>2, GoodIs
<1>4. Good(heap, Idle)
  BY <1>3, GoodIdle
<1> QED
  BY <1>1, <1>4 DEF IInv

LEMMA ReplaceGood ==
  ASSUME IInv, NEW m \in Node, NEW n \in Node, Replace(m, n)
  PROVE  IInv' /\ m \in In(heap) /\ n \notin In(heap) /\ In(heap') = (In(heap) \ {m}) \cup {n}
<1> DEFINE h1 == Redirect(heap, m, heap.up[m], n)
           h2 == UpIf(UpIf(h1, heap.kid[m]["left"], n), heap.kid[m]["right"], n)
           g == InitNode([h2 EXCEPT !.up[n] = heap.up[m], !.red[n] = heap.red[m], !.kid[n] = h2.kid[m]], m)
<1>1. op.pc = "idle" /\ InTree(heap, m) /\ m # n /\ key[m] = key[n] /\ heap' = g /\ op' = op
  BY DEF Replace
<1>2. Good(heap, op) /\ ~ Hole(heap, op)
  BY <1>1 DEF IInv, Hole
<1>3. PICK D, H : Shape(heap, D) /\ Balanced(heap, H, NULL, "left") /\ Apart(heap, NULL, FALSE)
  BY <1>1, <1>2, GoodIs
<1>4. op = Idle
  BY <1>1, <1>2, GoodIs DEF Locals
<1>5. m \in In(heap)
  BY <1>1, <1>3, InTreeIs
<1>6. n \in Node \ In(heap)
  BY <1>1, <1>3, <1>5 DEF Shape
<1>7. Swapped(heap, g, m, n) /\ FitsFor(heap, D, m, n)
  BY <1>1, <1>3, <1>5, <1>6, ReplaceIs
<1> HIDE DEF g
<1>8. Shape(g, SwappedBelow(D, m, n)) /\ In(g) = (In(heap) \ {m}) \cup {n}
  BY <1>3, <1>5, <1>6, <1>7, SwapShape
<1>9. NULL # n /\ NULL # m
  BY NodeAssumption
<1>10. Balanced(g, [H EXCEPT ![n] = H[m]], IF NULL = m THEN n ELSE NULL, "left")
       /\ \A at, both : at # m /\ at # n /\ Apart(heap, at, both) => Apart(g, at, both)
  BY <1>3, <1>5, <1>6, <1>7, <1>8, <1>9, SwapColours
<1>11. Balanced(g, [H EXCEPT ![n] = H[m]], NULL, "left") /\ Apart(g, NULL, FALSE)
  BY <1>3, <1>9, <1>10
<1>12. Good(g, Idle)
  BY <1>8, <1>11, GoodIdle
<1> QED
  BY <1>1, <1>4, <1>5, <1>6, <1>8, <1>12 DEF IInv

(***************************************************************************)
(* The invariant of the specification, and what follows from it.           *)
(***************************************************************************)
\* What is in the tree after a round is what was in it before.
LEMMA StepKeeps ==
  ASSUME IInv, Step
  PROVE  IInv' /\ In(heap') = In(heap)
<1>1. CASE InsertRecolour
  BY <1>1, RecolourGood
<1>2. CASE InsertRotate
  BY <1>2, RotateGood
<1>3. CASE InsertDone
  BY <1>3, InsertDoneGood
<1>4. CASE EraseRound
  BY <1>4, EraseRoundGood
<1>5. CASE EraseDone
  BY <1>5, EraseDoneGood
<1>6. CASE AugmentRound
  <2>1. IInv' /\ heap' = heap
    BY <1>6, PathGood
  <2> QED
    BY <2>1
<1>7. CASE AugmentDone
  <2>1. IInv' /\ heap' = heap
    BY <1>7, PathDoneGood
  <2> QED
    BY <2>1
<1> QED
  BY <1>1, <1>2, <1>3, <1>4, <1>5, <1>6, <1>7 DEF Step

LEMMA NextGood ==
  ASSUME IInv, [Next]_vars
  PROVE  IInv'
<1>1. ASSUME NEW n \in Node, Insert(n) PROVE IInv'
  BY <1>1, InsertGood
<1>2. ASSUME NEW n \in Node, Erase(n) PROVE IInv'
  BY <1>2, EraseGood
<1>3. ASSUME NEW m \in Node, NEW n \in Node, Replace(m, n) PROVE IInv'
  BY <1>3, ReplaceGood
<1>4. CASE Step
  BY <1>4, StepKeeps
<1>5. CASE UNCHANGED vars
  BY <1>5 DEF vars, IInv
<1> QED
  BY <1>1, <1>2, <1>3, <1>4, <1>5 DEF Next

LEMMA AlwaysGood == Spec => []IInv
<1>1. Init => IInv
  BY StartGood
<1>2. IInv /\ [Next]_vars => IInv'
  BY NextGood
<1> QED
  BY <1>1, <1>2, PTL DEF Spec

LEMMA GoodShape ==
  ASSUME IInv
  PROVE  \E D : Shape(heap, D)
BY GoodIs DEF IInv

\* Parents and children agree in every state, whatever the rotations, the
\* relinking of a successor or of a replacement do to them, and a node that is
\* outside is cleared.
THEOREM LinksHold == Spec => []LinksAgree
<1>1. IInv => LinksAgree
  BY GoodShape, LinksFollow
<1> QED
  BY <1>1, AlwaysGood, PTL

\* In every state, in the middle of a rebalancing too, each node lies between
\* what is on its left and what is on its right: a search finds what is there.
THEOREM OrderHolds == Spec => []Ordered
<1>1. IInv => Ordered
  BY GoodShape, OrderFollows
<1> QED
  BY <1>1, AlwaysGood, PTL

LEMMA RedsFollow ==
  ASSUME IInv
  PROVE  RedsApart
<1> DEFINE at == IF op.pc \in {"insert", "erase"} THEN op.node ELSE NULL
<1>1. PICK D : Shape(heap, D)
  BY GoodShape
<1>2. Members(heap) = In(heap)
  BY <1>1, MembersIs
<1>3. /\ CASE op.pc = "insert" -> Apart(heap, op.node, FALSE)
           [] op.pc = "erase" -> Apart(heap, op.node, TRUE)
           [] OTHER -> Apart(heap, NULL, FALSE)
  BY GoodIs DEF IInv
<1>4. Apart(heap, at, op.pc = "erase")
  <2>1. CASE op.pc = "insert"
    <3>1. Apart(heap, op.node, FALSE) /\ at = op.node /\ ~ (op.pc = "erase")
      BY <1>3, <2>1
    <3> HIDE DEF at
    <3> QED
      BY <3>1 DEF Apart, Meets
  <2>2. CASE op.pc = "erase"
    <3>1. Apart(heap, op.node, TRUE) /\ at = op.node
      BY <1>3, <2>2
    <3> HIDE DEF at
    <3> QED
      BY <2>2, <3>1 DEF Apart, Meets
  <2>3. CASE op.pc \notin {"insert", "erase"}
    <3>1. Apart(heap, NULL, FALSE) /\ at = NULL
      BY <1>3, <2>3
    <3> QED
      BY <2>3, <3>1, StrictIs
  <2> QED
    BY <2>1, <2>2, <2>3
<1> HIDE DEF at
<1>5. heap.root # NULL /\ heap.red[heap.root] => heap.root = at
  BY <1>4 DEF Apart
<1>6. \A n \in Members(heap), s \in Side :
        heap.red[n] /\ ~ Black(heap, heap.kid[n][s])
          => heap.kid[n][s] = at \/ (op.pc = "erase" /\ n = at)
  BY <1>2, <1>4 DEF Apart, Meets
<1> QED
  BY <1>5, <1>6 DEF RedsApart, at

\* A red node has no red child, but for the one that the loop under way is at:
\* no step of the two loops leaves a second clash behind.
THEOREM RedsHold == Spec => []RedsApart
<1>1. IInv => RedsApart
  BY RedsFollow
<1> QED
  BY <1>1, AlwaysGood, PTL

LEMMA MissingIs ==
  ASSUME IInv, NEW D, Shape(heap, D), NEW n \in In(heap), NEW t \in Side
  PROVE  Missing(n, t) <=> /\ Hole(heap, op) /\ n = op.parent
                           /\ t = SideOf(heap, op.node, op.parent)
<1>1. heap.kid[n][t] # heap.root
  BY NotRoot
<1>2. Hole(heap, op) => heap.kid[op.parent][SideOf(heap, op.node, op.parent)] = op.node
  BY GoodIs DEF IInv, Locals
<1> QED
  BY <1>1, <1>2 DEF Missing, Hole

\* The recursive count of the blacks on a way down.
LEMMA HeightIs ==
  ASSUME IInv
  PROVE  \E H : /\ H \in [Pointer -> Nat] /\ H[NULL] = 0
                /\ \A n \in In(heap), t \in Side :
                     /\ H[n] = H[heap.kid[n][t]] + (IF Missing(n, t) THEN 1 ELSE 0) + (IF heap.red[n] THEN 0 ELSE 1)
                     /\ BlackHeight(n, t) = H[heap.kid[n][t]] + (IF Missing(n, t) THEN 1 ELSE 0)
<1> DEFINE p == op.parent
           s == SideOf(heap, op.node, p)
<1>1. PICK D, H : /\ Shape(heap, D)
                  /\ IF Hole(heap, op) THEN Balanced(heap, H, p, s) ELSE Balanced(heap, H, NULL, "left")
  BY GoodIs DEF IInv
<1>2. H \in [Pointer -> Nat] /\ H[NULL] = 0
  BY <1>1 DEF Balanced
<1> DEFINE gone(n, t) == IF Missing(n, t) THEN 1 ELSE 0
           own(n) == IF heap.red[n] THEN 0 ELSE 1
<1>3. ASSUME NEW n \in In(heap), NEW t \in Side
      PROVE  H[n] = H[heap.kid[n][t]] + gone(n, t) + own(n)
  <2>1. Missing(n, t) <=> Hole(heap, op) /\ n = p /\ t = s
    BY <1>1, MissingIs
  <2>2. n # NULL
    BY NodeAssumption DEF In
  <2>3. CASE Hole(heap, op)
    <3>1. Count(heap, H, p, s, n, t)
      BY <1>1, <2>3 DEF Balanced
    <3> HIDE DEF p, s
    <3> QED
      BY <2>1, <2>3, <3>1 DEF Count
  <2>4. CASE ~ Hole(heap, op)
    <3>1. Count(heap, H, NULL, "left", n, t)
      BY <1>1, <2>4 DEF Balanced
    <3> QED
      BY <2>1, <2>2, <2>4, <3>1 DEF Count
  <2> QED
    BY <2>3, <2>4
<1>4. \A n \in Node, t \in Side : /\ heap.kid[n][t] \in Pointer
                                  /\ heap.kid[n][t] # NULL => heap.kid[n][t] \in In(heap) /\ heap.kid[n][t] \in Node
                                  /\ n \notin In(heap) => heap.kid[n][t] = NULL
  BY <1>1, BelowIs, KidIs
<1>5. "left" \in Side /\ NULL \in Pointer /\ NULL \notin In(heap) /\ In(heap) \subseteq Node
  BY NodeAssumption DEF Side, Pointer, In
<1> DEFINE P(g) == g = [m \in Pointer |-> IF m = NULL THEN 0
                          ELSE own(m) + gone(m, "left") + g[heap.kid[m]["left"]]]
           F == [m \in Pointer |-> IF m \in In(heap) \cup {NULL} THEN H[m] ELSE own(m) + gone(m, "left")]
<1>6. F[NULL] = 0 /\ \A m \in In(heap) : F[m] = H[m]
  BY <1>2, <1>5 DEF Pointer
<1>7. ASSUME NEW m \in Node PROVE F[m] = own(m) + gone(m, "left") + F[heap.kid[m]["left"]]
  <2> DEFINE c == heap.kid[m]["left"]
             e == own(m)
             b == gone(m, "left")
  <2>1. CASE m \in In(heap)
    <3>1. H[m] = H[c] + b + e
      BY <1>3, <1>5, <2>1
    <3>2. F[c] = H[c] /\ H[c] \in Nat /\ b \in Nat /\ e \in Nat
      BY <1>2, <1>4, <1>5, <1>6
    <3>3. F[m] = H[m]
      BY <1>6, <2>1
    <3> HIDE DEF b, e, F, c
    <3>4. F[m] = e + b + F[c]
      BY <3>1, <3>2, <3>3
    <3> QED
      BY <3>4 DEF b, e, c
  <2>2. CASE m \notin In(heap)
    <3>1. m # NULL /\ m \in Pointer
      BY NodeAssumption DEF Pointer
    <3>2. F[m] = e + b
      BY <2>2, <3>1
    <3>3. F[c] = 0 /\ b \in Nat /\ e \in Nat
      BY <1>4, <1>5, <1>6, <2>2
    <3> HIDE DEF b, e, F, c
    <3>4. F[m] = e + b + F[c]
      BY <3>2, <3>3
    <3> QED
      BY <3>4 DEF b, e, c
  <2> QED
    BY <2>1, <2>2
<1>8. P(F)
  <2> DEFINE E == [m \in Pointer |-> IF m = NULL THEN 0
                     ELSE own(m) + gone(m, "left") + F[heap.kid[m]["left"]]]
  <2>1. F = [m \in Pointer |-> F[m]] /\ E = [m \in Pointer |-> E[m]]
    OBVIOUS
  <2> HIDE DEF F, own, gone
  <2>2. \A m \in Pointer : F[m] = E[m]
    BY <1>6, <1>7, NodeAssumption DEF Pointer
  <2> QED
    BY <2>1, <2>2, Zenon
<1>9. ASSUME NEW g, P(g) PROVE g = F
  <2> DEFINE X == {m \in Node : g[m] = F[m]}
  <2>1. \A m \in Node : g[m] = own(m) + gone(m, "left") + g[heap.kid[m]["left"]]
    BY <1>9, NodeAssumption DEF Pointer
  <2>2. g[NULL] = F[NULL]
    BY <1>5, <1>6, <1>9
  <2>3. g = [m \in Pointer |-> g[m]] /\ F = [m \in Pointer |-> F[m]]
    BY <1>9
  <2> HIDE DEF P, F, own, gone
  <2>4. ASSUME NEW m \in Node, \A t \in Side : heap.kid[m][t] # NULL => heap.kid[m][t] \in X
        PROVE  m \in X
    <3>1. g[heap.kid[m]["left"]] = F[heap.kid[m]["left"]]
      BY <1>5, <2>2, <2>4
    <3> QED
      BY <1>7, <2>1, <3>1
  <2>5. X = Node
    <3> HIDE DEF X
    <3>1. X \in SUBSET Node
      BY DEF X
    <3> QED
      BY <1>1, <2>4, <3>1, FromBelow
  <2>6. \A m \in Pointer : g[m] = F[m]
    BY <2>2, <2>5 DEF Pointer
  <2> QED
    BY <2>3, <2>6, Zenon
<1>10. \A n \in Node, t \in Side : BlackHeight(n, t) = gone(n, t) + (CHOOSE g : P(g))[heap.kid[n][t]]
  BY DEF BlackHeight
<1> HIDE DEF P, F
<1>11. (CHOOSE g : P(g)) = F
  BY <1>8, <1>9
<1>12. ASSUME NEW n \in In(heap), NEW t \in Side
       PROVE  BlackHeight(n, t) = H[heap.kid[n][t]] + gone(n, t)
  <2>1. n \in Node
    BY DEF In
  <2>2. F[heap.kid[n][t]] = H[heap.kid[n][t]]
    BY <1>2, <1>4, <1>6, <2>1
  <2>3. BlackHeight(n, t) = gone(n, t) + H[heap.kid[n][t]]
    BY <1>10, <1>11, <2>1, <2>2
  <2>4. H[heap.kid[n][t]] \in Nat /\ gone(n, t) \in Nat
    BY <1>2, <1>4, <2>1
  <2> QED
    BY <2>3, <2>4
<1> QED
  BY <1>2, <1>3, <1>12

LEMMA BlacksFollow ==
  ASSUME IInv
  PROVE  BlacksAgree
<1>1. PICK H : /\ H \in [Pointer -> Nat] /\ H[NULL] = 0
               /\ \A n \in In(heap), t \in Side :
                    /\ H[n] = H[heap.kid[n][t]] + (IF Missing(n, t) THEN 1 ELSE 0) + (IF heap.red[n] THEN 0 ELSE 1)
                    /\ BlackHeight(n, t) = H[heap.kid[n][t]] + (IF Missing(n, t) THEN 1 ELSE 0)
  BY HeightIs
<1>2. PICK D : Shape(heap, D)
  BY GoodShape
<1>3. Members(heap) = In(heap) /\ "left" \in Side /\ "right" \in Side
  BY <1>2, MembersIs DEF Side
<1>4. ASSUME NEW n \in In(heap) PROVE BlackHeight(n, "left") = BlackHeight(n, "right")
  <2> DEFINE own == IF heap.red[n] THEN 0 ELSE 1
             gone(t) == IF Missing(n, t) THEN 1 ELSE 0
  <2>1. \A t \in Side : /\ H[n] = H[heap.kid[n][t]] + gone(t) + own
                        /\ BlackHeight(n, t) = H[heap.kid[n][t]] + gone(t)
    BY <1>1
  <2>2. \A t \in Side : H[heap.kid[n][t]] \in Nat /\ gone(t) \in Nat
    BY <1>1, <1>2, BelowIs DEF In
  <2>3. own \in Nat
    OBVIOUS
  <2> HIDE DEF own, gone
  <2>4. \A t \in Side : BlackHeight(n, t) + own = H[n] /\ BlackHeight(n, t) \in Nat
    BY <2>1, <2>2
  <2> QED
    BY <1>3, <2>3, <2>4
<1> QED
  BY <1>3, <1>4 DEF BlacksAgree

\* All ways down have the same number of blacks in every state, once the one
\* that __rb_erase_color is at is counted for the black that was taken out.
THEOREM BlacksHold == Spec => []BlacksAgree
<1>1. IInv => BlacksAgree
  BY BlacksFollow
<1> QED
  BY <1>1, AlwaysGood, PTL

LEMMA GoodMembers ==
  ASSUME NEW h, NEW o, Good(h, o)
  PROVE  Members(h) = In(h)
BY GoodIs, MembersIs

\* Each call changes the set of the members by its one node, in its first step,
\* and no round of the rebalancing loses a node or brings one back.
THEOREM SetImplemented == Spec => ImplementsSet
<1>1. IInv => Members(heap) = In(heap)
  BY GoodShape, MembersIs
<1>2. Init /\ IInv => Set!Init
  <2>1. ASSUME Init, IInv PROVE Members(heap) = {}
    <3>1. In(heap) = {}
      BY <2>1 DEF Init, In
    <3> QED
      BY <1>1, <2>1, <3>1
  <2> QED
    BY <2>1 DEF Set!Init
<1>3. IInv /\ IInv' /\ [Next]_vars => [Set!Next]_(Members(heap))
  <2> SUFFICES ASSUME IInv, IInv', [Next]_vars PROVE Set!Next \/ Members(heap)' = Members(heap)
    OBVIOUS
  <2>1. Members(heap) = In(heap) /\ Members(heap)' = In(heap')
    <3>1. Members(heap)' = Members(heap')
      BY DEF Members, Under
    <3>2. Good(heap, op) /\ Good(heap', op')
      BY DEF IInv
    <3> QED
      BY <3>1, <3>2, GoodMembers
  <2>2. ASSUME NEW n \in Node, Insert(n) PROVE Set!Next
    <3>1. In(heap') = In(heap) \cup {n} /\ \A m \in In(heap) : key[m] # key[n]
      BY <2>2, InsertGood
    <3>2. Set!Insert(n)
      BY <2>1, <3>1 DEF Set!Insert
    <3> QED
      BY <3>2 DEF Set!Next
  <2>3. ASSUME NEW n \in Node, Erase(n) PROVE Set!Next
    <3>1. n \in In(heap) /\ In(heap') = In(heap) \ {n}
      BY <2>3, EraseGood
    <3>2. Set!Erase(n)
      BY <2>1, <3>1 DEF Set!Erase
    <3> QED
      BY <3>2 DEF Set!Next
  <2>4. ASSUME NEW m \in Node, NEW n \in Node, Replace(m, n) PROVE Set!Next
    <3>1. m \in In(heap) /\ n \notin In(heap) /\ In(heap') = (In(heap) \ {m}) \cup {n}
      BY <2>4, ReplaceGood
    <3>2. key[n] = key[m]
      BY <2>4 DEF Replace
    <3>3. Set!Replace(m, n)
      BY <2>1, <3>1, <3>2 DEF Set!Replace
    <3> QED
      BY <3>3 DEF Set!Next
  <2>5. CASE Step
    BY <2>1, <2>5, StepKeeps
  <2>6. CASE UNCHANGED vars
    BY <2>1, <2>6 DEF vars
  <2> QED
    BY <2>2, <2>3, <2>4, <2>5, <2>6 DEF Next
<1> QED
  BY <1>2, <1>3, AlwaysGood, PTL DEF Spec, ImplementsSet, Set!Spec
=============================================================================
