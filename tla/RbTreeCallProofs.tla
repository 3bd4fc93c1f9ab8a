-------------------------- MODULE RbTreeCallProofs --------------------------
(***************************************************************************)
(* What users of the tree get from its calls, for every set of nodes and   *)
(* keys: walks in the order of the keys, augmented data that is right      *)
(* after every call, and calls that end.                                   *)
(***************************************************************************)
EXTENDS RbTreeProofs

(***************************************************************************)
(* The walks in the order of the keys.                                     *)
(***************************************************************************)
\* What holds of every node that it holds of the parent of, holds of all.
LEMMA FromAbove ==
  ASSUME NEW h, NEW D, Shape(h, D), NEW X \in SUBSET Node,
         \A n \in In(h) : (h.up[n] = NULL \/ h.up[n] \in X) => n \in X
  PROVE  In(h) \subseteq X
<1> DEFINE N == Cardinality(Node)
           rank(n) == N - Cardinality(D[n])
           Ranks == {k \in Nat : \E n \in In(h) \ X : k = rank(n)}
<1>1. N \in Nat /\ \A n \in Node : Cardinality(D[n]) \in 1 .. N
  BY RankIs
<1>2. \A n \in In(h) : rank(n) \in Nat
  BY <1>1 DEF In
<1>3. Ranks = {}
  <2> SUFFICES ASSUME Ranks # {} PROVE FALSE
    OBVIOUS
  <2>1. PICK k \in Ranks : \A l \in Ranks : k <= l
    <3>1. Ranks \in SUBSET Nat
      OBVIOUS
    <3> HIDE DEF Ranks
    <3> QED
      BY <3>1, Least
  <2>2. PICK n \in In(h) \ X : k = rank(n)
    OBVIOUS
  <2> DEFINE p == h.up[n]
  <2>3. p # NULL /\ p \notin X /\ p \in In(h) /\ p \in Node /\ h.kid[p][SideOf(h, n, p)] = n
        /\ SideOf(h, n, p) \in Side
    BY <2>2, PlaceIs
  <2>4. n # NULL /\ n \in Node
    BY <2>2, NodeAssumption DEF In
  <2> HIDE DEF p
  <2>5. Cardinality(D[n]) < Cardinality(D[p])
    BY <2>3, <2>4, RankIs
  <2>6. rank(p) < rank(n)
    BY <1>1, <2>3, <2>4, <2>5
  <2>7. rank(p) \in Ranks
    BY <1>2, <2>3
  <2> HIDE DEF Ranks
  <2>8. k <= rank(p) /\ k = rank(n) /\ rank(n) \in Nat /\ rank(p) \in Nat
    BY <1>2, <2>1, <2>2, <2>3, <2>7
  <2> HIDE DEF rank
  <2> QED
    BY <2>6, <2>8
<1>4. ASSUME NEW n \in In(h) PROVE n \in X
  <2> SUFFICES ASSUME n \notin X PROVE FALSE
    OBVIOUS
  <2>1. rank(n) \in Ranks
    BY <1>2
  <2> QED
    BY <1>3, <2>1
<1> QED
  BY <1>4

\* A node that is not below n is on the same side of all that are.
Apartly(h, D, n) ==
  \A x \in In(h) \ D[n], a \in D[n], t \in Side : Lies(t, key[x], n) <=> Lies(t, key[x], a)

LEMMA SameSide ==
  ASSUME NEW h, NEW D, Shape(h, D)
  PROVE  \A n \in In(h) : Apartly(h, D, n)
<1> DEFINE X == {n \in Node : n \in In(h) /\ Apartly(h, D, n)}
<1>1. ASSUME NEW n \in In(h), h.up[n] = NULL \/ h.up[n] \in X
      PROVE  n \in X
  <2> DEFINE p == h.up[n]
             u == SideOf(h, n, p)
             o == Other(u)
  <2>1. /\ n \in Node /\ (p = NULL => h.root = n)
        /\ p # NULL => p \in In(h) /\ p \in Node /\ u \in Side /\ h.kid[p][u] = n
    BY PlaceIs
  <2>2. CASE p = NULL
    <3>1. D[n] = In(h)
      BY <2>1, <2>2 DEF Shape
    <3>2. Apartly(h, D, n)
      BY <3>1 DEF Apartly
    <3> QED
      BY <2>1, <3>2
  <2>3. CASE p # NULL
    <3>1. p \in X
      BY <1>1, <2>3
    <3>2. Apartly(h, D, p) /\ p \in Node /\ p \in In(h)
      BY <3>1
    <3> HIDE DEF p, u
    <3>3. /\ u \in Side /\ o \in Side /\ p \in D[p] /\ D[p] = {p} \cup D[n] \cup D[h.kid[p][o]]
          /\ (\A a \in D[n] : Lies(u, key[a], p)) /\ D[n] \subseteq D[p] /\ D[p] \subseteq Node /\ n \in D[n]
      BY <2>1, <2>3, BelowIs, Sides
    <3>4. \A a \in D[h.kid[p][o]] : Lies(o, key[a], p)
      BY <3>2, <3>3, BelowIs
    <3>5. ASSUME NEW x \in In(h) \ D[n], NEW a \in D[n], NEW t \in Side
          PROVE  Lies(t, key[x], n) <=> Lies(t, key[x], a)
      <4>1. x \in Node /\ a \in Node /\ a \in D[p] /\ key[x] \in Int /\ key[a] \in Int /\ key[n] \in Int
        BY <2>1, <3>3, NodeAssumption DEF In
      <4>2. CASE x \notin D[p]
        BY <3>2, <3>3, <4>1, <4>2 DEF Apartly
      <4>3. CASE x \in D[p]
        <5>1. \A b \in D[n] : Lies(o, key[x], b)
          <6> SUFFICES ASSUME NEW b \in D[n] PROVE Lies(o, key[x], b)
            OBVIOUS
          <6>1. b \in Node /\ Lies(u, key[b], p) /\ key[b] \in Int
            BY <3>3, NodeAssumption
          <6>2. Lies(o, key[p], b)
            BY <3>2, <3>3, <6>1, KeysLie
          <6>3. x = p \/ Lies(o, key[x], p)
            BY <3>3, <3>4, <4>3
          <6> QED
            BY <3>2, <3>3, <4>1, <6>1, <6>2, <6>3, LiesBeyond
        <5>2. Lies(o, key[x], n) /\ Lies(o, key[x], a)
          BY <3>3, <5>1
        <5>3. t = o \/ (t = u /\ Other(o) = u)
          BY <3>3, Sides
        <5> QED
          BY <2>1, <3>3, <4>1, <5>2, <5>3, KeysLie
      <4> QED
        BY <4>2, <4>3
    <3>6. Apartly(h, D, n)
      BY <3>5 DEF Apartly
    <3> QED
      BY <2>1, <3>6
  <2> QED
    BY <2>2, <2>3
<1>2. In(h) \subseteq X
  <2> HIDE DEF X
  <2>1. X \in SUBSET Node
    BY DEF X
  <2> QED
    BY <1>1, <2>1, FromAbove
<1> QED
  BY <1>2

\* r is the nearest node on side s of n among those that are not below n.
Upper(h, D, n, s, r) ==
  /\ r = NULL => \A x \in In(h) \ D[n] : ~ Lies(s, key[x], n)
  /\ r # NULL => /\ r \in In(h) /\ r \notin D[n] /\ Lies(s, key[r], n)
                 /\ \A x \in In(h) \ D[n] : Lies(s, key[x], n) => x = r \/ Lies(s, key[x], r)

LEMMA UpperStep ==
  ASSUME NEW h, NEW D, Shape(h, D), NEW s \in Side, NEW n \in In(h), NEW p, p = h.up[n], p # NULL, NEW r,
         h.kid[p][s] = n => Upper(h, D, p, s, r),
         h.kid[p][s] # n => r = p
  PROVE  Upper(h, D, n, s, r)
<1> DEFINE u == SideOf(h, n, p)
           o == Other(u)
<1>1. /\ n \in Node /\ p \in In(h) /\ p \in Node /\ u \in Side /\ h.kid[p][u] = n
      /\ \A a \in Node, t \in Side : h.kid[a][t] = n <=> a = p /\ t = u
  BY PlaceIs
<1> HIDE DEF u
<1>2. /\ o \in Side /\ p \in D[p] /\ D[p] = {p} \cup D[n] \cup D[h.kid[p][o]]
      /\ (\A a \in D[n] : Lies(u, key[a], p)) /\ D[n] \subseteq D[p] /\ D[p] \subseteq Node /\ n \in D[n]
      /\ p \notin D[n]
  BY <1>1, BelowIs, Sides
<1>3. \A a \in D[h.kid[p][o]] : Lies(o, key[a], p)
  BY <1>1, <1>2, BelowIs
<1>4. Lies(o, key[p], n)
  BY <1>1, <1>2, KeysLie, NodeAssumption
<1>5. ASSUME NEW x \in In(h) \ D[n]
      PROVE  /\ x \in Node /\ key[x] \in Int
             /\ x \in D[p] => (x = p \/ Lies(o, key[x], p)) /\ Lies(o, key[x], n)
             /\ x \notin D[p] => \A t \in Side : Lies(t, key[x], p) <=> Lies(t, key[x], n)
  <2>1. x \in Node /\ key[x] \in Int
    BY NodeAssumption DEF In
  <2>2. CASE x \in D[p]
    <3>1. x = p \/ Lies(o, key[x], p)
      BY <1>2, <1>3, <2>2
    <3>2. Lies(o, key[x], n)
      BY <1>1, <1>2, <1>4, <2>1, <3>1, LiesBeyond
    <3> QED
      BY <2>1, <2>2, <3>1, <3>2
  <2>3. CASE x \notin D[p]
    <3>1. Apartly(h, D, p)
      BY <1>1, SameSide
    <3>2. \A t \in Side : Lies(t, key[x], p) <=> Lies(t, key[x], n)
      BY <1>2, <2>3, <3>1 DEF Apartly
    <3> QED
      BY <2>1, <2>3, <3>2
  <2> QED
    BY <2>2, <2>3
<1>6. CASE h.kid[p][s] = n
  <2>1. s = u /\ Upper(h, D, p, s, r)
    BY <1>1, <1>6
  <2>2. ASSUME NEW x \in In(h) \ D[n], x \in D[p] PROVE ~ Lies(s, key[x], n)
    <3>1. Lies(o, key[x], n) /\ x \in Node /\ key[x] \in Int
      BY <1>5, <2>2
    <3> QED
      BY <1>1, <2>1, <3>1, KeysLie
  <2>3. CASE r = NULL
    <3>1. \A x \in In(h) \ D[p] : ~ Lies(s, key[x], p)
      BY <2>1, <2>3 DEF Upper
    <3>2. \A x \in In(h) \ D[n] : ~ Lies(s, key[x], n)
      BY <1>5, <2>2, <3>1
    <3> QED
      BY <2>3, <3>2 DEF Upper
  <2>4. CASE r # NULL
    <3>1. /\ r \in In(h) /\ r \notin D[p] /\ Lies(s, key[r], p)
          /\ \A x \in In(h) \ D[p] : Lies(s, key[x], p) => x = r \/ Lies(s, key[x], r)
      BY <2>1, <2>4 DEF Upper
    <3>2. r \notin D[n] /\ Lies(s, key[r], n)
      BY <1>2, <1>5, <3>1
    <3>3. \A x \in In(h) \ D[n] : Lies(s, key[x], n) => x = r \/ Lies(s, key[x], r)
      BY <1>5, <2>2, <3>1
    <3> QED
      BY <2>4, <3>1, <3>2, <3>3 DEF Upper
  <2> QED
    BY <2>3, <2>4
<1>7. CASE h.kid[p][s] # n
  <2>1. s = o /\ r = p
    BY <1>1, <1>7, Sides
  <2>2. \A x \in In(h) \ D[n] : Lies(s, key[x], n) => x = p \/ Lies(s, key[x], p)
    BY <1>5, <2>1
  <2> HIDE DEF o
  <2> QED
    BY <1>1, <1>2, <1>4, <2>1, <2>2 DEF Upper
<1> QED
  BY <1>6, <1>7

LEMMA AboveIs ==
  ASSUME NEW h, NEW D, Shape(h, D), NEW n \in In(h), NEW s \in Side
  PROVE  Upper(h, D, n, s, Above(h, n, s))
<1> DEFINE on(m) == h.up[m] # NULL /\ h.kid[h.up[m]][s] = m
           P(f) == f = [m \in Node |-> IF h.up[m] # NULL /\ h.kid[h.up[m]][s] = m
                                      THEN f[h.up[m]] ELSE h.up[m]]
           G == [m \in Node |-> [f \in [Node -> Pointer] |-> IF on(m) THEN f[h.up[m]] ELSE h.up[m]]]
           N == Cardinality(Node)
           rank == [m \in Node |-> N - Cardinality(D[m])]
<1>1. \A m \in Node : h.up[m] \in Pointer /\ (on(m) => h.up[m] \in Node)
  BY HeapFields DEF Shape, Pointer
<1>2. \E f \in [Node -> Pointer] : \A m \in Node : f[m] = G[m][f]
  <2>1. N \in Nat /\ rank \in [Node -> 0 .. N]
    <3>1. N \in Nat /\ \A m \in Node : Cardinality(D[m]) \in 1 .. N
      BY RankIs
    <3> HIDE DEF N
    <3> QED
      BY <3>1
  <2>2. G \in [Node -> [[Node -> Pointer] -> Pointer]]
    BY <1>1
  <2>3. \A m \in Node : \A f, g \in [Node -> Pointer] :
          (\A y \in Node : rank[y] < rank[m] => f[y] = g[y]) => G[m][f] = G[m][g]
    <3> SUFFICES ASSUME NEW m \in Node, NEW f \in [Node -> Pointer], NEW g \in [Node -> Pointer],
                        \A y \in Node : rank[y] < rank[m] => f[y] = g[y]
                 PROVE  G[m][f] = G[m][g]
      BY Zenon
    <3>1. on(m) => rank[h.up[m]] < rank[m]
      <4> SUFFICES ASSUME on(m) PROVE rank[h.up[m]] < rank[m]
        OBVIOUS
      <4> DEFINE p == h.up[m]
      <4>1. p \in Node /\ h.kid[p][s] = m /\ m # NULL
        BY <1>1, NodeAssumption
      <4>2. Cardinality(D[m]) < Cardinality(D[p])
        BY <4>1, RankIs
      <4>3. N \in Nat /\ Cardinality(D[m]) \in 1 .. N /\ Cardinality(D[p]) \in 1 .. N
        BY <4>1, RankIs
      <4> HIDE DEF N, p
      <4>4. rank[p] < rank[m]
        BY <4>1, <4>2, <4>3
      <4> QED
        BY <4>4 DEF p
    <3> QED
      BY <1>1, <3>1
  <2> HIDE DEF G, rank, N
  <2>4. Local(Node, Pointer, N, rank, G)
    BY <2>1, <2>2, <2>3, Zenon DEF Local
  <2>5. NULL \in Pointer
    BY DEF Pointer
  <2>6. Solvable(Node, Pointer, G)
    BY <2>4, <2>5, Recursion
  <2> QED
    BY <2>6 DEF Solvable
<1>3. \E f : P(f)
  <2>1. PICK f \in [Node -> Pointer] : \A m \in Node : f[m] = G[m][f]
    BY <1>2
  <2>2. f = [m \in Node |-> f[m]]
    OBVIOUS
  <2>3. \A m \in Node : f[m] = IF h.up[m] # NULL /\ h.kid[h.up[m]][s] = m THEN f[h.up[m]] ELSE h.up[m]
    BY <2>1
  <2>4. P(f)
    BY <2>2, <2>3
  <2> QED
    BY <2>4
<1> DEFINE F == CHOOSE f : P(f)
<1>4. P(F)
  <2> HIDE DEF P
  <2> QED
    BY <1>3
<1>5. Above(h, n, s) = F[n]
  BY DEF Above
<1> HIDE DEF F
<1>6. \A m \in Node : F[m] = IF h.up[m] # NULL /\ h.kid[h.up[m]][s] = m THEN F[h.up[m]] ELSE h.up[m]
  BY <1>4
<1> DEFINE X == {m \in Node : m \in In(h) /\ Upper(h, D, m, s, F[m])}
<1>7. ASSUME NEW m \in In(h), h.up[m] = NULL \/ h.up[m] \in X
      PROVE  m \in X
  <2>1. m \in Node /\ (h.up[m] = NULL => h.root = m)
    BY PlaceIs
  <2>2. CASE h.up[m] = NULL
    <3>1. F[m] = NULL
      BY <1>6, <2>1, <2>2
    <3>2. D[m] = In(h)
      BY <2>1, <2>2 DEF Shape
    <3>3. Upper(h, D, m, s, F[m])
      BY <3>1, <3>2 DEF Upper
    <3> QED
      BY <2>1, <3>3
  <2>3. CASE h.up[m] # NULL
    <3> DEFINE p == h.up[m]
               r == F[m]
    <3>1. p # NULL /\ Upper(h, D, p, s, F[p]) /\ p = h.up[m]
      BY <1>7, <2>3
    <3>2. (h.kid[p][s] = m => r = F[p]) /\ (h.kid[p][s] # m => r = p)
      BY <1>6, <2>1, <2>3
    <3> HIDE DEF p, r
    <3>3. /\ h.kid[p][s] = m => Upper(h, D, p, s, r)
          /\ h.kid[p][s] # m => r = p
      BY <3>1, <3>2
    <3>4. Upper(h, D, m, s, r)
      BY <3>1, <3>3, UpperStep
    <3> QED
      BY <2>1, <3>4 DEF r
  <2> QED
    BY <2>2, <2>3
<1>8. In(h) \subseteq X
  <2> HIDE DEF X
  <2>1. X \in SUBSET Node
    BY DEF X
  <2> QED
    BY <1>7, <2>1, FromAbove
<1> QED
  BY <1>5, <1>8

\* r is the next node after n in direction s, if there is one.
Beside(h, n, s, r) ==
  /\ r = NULL => \A x \in In(h) : ~ Lies(s, key[x], n)
  /\ r # NULL => /\ r \in In(h) /\ Lies(s, key[r], n)
                 /\ \A x \in In(h) : Lies(s, key[x], n) => x = r \/ Lies(s, key[x], r)

LEMMA StepIs ==
  ASSUME NEW h, NEW D, Shape(h, D), NEW n \in In(h), NEW s \in Side
  PROVE  Beside(h, n, s, RbStep(h, n, s))
<1> DEFINE c == h.kid[n][s]
           o == Other(s)
<1>1. /\ n \in Node /\ h.up[n] # n /\ key[n] \in Int /\ n \in D[n]
      /\ D[n] = {n} \cup D[c] \cup D[h.kid[n][o]] /\ D[n] \subseteq Node
      /\ \A a \in D[c] : Lies(s, key[a], n)
  BY BelowIs, NodeAssumption DEF In
<1>2. o \in Side /\ \A a \in D[h.kid[n][o]] : Lies(o, key[a], n)
  BY <1>1, BelowIs, Sides
<1>3. \A x \in D[n] : Lies(s, key[x], n) => x \in D[c]
  <2> SUFFICES ASSUME NEW x \in D[n], Lies(s, key[x], n), x \notin D[c] PROVE FALSE
    OBVIOUS
  <2>1. x \in Node /\ key[x] \in Int
    BY <1>1, NodeAssumption
  <2>2. x # n /\ ~ Lies(o, key[x], n)
    BY <1>1, <2>1, KeysLie
  <2> QED
    BY <1>1, <1>2, <2>2
<1>4. CASE c = NULL
  <2> DEFINE r == Above(h, n, s)
  <2>1. RbStep(h, n, s) = r
    BY <1>1, <1>4 DEF RbStep
  <2>2. Upper(h, D, n, s, r)
    BY AboveIs
  <2>3. D[c] = {}
    BY <1>4 DEF Shape, Spread
  <2> HIDE DEF r, c
  <2>4. \A x \in In(h) : Lies(s, key[x], n) => x \in In(h) \ D[n]
    BY <1>3, <2>3
  <2>5. Beside(h, n, s, r)
    BY <2>2, <2>4 DEF Upper, Beside
  <2> QED
    BY <2>1, <2>5
<1>5. CASE c # NULL
  <2> DEFINE r == Far(h, c, o)
  <2>1. RbStep(h, n, s) = r
    BY <1>1, <1>5 DEF RbStep
  <2>2. c \in Node /\ c \in In(h)
    BY <1>1, <1>5, KidIs
  <2>3. Furthest(h, D, c, o, r) /\ D[c] \subseteq In(h)
    BY <1>2, <2>2, FarIs, InIs
  <2> HIDE DEF r, c
  <2>4. r \in D[c] /\ Other(o) = s /\ \A a \in D[c] \ {r} : Lies(s, key[a], r)
    BY <2>3, Sides DEF Furthest
  <2>5. r \in In(h) /\ r \in Node /\ r # NULL /\ r \in D[n]
    BY <1>1, <2>3, <2>4, NodeAssumption DEF In
  <2>6. ASSUME NEW x \in In(h), Lies(s, key[x], n) PROVE x = r \/ Lies(s, key[x], r)
    <3>1. CASE x \in D[n]
      BY <1>3, <2>4, <2>6, <3>1
    <3>2. CASE x \notin D[n]
      <4>1. Apartly(h, D, n)
        BY SameSide
      <4> QED
        BY <2>5, <2>6, <3>2, <4>1 DEF Apartly
    <3> QED
      BY <3>1, <3>2
  <2>7. Beside(h, n, s, r)
    BY <1>1, <2>4, <2>5, <2>6 DEF Beside
  <2> QED
    BY <2>1, <2>7
<1> QED
  BY <1>4, <1>5

\* r is the last node in direction s.
Extreme(h, s, r) ==
  /\ r = NULL => In(h) = {}
  /\ r # NULL => r \in In(h) /\ \A x \in In(h) : x = r \/ Lies(Other(s), key[x], r)

LEMMA EndIs ==
  ASSUME NEW h, NEW D, Shape(h, D), NEW s \in Side
  PROVE  Extreme(h, s, RbEnd(h, s))
<1>1. D[h.root] = In(h) /\ D[NULL] = {} /\ (h.root # NULL => h.root \in Node)
  BY DEF Shape, Spread, Linked, In
<1>2. CASE h.root = NULL
  BY <1>1, <1>2 DEF RbEnd, Extreme
<1>3. CASE h.root # NULL
  <2> DEFINE r == Far(h, h.root, s)
  <2>1. RbEnd(h, s) = r
    BY <1>3 DEF RbEnd
  <2>2. Furthest(h, D, h.root, s, r)
    BY <1>1, <1>3, FarIs
  <2> HIDE DEF r
  <2>3. r \in In(h) /\ r # NULL /\ \A x \in In(h) : x = r \/ Lies(Other(s), key[x], r)
    BY <1>1, <2>2, NodeAssumption DEF Furthest, In
  <2>4. Extreme(h, s, r)
    BY <2>3 DEF Extreme
  <2> QED
    BY <2>1, <2>4
<1> QED
  BY <1>2, <1>3

LEMMA WalksFollow ==
  ASSUME IInv
  PROVE  WalksInOrder
<1> DEFINE T == Members(heap)
           Lowest(S) == IF S = {} THEN NULL ELSE CHOOSE m \in S : \A n \in S : key[m] <= key[n]
           Most(S) == IF S = {} THEN NULL ELSE CHOOSE m \in S : \A n \in S : key[m] >= key[n]
           in(n, S) == IF n \in T THEN S ELSE {}
<1>1. PICK D : Shape(heap, D)
  BY GoodShape
<1>2. T = In(heap)
  BY <1>1, MembersIs
<1> HIDE DEF T
<1>3. \A m, n \in T : m \in Node /\ key[m] \in Int /\ m # NULL /\ (key[m] = key[n] => m = n)
  BY <1>1, <1>2, NodeAssumption DEF Shape, In
<1>4. ASSUME NEW S \in SUBSET T, NEW r,
             (r = NULL /\ S = {}) \/ (r \in S /\ \A x \in S : x = r \/ key[x] > key[r])
      PROVE  r = Lowest(S)
  <2>1. CASE r = NULL /\ S = {}
    BY <2>1
  <2>2. CASE r \in S /\ \A x \in S : x = r \/ key[x] > key[r]
    <3>1. \A x \in S : key[r] <= key[x]
      BY <1>3, <2>2
    <3>2. \A m \in S : (\A n \in S : key[m] <= key[n]) => m = r
      BY <1>3, <2>2
    <3> QED
      BY <2>2, <3>1, <3>2
  <2> QED
    BY <1>4, <2>1, <2>2
<1>5. ASSUME NEW S \in SUBSET T, NEW r,
             (r = NULL /\ S = {}) \/ (r \in S /\ \A x \in S : x = r \/ key[x] < key[r])
      PROVE  r = Most(S)
  <2>1. CASE r = NULL /\ S = {}
    BY <2>1
  <2>2. CASE r \in S /\ \A x \in S : x = r \/ key[x] < key[r]
    <3>1. \A x \in S : key[r] >= key[x]
      BY <1>3, <2>2
    <3>2. \A m \in S : (\A n \in S : key[m] >= key[n]) => m = r
      BY <1>3, <2>2
    <3> QED
      BY <2>2, <3>1, <3>2
  <2> QED
    BY <1>5, <2>1, <2>2
<1>6. "left" \in Side /\ "right" \in Side /\ Other("left") = "right" /\ Other("right") = "left"
  BY DEF Side, Other
<1>7. \A k, n : (Lies("left", k, n) <=> k < key[n]) /\ (Lies("right", k, n) <=> k > key[n])
  BY DEF Lies
<1> HIDE DEF Lowest, Most
<1>8. RbFirst(heap) = Lowest(T)
  <2> DEFINE r == RbEnd(heap, "left")
  <2>1. Extreme(heap, "left", r)
    BY <1>1, <1>6, EndIs
  <2> HIDE DEF r
  <2>2. (r = NULL /\ T = {}) \/ (r \in T /\ \A x \in T : x = r \/ key[x] > key[r])
    BY <1>2, <1>6, <1>7, <2>1 DEF Extreme
  <2>3. r = Lowest(T)
    BY <1>4, <2>2
  <2> QED
    BY <2>3 DEF r, RbFirst
<1>9. RbLast(heap) = Most(T)
  <2> DEFINE r == RbEnd(heap, "right")
  <2>1. Extreme(heap, "right", r)
    BY <1>1, <1>6, EndIs
  <2> HIDE DEF r
  <2>2. (r = NULL /\ T = {}) \/ (r \in T /\ \A x \in T : x = r \/ key[x] < key[r])
    BY <1>2, <1>6, <1>7, <2>1 DEF Extreme
  <2>3. r = Most(T)
    BY <1>5, <2>2
  <2> QED
    BY <2>3 DEF r, RbLast
<1>10. ASSUME NEW n \in Node PROVE RbNext(heap, n) = Lowest(in(n, {m \in T : key[m] > key[n]}))
  <2> DEFINE r == RbStep(heap, n, "right")
             S == in(n, {m \in T : key[m] > key[n]})
  <2>1. CASE n \in T
    <3>1. Beside(heap, n, "right", r)
      BY <1>1, <1>2, <1>6, <2>1, StepIs
    <3> HIDE DEF r
    <3>2. (r = NULL /\ S = {}) \/ (r \in S /\ \A x \in S : x = r \/ key[x] > key[r])
      BY <1>2, <1>7, <2>1, <3>1 DEF Beside
    <3>3. S \in SUBSET T
      OBVIOUS
    <3> HIDE DEF S
    <3>4. r = Lowest(S)
      BY <1>4, <3>2, <3>3
    <3> QED
      BY <3>4 DEF r, S, RbNext
  <2>2. CASE n \notin T
    <3>1. heap.up[n] = n
      BY <1>2, <2>2 DEF In
    <3> QED
      BY <2>2, <3>1 DEF RbNext, RbStep, Lowest
  <2> QED
    BY <2>1, <2>2
<1>11. ASSUME NEW n \in Node PROVE RbPrev(heap, n) = Most(in(n, {m \in T : key[m] < key[n]}))
  <2> DEFINE r == RbStep(heap, n, "left")
             S == in(n, {m \in T : key[m] < key[n]})
  <2>1. CASE n \in T
    <3>1. Beside(heap, n, "left", r)
      BY <1>1, <1>2, <1>6, <2>1, StepIs
    <3> HIDE DEF r
    <3>2. (r = NULL /\ S = {}) \/ (r \in S /\ \A x \in S : x = r \/ key[x] < key[r])
      BY <1>2, <1>7, <2>1, <3>1 DEF Beside
    <3>3. S \in SUBSET T
      OBVIOUS
    <3> HIDE DEF S
    <3>4. r = Most(S)
      BY <1>5, <3>2, <3>3
    <3> QED
      BY <3>4 DEF r, S, RbPrev
  <2>2. CASE n \notin T
    <3>1. heap.up[n] = n
      BY <1>2, <2>2 DEF In
    <3> QED
      BY <2>2, <3>1 DEF RbPrev, RbStep, Most
  <2> QED
    BY <2>1, <2>2
<1> QED
  BY <1>8, <1>9, <1>10, <1>11 DEF WalksInOrder, T, Lowest, Most

\* Between calls rb_first, rb_last, rb_next and rb_prev give the ends and the
\* neighbours in the order of the keys, and a node outside has no neighbour.
THEOREM WalksHold == Spec => []WalksInOrder
<1>1. IInv => WalksInOrder
  BY WalksFollow
<1> QED
  BY <1>1, AlwaysGood, PTL

(***************************************************************************)
(* The augmented data.                                                     *)
(***************************************************************************)
\* The nodes whose augmented value x is not what func would make it.
Stale(h, D, x) == {a \in In(h) : x[a] # Cardinality(D[a])}

\* d and the nodes above it, and the children of d and of those above.
Over(h, D, d) == {a \in In(h) : d \in D[a]}
Beneath(h, D, d) == {a \in In(h) : h.up[a] # NULL /\ d \in D[h.up[a]]}

\* The nodes that rb_augment_path comes by when it starts from d: those over
\* it, and their brothers.
Path(h, D, d) == Over(h, D, d) \cup {a \in Beneath(h, D, d) : h.up[a] # d}

\* What is stale lies on the way that the call has still to go.
Fresh(h, D, x, o) ==
  /\ x \in [Node -> 0 .. Cardinality(Node)]
  /\ o.pc = "insert" =>
       \/ Stale(h, D, x) \subseteq Over(h, D, o.of) /\ o.of \in D[o.node]
       \/ Black(h, h.up[o.node]) /\ Stale(h, D, x) \subseteq Over(h, D, o.of) \cup Beneath(h, D, o.of)
  /\ Hole(h, o) => /\ Stale(h, D, x) \subseteq Over(h, D, o.deepest)
                   /\ o.deepest \in D[o.node] \/ (o.node = NULL /\ o.deepest = o.parent)
  /\ o.pc # "insert" /\ ~ Hole(h, o) =>
       IF o.deepest = NULL THEN Stale(h, D, x) = {} ELSE Stale(h, D, x) \subseteq Path(h, D, o.deepest)

AInv == \E D : Shape(heap, D) /\ Fresh(heap, D, aug, op)

\* There is one D for a heap.
LEMMA SameBelow ==
  ASSUME NEW h, NEW D, Shape(h, D), NEW E, Shape(h, E)
  PROVE  D = E
<1>1. \A n \in Pointer : D[n] = E[n]
  <2> SUFFICES ASSUME NEW n \in Pointer PROVE D[n] = E[n]
    OBVIOUS
  <2>1. Under(h, n) = D[n]
    BY UnderIs
  <2>2. Under(h, n) = E[n]
    BY UnderIs
  <2> QED
    BY <2>1, <2>2
<1>2. D = [n \in Pointer |-> D[n]] /\ E = [n \in Pointer |-> E[n]]
  BY DEF Shape, Spread
<1> QED
  BY <1>1, <1>2, Zenon

LEMMA AugIs ==
  ASSUME AInv, NEW D, Shape(heap, D)
  PROVE  Fresh(heap, D, aug, op)
BY SameBelow DEF AInv

LEMMA StartFresh ==
  ASSUME Init
  PROVE  AInv
<1>1. IInv /\ op = Idle /\ aug = [n \in Node |-> 0]
  BY StartGood DEF Init
<1>2. PICK D : Shape(heap, D)
  BY <1>1, GoodShape
<1>3. In(heap) = {}
  BY DEF Init, In
<1>4. Stale(heap, D, aug) = {}
  BY <1>3 DEF Stale
<1>5. aug \in [Node -> 0 .. Cardinality(Node)]
  BY <1>1, NodeAssumption, FS_CardinalityType
<1>6. op.pc = "idle" /\ op.deepest = NULL /\ ~ Hole(heap, op)
  BY <1>1 DEF Idle, Hole
<1> QED
  BY <1>2, <1>4, <1>5, <1>6 DEF Fresh, AInv

LEMMA InsertFresh ==
  ASSUME IInv, AInv, NEW n \in Node, Insert(n)
  PROVE  AInv'
<1> DEFINE at == Search(heap, key[n])
           p == at.parent
<1>1. op.pc = "idle" /\ at.found = NULL /\ heap' = Link(heap, n, p, at.side)
      /\ op' = [Idle EXCEPT !.pc = "insert", !.of = n, !.node = n] /\ aug' = aug
  BY DEF Insert
<1>2. PICK D : Shape(heap, D)
  BY GoodShape
<1>3. key[n] \in Int
  BY NodeAssumption
<1>4. Room(heap, D, key[n], p, at.side) /\ \A x \in In(heap) : key[x] # key[n]
  BY <1>1, <1>2, <1>3, SearchIs
<1> HIDE DEF at
<1>5. n \notin In(heap)
  BY <1>4
<1>6. p \in Pointer /\ at.side \in Side /\ p # n
      /\ (p # NULL => p \in In(heap) /\ heap.kid[p][at.side] = NULL)
  BY <1>4, <1>5, NodeAssumption DEF Room
<1>7. Joined(heap, heap', n, p, at.side)
  BY <1>1, <1>2, <1>6, LinkIs DEF Shape
<1> DEFINE E == JoinedBelow(D, n, p)
<1>8. Shape(heap', E) /\ In(heap') = In(heap) \cup {n}
  BY <1>2, <1>4, <1>5, <1>7, JoinShape
<1>9. Fresh(heap, D, aug, op) /\ op = Idle
  BY <1>1, <1>2, AugIs, GoodIs DEF IInv, Locals
<1>10. aug \in [Node -> 0 .. Cardinality(Node)] /\ Stale(heap, D, aug) = {}
  BY <1>1, <1>9 DEF Fresh, Idle, Hole
<1>11. E[n] = {n} /\ \A a \in Node : a # n => E[a] = IF p \in D[a] THEN D[a] \cup {n} ELSE D[a]
  BY DEF JoinedBelow, Pointer
<1> HIDE DEF E, p
<1>12. Stale(heap', E, aug) \subseteq Over(heap', E, n)
  <2> SUFFICES ASSUME NEW a \in In(heap'), aug[a] # Cardinality(E[a]) PROVE n \in E[a]
    BY DEF Stale, Over
  <2>1. a = n \/ (a # n /\ a \in In(heap) /\ a \in Node)
    BY <1>8 DEF In
  <2>2. a \in In(heap) => aug[a] = Cardinality(D[a])
    BY <1>10 DEF Stale
  <2> QED
    BY <1>11, <2>1, <2>2
<1>13. op'.pc = "insert" /\ op'.of = n /\ op'.node = n
  BY <1>1 DEF Idle
<1>14. Fresh(heap', E, aug', op')
  BY <1>1, <1>10, <1>11, <1>12, <1>13 DEF Fresh, Hole
<1> QED
  BY <1>8, <1>14 DEF AInv

LEMMA RecolourFresh ==
  ASSUME IInv, AInv, InsertRecolour
  PROVE  AInv'
<1> DEFINE n == op.node
           p == heap.up[n]
           g == heap.up[p]
           s == SideOf(heap, p, g)
           u == heap.kid[g][Other(s)]
           k == Paint(Paint(Paint(heap, u, FALSE), p, FALSE), g, TRUE)
<1>1. /\ op.pc = "insert" /\ ~ Black(heap, p) /\ heap' = k /\ op' = [op EXCEPT !.node = g] /\ aug' = aug
  BY DEF InsertRecolour
<1>2. op \in Op /\ op.of \in In(heap) /\ n \in In(heap) /\ heap.red[n]
  BY <1>1, InsertIs
<1>3. PICK D, H : Shape(heap, D) /\ Balanced(heap, H, NULL, "left") /\ Apart(heap, n, FALSE)
  BY <1>1, InsertIs
<1>4. Clash(heap, n, p, g, s)
  BY <1>1, <1>2, <1>3, Grandparent
<1>5. Fresh(heap, D, aug, op)
  BY <1>3, AugIs
<1>6. aug \in [Node -> 0 .. Cardinality(Node)] /\ Stale(heap, D, aug) \subseteq Over(heap, D, op.of) /\ op.of \in D[n]
  BY <1>1, <1>5 DEF Fresh
<1>7. Shape(k, D) /\ In(k) = In(heap)
  <2> HIDE DEF u, p, g
  <2>1. Shape(Paint(heap, u, FALSE), D) /\ In(Paint(heap, u, FALSE)) = In(heap)
    BY <1>3, PaintShape
  <2> DEFINE i == Paint(heap, u, FALSE)
             j == Paint(i, p, FALSE)
  <2>2. Shape(j, D) /\ In(j) = In(i)
    <3> HIDE DEF i
    <3> QED
      BY <2>1, PaintShape DEF i
  <2>3. Shape(Paint(j, g, TRUE), D) /\ In(Paint(j, g, TRUE)) = In(j)
    <3> HIDE DEF j
    <3> QED
      BY <2>2, PaintShape
  <2> QED
    BY <2>1, <2>2, <2>3
<1> HIDE DEF n, p, g, s, k, u
<1>8. op.of \in D[g]
  <2>1. n \in Node /\ p \in Node /\ g \in Node /\ s \in Side /\ n # NULL /\ p # NULL
        /\ heap.kid[g][s] = p /\ \E t \in Side : heap.kid[p][t] = n
    BY <1>4, NodeAssumption DEF Clash
  <2>2. D[n] \subseteq D[p]
    BY <1>3, <2>1, BelowIs
  <2>3. D[p] \subseteq D[g]
    BY <1>3, <2>1, BelowIs
  <2> QED
    BY <1>6, <2>2, <2>3
<1>9. op'.pc = "insert" /\ op'.of = op.of /\ op'.node = g
  BY <1>1, <1>2 DEF Op
<1>10. Stale(k, D, aug) \subseteq Over(k, D, op.of)
  BY <1>6, <1>7 DEF Stale, Over
<1>11. Fresh(k, D, aug, op')
  BY <1>6, <1>8, <1>9, <1>10 DEF Fresh, Hole
<1> QED
  BY <1>1, <1>7, <1>11 DEF AInv

\* What a rotation of n, with c in its place, does to what is below the nodes.
Spun(h, g, D, E, n, s, c) ==
  /\ n \in Node /\ c \in Node /\ n # c /\ n \in In(h) /\ c \in In(h)
  /\ Shape(g, E) /\ In(g) = In(h)
  /\ E[c] = D[n] /\ n \in E[n] /\ D[h.kid[n][s]] \subseteq E[n]
  /\ \A a \in Node : a # n /\ a # c => E[a] = D[a]
  /\ g.up[n] = c /\ g.kid[c][s] = n
  /\ h.kid[c][Other(s)] # NULL => g.up[h.kid[c][Other(s)]] = c
  /\ \A a \in Node, t \in Side : a # n /\ a # c /\ h.kid[a][t] = n => g.kid[a][t] = c

LEMMA SpunIs ==
  ASSUME NEW h, NEW D, Shape(h, D), NEW n \in Node, NEW s \in Side, NEW c, h.kid[n][Other(s)] = c, c # NULL
  PROVE  /\ Spun(h, Rotate(h, n, s), D, TurnedBelow(h, D, n, s), n, s, c)
         /\ Rotate(h, n, s).red = h.red
<1> DEFINE g == Rotate(h, n, s)
           E == TurnedBelow(h, D, n, s)
           x == h.kid[c][s]
           l == h.kid[n][s]
           r == h.kid[c][Other(s)]
<1>1. h.kid[n][Other(s)] # NULL
  OBVIOUS
<1>2. Turned(h, g, n, s)
  BY <1>1, RotateIs
<1> HIDE DEF g
<1>3. Shape(g, E) /\ In(g) = In(h)
  BY <1>1, <1>2, RotateShape
<1>4. E[n] = {n} \cup D[l] \cup D[x] /\ E[c] = D[n] /\ \A a \in Pointer : a # n /\ a # c => E[a] = D[a]
  BY <1>1, TurnedBelowIs
<1>5. Pivot(h, D, n, s, c, x, l, r)
  BY <1>1, PivotIs
<1> HIDE DEF E, x, l, r
<1>6. c \in Node /\ n # c /\ n \in In(h) /\ c \in In(h) /\ r \in Pointer /\ r # n /\ r # c
      /\ (r # NULL => h.up[r] = c) /\ (x # NULL => h.up[x] = c)
  BY <1>5 DEF Pivot
<1>7. g.up[n] = c /\ g.red = h.red
  BY <1>2, <1>6 DEF Turned
<1>8. r # NULL => g.up[r] = c
  <2> SUFFICES ASSUME r # NULL PROVE g.up[r] = c
    OBVIOUS
  <2>1. r \in Node /\ r # x
    <3>1. r \in Node
      BY <1>6 DEF Pointer
    <3>2. D[x] \cap D[r] = {} /\ r \in D[r]
      BY <1>5, <3>1, BelowIs DEF Pivot
    <3> QED
      BY <3>1, <3>2
  <2> QED
    BY <1>2, <1>6, <2>1 DEF Turned, x, r
<1>9. \A a \in Node : a # n /\ a # c => E[a] = D[a]
  BY <1>4 DEF Pointer
<1>10. g.kid[c][s] = n /\ \A a \in Node, t \in Side : a # n /\ a # c /\ h.kid[a][t] = n => g.kid[a][t] = c
  BY <1>2, <1>6 DEF Turned
<1>11. Spun(h, g, D, E, n, s, c)
  BY <1>3, <1>4, <1>6, <1>7, <1>8, <1>9, <1>10 DEF Spun, l, r
<1> QED
  BY <1>7, <1>11 DEF g, E

LEMMA SpunSame ==
  ASSUME NEW h, NEW j, j.kid = h.kid, j.up = h.up,
         NEW g, NEW D, NEW E, NEW n, NEW s, NEW c, Spun(j, g, D, E, n, s, c)
  PROVE  Spun(h, g, D, E, n, s, c)
BY DEF Spun, In

LEMMA RotateFresh ==
  ASSUME IInv, AInv, InsertRotate
  PROVE  AInv'
<1> DEFINE n == op.node
           p == heap.up[n]
           g == heap.up[p]
           s == SideOf(heap, p, g)
           inner == heap.kid[p][Other(s)] = n
           h == IF inner THEN Rotate(heap, p, s) ELSE heap
           q == IF inner THEN n ELSE p
           r == IF inner THEN p ELSE n
           k == Rotate(Paint(Paint(h, q, FALSE), g, TRUE), g, Other(s))
           of == op.of
<1>1. op.pc = "insert" /\ ~ Black(heap, p) /\ heap' = k
      /\ op' = [op EXCEPT !.node = r] /\ aug' = aug
  BY DEF InsertRotate
<1>2. op \in Op /\ of \in In(heap) /\ n \in In(heap) /\ heap.red[n]
  BY <1>1, InsertIs
<1>3. PICK D, H : Shape(heap, D) /\ Balanced(heap, H, NULL, "left") /\ Apart(heap, n, FALSE)
  BY <1>1, InsertIs
<1>4. Clash(heap, n, p, g, s)
  BY <1>1, <1>2, <1>3, Grandparent
<1>5. Fresh(heap, D, aug, op)
  BY <1>3, AugIs
<1>6. aug \in [Node -> 0 .. Cardinality(Node)] /\ Stale(heap, D, aug) \subseteq Over(heap, D, of) /\ of \in D[n]
  BY <1>1, <1>5 DEF Fresh
<1> HIDE DEF n, p, g, s, of
<1>7. /\ n \in Node /\ p \in Node /\ g \in Node /\ s \in Side /\ Other(s) \in Side /\ Other(Other(s)) = s
      /\ (\A t \in Side : t = s \/ t = Other(s))
      /\ n # NULL /\ p # NULL /\ g # n /\ g # p /\ p # n
      /\ heap.kid[g][s] = p /\ \E t \in Side : heap.kid[p][t] = n
  BY <1>4, Sides, NodeAssumption DEF Clash
<1>8. of \in D[p] /\ of \in D[g]
  <2>1. D[n] \subseteq D[p]
    BY <1>3, <1>7, BelowIs
  <2>2. D[p] \subseteq D[g]
    BY <1>3, <1>7, BelowIs
  <2> QED
    BY <1>6, <2>1, <2>2
<1>9. \E E : /\ Shape(h, E) /\ In(h) = In(heap) /\ Clash(h, r, q, g, s) /\ h.kid[q][s] = r
             /\ of \in E[g] /\ \A a \in Stale(h, E, aug) : of \in E[a] \/ a = r
  <2>1. CASE inner
    <3> DEFINE j == Rotate(heap, p, s)
    <3>1. heap.kid[p][Other(s)] = n
      BY <2>1
    <3>2. j = Rotate(heap, p, s)
      OBVIOUS
    <3> HIDE DEF j
    <3>3. Clash(j, p, n, g, s) /\ j.kid[n][s] = p
      <4>1. InnerKept(heap, j, D, H, "left", n, p, g, s)
        BY <1>3, <1>4, <3>1, <3>2, InnerTurn
      <4> QED
        BY <4>1 DEF InnerKept
    <3> DEFINE E == TurnedBelow(heap, D, p, s)
    <3>4. Spun(heap, j, D, E, p, s, n)
      BY <1>3, <1>7, <3>1, <3>2, SpunIs
    <3> HIDE DEF E
    <3>5. of \in E[g]
      BY <1>7, <1>8, <3>4 DEF Spun
    <3>6. ASSUME NEW a \in Stale(j, E, aug) PROVE of \in E[a] \/ a = p
      <4>1. a \in In(heap) /\ a \in Node /\ aug[a] # Cardinality(E[a])
        BY <3>4, <3>6 DEF Stale, Spun, In
      <4>2. CASE a # p /\ a # n
        <5>1. E[a] = D[a]
          BY <3>4, <4>1, <4>2 DEF Spun
        <5>2. a \in Stale(heap, D, aug)
          BY <4>1, <5>1 DEF Stale
        <5> QED
          BY <1>6, <5>1, <5>2 DEF Over
      <4>3. CASE a = n
        BY <1>8, <3>4, <4>3 DEF Spun
      <4> QED
        BY <4>2, <4>3
    <3>7. h = j /\ r = p /\ q = n /\ Shape(j, E) /\ In(j) = In(heap)
      BY <2>1, <3>4 DEF j, Spun
    <3> HIDE DEF h, r, q
    <3> QED
      BY <3>3, <3>5, <3>6, <3>7
  <2>2. CASE ~ inner
    <3>1. h = heap /\ r = n /\ q = p
      BY <2>2
    <3>2. heap.kid[p][s] = n
      BY <1>7, <2>2
    <3> HIDE DEF h, r, q, inner
    <3> QED
      BY <1>3, <1>4, <1>6, <1>8, <3>1, <3>2 DEF Over
  <2> QED
    BY <2>1, <2>2
<1>10. PICK E : /\ Shape(h, E) /\ In(h) = In(heap) /\ Clash(h, r, q, g, s) /\ h.kid[q][s] = r
                /\ of \in E[g] /\ \A a \in Stale(h, E, aug) : of \in E[a] \/ a = r
  BY <1>9
<1> HIDE DEF h, r, q, inner
<1> DEFINE i == Paint(h, q, FALSE)
           j == Paint(i, g, TRUE)
           F == TurnedBelow(j, E, g, Other(s))
<1>11. q \in Node /\ r \in Node /\ q # g /\ r # g /\ r # q /\ r # NULL /\ q # NULL /\ h.kid[g][s] = q
       /\ r \in In(h)
  BY <1>10, NodeAssumption DEF Clash
<1>12. Shape(j, E) /\ In(j) = In(h) /\ j.kid = h.kid /\ j.up = h.up /\ ~ j.red[q]
  <2>1. Shape(i, E) /\ In(i) = In(h)
    BY <1>10, PaintShape
  <2>2. i.kid = h.kid /\ i.up = h.up /\ ~ i.red[q]
    BY <1>10, <1>11 DEF Paint, Shape, Heap
  <2>3. Shape(j, E) /\ In(j) = In(i)
    <3> HIDE DEF i
    <3> QED
      BY <2>1, PaintShape
  <2>4. j.kid = i.kid /\ j.up = i.up /\ j.red[q] = i.red[q]
    <3> HIDE DEF i
    <3> QED
      BY <1>11, <2>1 DEF Paint, Shape, Heap
  <2> HIDE DEF i, j
  <2> QED
    BY <2>1, <2>2, <2>3, <2>4
<1>13. Spun(j, k, E, F, g, Other(s), q) /\ k.red = j.red
  <2>1. k = Rotate(j, g, Other(s)) /\ j.kid[g][Other(Other(s))] = q
    BY <1>7, <1>11, <1>12
  <2> HIDE DEF j, k
  <2> QED
    BY <1>7, <1>11, <1>12, <2>1, SpunIs
<1> HIDE DEF F, k
<1>14. Spun(h, k, E, F, g, Other(s), q)
  <2> HIDE DEF j
  <2> QED
    BY <1>12, <1>13, SpunSame
<1>15. ~ k.red[q]
  <2> HIDE DEF j
  <2> QED
    BY <1>12, <1>13
<1> HIDE DEF i, j
<1>16. k.up[g] = q /\ k.up[r] = q /\ of \in F[q] /\ Shape(k, F) /\ In(k) = In(heap)
       /\ \A a \in Node : a # g /\ a # q => F[a] = E[a]
  BY <1>7, <1>10, <1>11, <1>14 DEF Spun
<1>17. ASSUME NEW a \in Stale(k, F, aug) PROVE a \in Over(k, F, of) \cup Beneath(k, F, of)
  <2>1. a \in In(k) /\ a \in In(h) /\ a \in Node /\ aug[a] # Cardinality(F[a])
    BY <1>10, <1>16, <1>17 DEF Stale, In
  <2>2. CASE a = q
    BY <1>16, <2>1, <2>2 DEF Over
  <2>3. CASE a = g \/ a = r
    BY <1>11, <1>16, <2>1, <2>3 DEF Beneath
  <2>4. CASE a # g /\ a # q /\ a # r
    <3>1. F[a] = E[a]
      BY <1>16, <2>1, <2>4
    <3>2. a \in Stale(h, E, aug)
      BY <2>1, <3>1 DEF Stale
    <3>3. of \in F[a]
      BY <1>10, <2>4, <3>1, <3>2
    <3> QED
      BY <2>1, <3>3 DEF Over
  <2> QED
    BY <2>2, <2>3, <2>4
<1>18. op'.pc = "insert" /\ op'.of = of /\ op'.node = r
  BY <1>1, <1>2 DEF Op, of
<1>19. Black(k, k.up[r])
  BY <1>15, <1>16 DEF Black
<1>20. Fresh(k, F, aug, op')
  BY <1>6, <1>17, <1>18, <1>19 DEF Fresh, Hole
<1> QED
  BY <1>1, <1>16, <1>20 DEF AInv

\* From a child of d on, or from d if it has none, the path is the one from d.
LEMMA PathBelow ==
  ASSUME NEW h, NEW D, Shape(h, D), NEW n \in In(h), NEW x,
         Stale(h, D, x) \subseteq Over(h, D, n) \cup Beneath(h, D, n)
  PROVE  Stale(h, D, x) \subseteq Path(h, D, AugmentInsert(h, n))
<1> DEFINE d == AugmentInsert(h, n)
<1>1. n \in Node /\ "left" \in Side /\ "right" \in Side /\ n # NULL /\ \A t \in Side : t = "left" \/ t = "right"
  BY NodeAssumption DEF In, Side
<1>2. (d = n /\ \A t \in Side : h.kid[n][t] = NULL) \/ \E t \in Side : h.kid[n][t] # NULL /\ d = h.kid[n][t]
  BY <1>1 DEF AugmentInsert
<1> HIDE DEF d
<1>3. \A a \in In(h) : a \in Node /\ (h.up[a] # NULL => h.up[a] \in Node)
  BY PlaceIs
<1>4. ASSUME d = n, \A t \in Side : h.kid[n][t] = NULL
      PROVE  Stale(h, D, x) \subseteq Path(h, D, d)
  <2>1. ASSUME NEW a \in Beneath(h, D, n) PROVE h.up[a] # n
    <3>1. a \in In(h) /\ h.up[a] # NULL
      BY <2>1 DEF Beneath
    <3>2. \E t \in Side : h.kid[h.up[a]][t] = a /\ a # NULL
      BY <3>1, PlaceIs, NodeAssumption
    <3> QED
      BY <1>4, <3>2
  <2> QED
    BY <1>4, <2>1 DEF Path
<1>5. ASSUME NEW t \in Side, h.kid[n][t] # NULL, d = h.kid[n][t]
      PROVE  Stale(h, D, x) \subseteq Path(h, D, d)
  <2>1. d \in Node /\ d \in D[n] /\ d # n /\ d \in D[d]
    BY <1>1, <1>5, KidIs
  <2>2. \A a \in Node : n \in D[a] => d \in D[a]
    BY <2>1, BelowBelow
  <2>3. n \notin D[d]
    BY <1>1, <2>1, OneAbove
  <2>4. Over(h, D, n) \subseteq Over(h, D, d)
    BY <1>3, <2>2 DEF Over
  <2>5. ASSUME NEW a \in Beneath(h, D, n) PROVE a \in Beneath(h, D, d) /\ h.up[a] # d
    <3>1. a \in In(h) /\ h.up[a] # NULL /\ h.up[a] \in Node /\ n \in D[h.up[a]]
      BY <1>3, <2>5 DEF Beneath
    <3> QED
      BY <2>2, <2>3, <3>1 DEF Beneath
  <2> QED
    BY <2>4, <2>5 DEF Path
<1>6. Stale(h, D, x) \subseteq Path(h, D, d)
  BY <1>2, <1>4, <1>5
<1> QED
  BY <1>6 DEF d

LEMMA InsertDoneFresh ==
  ASSUME IInv, AInv, InsertDone
  PROVE  AInv'
<1> DEFINE r == heap.root
           h == Paint(heap, r, FALSE)
           of == op.of
           d == AugmentInsert(h, of)
<1>1. op.pc = "insert" /\ heap' = h /\ aug' = aug
      /\ op' = [Idle EXCEPT !.pc = "augment", !.of = of, !.deepest = d]
  BY DEF InsertDone
<1>2. op \in Op /\ of \in In(heap) /\ op.node \in In(heap)
  BY <1>1, InsertIs
<1>3. PICK D : Shape(heap, D)
  BY GoodShape
<1>4. Fresh(heap, D, aug, op)
  BY <1>3, AugIs
<1>5. aug \in [Node -> 0 .. Cardinality(Node)]
      /\ Stale(heap, D, aug) \subseteq Over(heap, D, of) \cup Beneath(heap, D, of)
  BY <1>1, <1>4 DEF Fresh
<1>6. Shape(h, D) /\ In(h) = In(heap) /\ h.up = heap.up
  <2>1. h.up = heap.up
    BY <1>3 DEF Paint, Shape, Heap
  <2> QED
    BY <1>3, <2>1, PaintShape
<1> HIDE DEF h, of
<1>7. Stale(h, D, aug) \subseteq Over(h, D, of) \cup Beneath(h, D, of)
  BY <1>5, <1>6 DEF Stale, Over, Beneath
<1>8. Stale(h, D, aug) \subseteq Path(h, D, d)
  BY <1>2, <1>6, <1>7, PathBelow
<1>9. d # NULL
  <2>1. of # NULL
    BY <1>2, NodeAssumption DEF In
  <2> QED
    BY <2>1 DEF AugmentInsert
<1> HIDE DEF d
<1>10. op'.pc = "augment" /\ op'.deepest = d
  BY <1>1 DEF Idle
<1>11. Fresh(h, D, aug, op')
  BY <1>5, <1>8, <1>9, <1>10 DEF Fresh, Hole
<1> QED
  BY <1>1, <1>6, <1>11 DEF AInv

\* What unlinking a node leaves stale is over the node d that
\* rb_augment_erase_begin has named, and d is at the place c below p.
Named(g, E, x, c, p, d) ==
  /\ Stale(g, E, x) \subseteq IF d = NULL THEN {} ELSE Over(g, E, d)
  /\ d \in E[c] \/ (c = NULL /\ d = p)

LEMMA UnlinkOneFresh ==
  ASSUME NEW h, NEW D, Shape(h, D), NEW n \in In(h), NEW x, NEW y, Stale(h, D, x) = {},
         \A a \in Node : a # n => y[a] = x[a],
         NEW c, OnlyChild(h, n, c), NEW g, In(g) = In(h) \ {n}
  PROVE  Named(g, CutBelow(D, n), y, c, h.up[n], AugmentErase(h, n))
<1> DEFINE E == CutBelow(D, n)
           p == h.up[n]
           d == AugmentErase(h, n)
<1>1. /\ n \in Node /\ p \in Pointer /\ p # n /\ n # NULL
      /\ \A a \in Node : a # n => E[a] = D[a] \ {n}
  <2>1. \A a \in Node : a # n => E[a] = D[a] \ {n}
    BY DEF CutBelow, Pointer
  <2> QED
    BY <2>1, PlaceIs, NodeAssumption DEF In
<1> HIDE DEF E
<1>2. ASSUME NEW a \in Stale(g, E, y)
      PROVE  a \in Node /\ a \in In(g) /\ a # n /\ n \in D[a]
  <2>1. a \in In(g) /\ a \in In(h) /\ a # n /\ a \in Node /\ y[a] # Cardinality(E[a])
    BY <1>2 DEF Stale, In
  <2>2. x[a] = Cardinality(D[a])
    BY <2>1 DEF Stale
  <2>3. n \notin D[a] => E[a] = D[a]
    BY <1>1, <2>1
  <2> QED
    BY <2>1, <2>2, <2>3
<1>3. CASE c = NULL
  <2>1. h.kid[n]["left"] = NULL /\ h.kid[n]["right"] = NULL
    BY <1>3 DEF OnlyChild, Side, Other
  <2>2. d = p
    BY <2>1 DEF AugmentErase
  <2> HIDE DEF d, p
  <2>3. ASSUME NEW a \in Stale(g, E, y) PROVE p # NULL /\ p \in E[a] /\ a \in In(g)
    <3>1. h.up[n] \in D[a] /\ h.up[n] \in Node
      BY <1>1, <1>2, <2>3, UpIs
    <3> QED
      BY <1>1, <1>2, <2>3, <3>1, NodeAssumption DEF p
  <2>4. Named(g, E, y, c, p, d)
    BY <1>3, <2>2, <2>3 DEF Named, Over
  <2> QED
    BY <2>4 DEF p, d, E
<1>4. CASE c # NULL
  <2>1. PICK t \in Side : h.kid[n][t] = c /\ h.kid[n][Other(t)] = NULL
    BY DEF OnlyChild
  <2>2. d = c
    <3>1. CASE t = "left"
      BY <1>4, <2>1, <3>1 DEF AugmentErase, Other
    <3>2. CASE t = "right"
      BY <1>4, <2>1, <3>2 DEF AugmentErase, Other
    <3> QED
      BY <3>1, <3>2 DEF Side
  <2> HIDE DEF d, p
  <2>3. c \in Node /\ c # n /\ c \in D[c] /\ c \in D[n]
    BY <1>1, <1>4, <2>1, KidIs
  <2>4. ASSUME NEW a \in Stale(g, E, y) PROVE c \in E[a] /\ a \in In(g)
    <3>1. D[n] \subseteq D[a]
      BY <1>2, <2>4, BelowBelow
    <3> QED
      BY <1>1, <1>2, <2>3, <2>4, <3>1
  <2>5. c \in E[c]
    BY <1>1, <2>3
  <2>6. Named(g, E, y, c, p, d)
    BY <1>4, <2>2, <2>4, <2>5 DEF Named, Over
  <2> QED
    BY <2>6 DEF p, d, E
<1> QED
  BY <1>3, <1>4

LEMMA UnlinkTwoFresh ==
  ASSUME NEW h, NEW D, Shape(h, D), NEW n \in In(h), NEW x, NEW y, Stale(h, D, x) = {},
         \A a \in Node : a # n => y[a] = x[a],
         \A s \in Side : h.kid[n][s] # NULL, NEW g, In(g) = In(h) \ {n}
  PROVE  LET m == Next1(h, n)
         IN Named(g, SwappedBelow(CutBelow(D, m), n, m), y, h.kid[m]["right"],
                  IF h.up[m] = n THEN m ELSE h.up[m], AugmentErase(h, n))
<1> DEFINE m == Next1(h, n)
           c == h.kid[m]["right"]
           q == h.up[m]
           p == IF q = n THEN m ELSE q
           d == AugmentErase(h, n)
           E == CutBelow(D, m)
           F == SwappedBelow(E, n, m)
<1>1. /\ m \in Node /\ m \in In(h) /\ m # n /\ m \in D[n] /\ q \in In(h) /\ RbNext(h, n) = m
  BY NextIs
<1>2. n \in Node /\ q \in Node /\ n # NULL /\ m # NULL /\ "right" \in Side /\ "left" \in Side
      /\ n \in D[n] /\ m \in D[m]
  BY <1>1, BelowIs, NodeAssumption DEF In, Side
<1>3. d = IF c # NULL THEN c ELSE IF q # n THEN q ELSE m
  <2> DEFINE e == RbNext(h, n)
  <2>1. h.kid[n]["left"] # NULL /\ h.kid[n]["right"] # NULL
    BY <1>2
  <2>2. d = IF h.kid[e]["right"] # NULL THEN h.kid[e]["right"]
            ELSE IF h.up[e] # n THEN h.up[e] ELSE e
    BY <2>1 DEF AugmentErase
  <2> HIDE DEF m, d
  <2> QED
    BY <1>1, <2>2
<1> HIDE DEF m, d
<1>4. /\ F[m] = D[n] \ {n}
      /\ \A a \in Node : a # n /\ a # m => F[a] = IF n \in D[a] THEN D[a] \ {n} ELSE D[a] \ {m}
  <2>1. \A a \in Node : a # m => E[a] = D[a] \ {m}
    BY DEF CutBelow, Pointer
  <2>2. \A a \in Node : /\ a = m => F[a] = (E[n] \ {n}) \cup {m}
                        /\ a # n /\ a # m => F[a] = IF n \in E[a] THEN (E[a] \ {n}) \cup {m} ELSE E[a]
    BY <1>1 DEF SwappedBelow, Pointer
  <2> HIDE DEF E, F
  <2>3. F[m] = D[n] \ {n}
    <3>1. F[m] = (E[n] \ {n}) \cup {m} /\ E[n] = D[n] \ {m}
      BY <1>1, <1>2, <2>1, <2>2
    <3>2. ((D[n] \ {m}) \ {n}) \cup {m} = D[n] \ {n}
      BY <1>1
    <3> QED
      BY <3>1, <3>2
  <2>4. ASSUME NEW a \in Node, a # n, a # m
        PROVE  F[a] = IF n \in D[a] THEN D[a] \ {n} ELSE D[a] \ {m}
    <3>1. n \in D[a] => m \in D[a]
      BY <1>1, <1>2, <2>4, BelowBelow
    <3>2. E[a] = D[a] \ {m} /\ F[a] = IF n \in E[a] THEN (E[a] \ {n}) \cup {m} ELSE E[a]
      BY <2>1, <2>2, <2>4
    <3>3. CASE n \in D[a]
      <4>1. ((D[a] \ {m}) \ {n}) \cup {m} = D[a] \ {n} /\ n \in D[a] \ {m}
        BY <1>1, <3>1, <3>3
      <4> QED
        BY <3>2, <3>3, <4>1
    <3>4. CASE n \notin D[a]
      BY <3>2, <3>4
    <3> QED
      BY <3>3, <3>4
  <2> QED
    BY <2>3, <2>4
<1> HIDE DEF F, E
<1>5. ASSUME NEW a \in Stale(g, F, y)
      PROVE  a \in Node /\ a \in In(g) /\ a # n /\ (a # m => m \in D[a])
  <2>1. a \in In(g) /\ a \in In(h) /\ a # n /\ a \in Node /\ y[a] # Cardinality(F[a])
    BY <1>5 DEF Stale, In
  <2>2. x[a] = Cardinality(D[a])
    BY <2>1 DEF Stale
  <2>3. a # m /\ m \notin D[a] => F[a] = D[a]
    <3>1. n \in D[a] => m \in D[a]
      BY <1>1, <2>1, BelowBelow
    <3> QED
      BY <1>4, <2>1, <3>1
  <2> QED
    BY <2>1, <2>2, <2>3
<1>6. n \notin D[m]
  BY <1>1, <1>2, OneAbove
<1>7. Named(g, F, y, c, p, d)
  <2>1. CASE c # NULL
    <3>1. c \in Node /\ c \in D[m] /\ c # m /\ c \in D[c] /\ c # n /\ c \in D[n] /\ d = c
      <4>1. c \in Node /\ c \in D[m] /\ c # m /\ c \in D[c]
        BY <1>1, <1>2, <2>1, KidIs
      <4>2. D[m] \subseteq D[n]
        BY <1>1, <1>2, BelowBelow
      <4> QED
        BY <1>3, <1>6, <2>1, <4>1, <4>2
    <3> HIDE DEF c, p, q
    <3>2. c \in F[c]
      BY <1>4, <3>1
    <3>3. ASSUME NEW a \in Stale(g, F, y) PROVE a \in In(g) /\ c \in F[a]
      <4>1. a \in Node /\ a \in In(g) /\ a # n /\ (a # m => m \in D[a])
        BY <1>5, <3>3
      <4>2. m \in D[a] => c \in D[a]
        BY <3>1, <4>1, BelowBelow
      <4> QED
        BY <1>4, <3>1, <4>1, <4>2
    <3> QED
      BY <2>1, <3>1, <3>2, <3>3 DEF Named, Over
  <2>2. CASE c = NULL /\ q # n
    <3>1. d = q /\ p = q /\ q # NULL
      BY <1>2, <1>3, <2>2, NodeAssumption
    <3>2. q \in D[n] /\ q # m
      BY <1>1, <1>2, PlaceIs, UpIs
    <3> HIDE DEF c, p
    <3>3. ASSUME NEW a \in Stale(g, F, y) PROVE a \in In(g) /\ q \in F[a]
      <4>1. a \in Node /\ a \in In(g) /\ a # n /\ (a # m => m \in D[a])
        BY <1>5, <3>3
      <4>2. a # m => q \in D[a]
        BY <1>1, <4>1, UpIs
      <4> HIDE DEF q
      <4> QED
        BY <1>4, <2>2, <3>2, <4>1, <4>2
    <3> HIDE DEF q
    <3> QED
      BY <2>2, <3>1, <3>3 DEF Named, Over
  <2>3. CASE c = NULL /\ q = n
    <3>1. d = m /\ p = m
      BY <1>3, <2>3
    <3> HIDE DEF c, p
    <3>2. ASSUME NEW a \in Stale(g, F, y) PROVE a \in In(g) /\ m \in F[a]
      <4>1. a \in Node /\ a \in In(g) /\ a # n /\ (a # m => m \in D[a])
        BY <1>5, <3>2
      <4>2. a # m => n \in D[a]
        <5> SUFFICES ASSUME a # m PROVE n \in D[a]
          OBVIOUS
        <5>1. q \in D[a]
          BY <1>1, <4>1, UpIs
        <5> QED
          BY <2>3, <5>1
      <4> QED
        BY <1>1, <1>4, <4>1, <4>2
    <3> HIDE DEF q
    <3> QED
      BY <1>2, <2>3, <3>1, <3>2 DEF Named, Over
  <2> QED
    BY <2>1, <2>2, <2>3
<1> QED
  BY <1>7 DEF m, c, q, p, d, E, F

LEMMA EraseFresh ==
  ASSUME IInv, AInv, NEW n \in Node, Erase(n)
  PROVE  AInv'
<1> DEFINE two == \A s \in Side : heap.kid[n][s] # NULL
           cut == IF two THEN UnlinkTwo(heap, n) ELSE UnlinkOne(heap, n)
           g == InitNode(cut.heap, n)
           c == cut.child
           p == cut.parent
           isRed == cut.red
           d == AugmentErase(heap, n)
           y == [aug EXCEPT ![n] = 0]
<1>1. /\ op.pc = "idle" /\ InTree(heap, n) /\ heap' = g /\ aug' = y
      /\ op' = [pc |-> IF isRed THEN "augment" ELSE "erase", of |-> n,
                node |-> c, parent |-> p, deepest |-> d]
  BY DEF Erase
<1>2. PICK D : Shape(heap, D)
  BY GoodShape
<1>3. n \in In(heap)
  BY <1>1, <1>2, InTreeIs
<1>4. Fresh(heap, D, aug, op) /\ op = Idle
  BY <1>1, <1>2, AugIs, GoodIs DEF IInv, Locals
<1>5. aug \in [Node -> 0 .. Cardinality(Node)] /\ Stale(heap, D, aug) = {}
  BY <1>1, <1>4 DEF Fresh, Idle, Hole
<1>6. y \in [Node -> 0 .. Cardinality(Node)] /\ \A a \in Node : a # n => y[a] = aug[a]
  BY <1>5, NodeAssumption, FS_CardinalityType
<1> HIDE DEF y
<1>7. \E E : Shape(g, E) /\ Named(g, E, y, c, p, d)
  <2>1. CASE two
    <3> DEFINE m == Next1(heap, n)
               one == InitNode(UnlinkOne(heap, m).heap, m)
               E == CutBelow(D, m)
    <3>1. /\ Cut1(heap, one, m, c) /\ Swapped(one, g, n, m) /\ FitsFor(one, E, n, m)
          /\ p = (IF heap.up[m] = n THEN m ELSE heap.up[m]) /\ c = heap.kid[m]["right"]
      BY <1>2, <1>3, <2>1, UnlinkTwoIs
    <3>2. m \in Node /\ m \in In(heap) /\ m # n /\ OnlyChild(heap, m, c)
      BY <1>2, <1>3, <2>1, <3>1, NextIs
    <3> HIDE DEF g, cut, one, p, c
    <3>3. Shape(one, E) /\ In(one) = In(heap) \ {m}
      <4> HIDE DEF m
      <4> QED
        BY <1>2, <3>1, <3>2, CutShape
    <3>4. n \in In(one) /\ m \in Node \ In(one)
      BY <1>3, <3>2, <3>3
    <3>5. Shape(g, SwappedBelow(E, n, m)) /\ In(g) = (In(one) \ {n}) \cup {m}
      <4> HIDE DEF m, E
      <4> QED
        BY <3>1, <3>3, <3>4, SwapShape
    <3>6. In(g) = In(heap) \ {n}
      BY <3>2, <3>3, <3>5
    <3>7. Named(g, SwappedBelow(CutBelow(D, m), n, m), y, heap.kid[m]["right"],
                IF heap.up[m] = n THEN m ELSE heap.up[m], d)
      BY <1>2, <1>3, <1>5, <1>6, <2>1, <3>6, UnlinkTwoFresh
    <3> HIDE DEF m, d
    <3>8. Named(g, SwappedBelow(E, n, m), y, c, p, d)
      BY <3>1, <3>7
    <3> QED
      BY <3>5, <3>8 DEF d, g, c, p, cut
  <2>2. CASE ~ two
    <3>1. OnlyChild(heap, n, c) /\ Cut1(heap, g, n, c) /\ p = heap.up[n]
      BY <1>2, <1>3, <2>2, UnlinkOneIs
    <3> HIDE DEF g, cut, p, c
    <3>2. Shape(g, CutBelow(D, n)) /\ In(g) = In(heap) \ {n}
      BY <1>2, <1>3, <3>1, CutShape
    <3>3. Named(g, CutBelow(D, n), y, c, heap.up[n], d)
      BY <1>2, <1>3, <1>5, <1>6, <3>1, <3>2, UnlinkOneFresh
    <3> HIDE DEF d
    <3>4. Named(g, CutBelow(D, n), y, c, p, d)
      BY <3>1, <3>3
    <3> QED
      BY <3>2, <3>4 DEF d, g, c, p, cut
  <2> QED
    BY <2>1, <2>2
<1> HIDE DEF g, c, p, d, isRed, cut
<1>8. PICK E : Shape(g, E) /\ Named(g, E, y, c, p, d)
  BY <1>7
<1>9. op'.node = c /\ op'.parent = p /\ op'.deepest = d /\ op'.pc # "insert"
  BY <1>1
<1>10. Stale(g, E, y) \subseteq IF d = NULL THEN {} ELSE Over(g, E, d)
  BY <1>8 DEF Named
<1>11. Stale(g, E, y) \subseteq Over(g, E, d)
  BY <1>10
<1>12. d \in E[c] \/ (c = NULL /\ d = p)
  BY <1>8 DEF Named
<1>13. IF d = NULL THEN Stale(g, E, y) = {} ELSE Stale(g, E, y) \subseteq Path(g, E, d)
  BY <1>10 DEF Path
<1>14. Fresh(g, E, y, op')
  BY <1>6, <1>9, <1>11, <1>12, <1>13, Zenon DEF Fresh
<1> QED
  BY <1>1, <1>8, <1>14 DEF AInv

(***************************************************************************)
(* The augmented data while a black is missing: z is the child at the      *)
(* hole below p, and the path is to start from d.                          *)
(***************************************************************************)
\* j is h in other colours.
Recoloured(h, j, D) == Shape(j, D) /\ In(j) = In(h) /\ j.kid = h.kid /\ j.up = h.up /\ j.root = h.root

LEMMA PaintSame ==
  ASSUME NEW h, NEW j, NEW D, Recoloured(h, j, D), NEW n, NEW isRed \in BOOLEAN
  PROVE  Recoloured(h, Paint(j, n, isRed), D)
<1>1. Shape(Paint(j, n, isRed), D) /\ In(Paint(j, n, isRed)) = In(j)
  BY PaintShape DEF Recoloured
<1>2. /\ Paint(j, n, isRed).root = j.root
      /\ Paint(j, n, isRed).up = j.up /\ Paint(j, n, isRed).kid = j.kid
  BY PaintSets DEF Recoloured, Shape
<1> QED
  BY <1>1, <1>2, Zenon DEF Recoloured

LEMMA SpunPainted ==
  ASSUME NEW h, NEW j, NEW D, Recoloured(h, j, D), NEW n \in Node, NEW s \in Side,
         NEW c, h.kid[n][Other(s)] = c, c # NULL
  PROVE  \E E : Spun(h, Rotate(j, n, s), D, E, n, s, c)
<1>1. Shape(j, D) /\ j.kid[n][Other(s)] = c /\ j.kid = h.kid /\ j.up = h.up
  BY DEF Recoloured
<1>2. Spun(j, Rotate(j, n, s), D, TurnedBelow(j, D, n, s), n, s, c)
  BY <1>1, SpunIs
<1>3. Spun(h, Rotate(j, n, s), D, TurnedBelow(j, D, n, s), n, s, c)
  BY <1>1, <1>2, SpunSame
<1> QED
  BY <1>3

AtHole(D, p, z, d) == d \in D[z] \/ (z = NULL /\ d = p)

LEMMA AtHoleIs ==
  ASSUME NEW h, NEW D, Shape(h, D), NEW p \in Node, NEW s \in Side, NEW z, h.kid[p][s] = z,
         NEW d, AtHole(D, p, z, d), NEW b, h.kid[p][Other(s)] = b, b # NULL
  PROVE  /\ d \in Node /\ d # NULL /\ d \in D[p] /\ d \notin D[b] /\ b \in Node /\ p # NULL
         /\ z \in Pointer /\ z # p /\ z # b /\ z \notin D[b] /\ b # p
<1>1. /\ D[p] \subseteq Node /\ p \in D[p] /\ z \in Pointer /\ D[z] \subseteq D[p] /\ D[z] \cap D[b] = {}
      /\ Other(s) \in Side
  BY BelowIs, Sides
<1>2. p \notin D[z] /\ p \notin D[b] /\ p # NULL
  BY <1>1, BelowIs, NodeAssumption
<1>3. b \in Node /\ b \in D[b] /\ b # p
  BY <1>1, KidIs
<1>4. z # NULL => z \in Node /\ z \in D[z]
  BY KidIs
<1>5. z # p /\ z # b
  BY <1>1, <1>2, <1>3, <1>4
<1>6. z \notin D[b]
  <2>1. D[b] \subseteq Node
    BY <1>3, BelowIs
  <2> QED
    BY <1>1, <1>4, <2>1, NodeAssumption
<1>7. d \in D[p] /\ d \notin D[b]
  BY <1>1, <1>2 DEF AtHole
<1> QED
  BY <1>1, <1>2, <1>3, <1>5, <1>6, <1>7, NodeAssumption

\* The stale nodes of a round: those over d, and after the near turn the
\* brother b and its child on the far side.
Lags(h, D, x, d, more) ==
  Shape(h, D) /\ \A a \in Stale(h, D, x) : d \in D[a] \/ a \in more

\* Turning a node that z is not below nor above changes nothing at the hole.
LEMMA SpunApart ==
  ASSUME NEW h, NEW g, NEW D, NEW E, NEW n, NEW s, NEW c, Spun(h, g, D, E, n, s, c),
         NEW x, NEW d, NEW m, Lags(h, D, x, d, m)
  PROVE  /\ Shape(g, E) /\ In(g) = In(h)
         /\ \A a \in Stale(g, E, x) : a # n /\ a # c => E[a] = D[a] /\ (d \in E[a] \/ a \in m)
<1>1. ASSUME NEW a \in Stale(g, E, x), a # n, a # c
      PROVE  E[a] = D[a] /\ (d \in E[a] \/ a \in m)
  <2>1. a \in In(h) /\ a \in Node /\ x[a] # Cardinality(E[a])
    BY <1>1 DEF Stale, Spun, In
  <2>2. E[a] = D[a]
    BY <1>1, <2>1 DEF Spun
  <2>3. a \in Stale(h, D, x)
    BY <2>1, <2>2 DEF Stale
  <2> QED
    BY <2>2, <2>3 DEF Lags
<1> QED
  BY <1>1 DEF Spun

\* What a turn of the parent does, for a red brother and at the end.
LEMMA ParentSpun ==
  ASSUME NEW h, NEW D, NEW j, Recoloured(h, j, D), NEW p \in Node, NEW s \in Side, NEW z, h.kid[p][s] = z,
         NEW b, h.kid[p][Other(s)] = b, b # NULL, NEW x, NEW d, NEW m, Lags(h, D, x, d, m), AtHole(D, p, z, d),
         NEW g, g = Rotate(j, p, s)
  PROVE  \E E : /\ Spun(h, g, D, E, p, s, b) /\ AtHole(E, p, z, d) /\ d \in E[b]
                /\ Lags(g, E, x, d, m \ {p, b})
<1>1. Shape(h, D)
  BY DEF Lags
<1>2. PICK E : Spun(h, g, D, E, p, s, b)
  BY SpunPainted
<1>3. /\ d \in Node /\ d \in D[p] /\ b \in Node /\ z \in Pointer /\ z # p /\ z # b
  BY <1>1, AtHoleIs
<1>4. d \in E[b] /\ d \in E[p]
  <2>1. E[b] = D[p] /\ p \in E[p] /\ D[z] \subseteq E[p]
    BY <1>2 DEF Spun
  <2> QED
    BY <1>3, <2>1 DEF AtHole
<1>5. AtHole(E, p, z, d)
  <2>1. z # NULL => E[z] = D[z]
    BY <1>2, <1>3 DEF Spun, Pointer
  <2>2. z = NULL => D[z] = {}
    BY <1>1 DEF Shape, Spread
  <2> QED
    BY <2>1, <2>2 DEF AtHole
<1>6. Lags(g, E, x, d, m \ {p, b})
  <2>1. Shape(g, E) /\ \A a \in Stale(g, E, x) : a # p /\ a # b => d \in E[a] \/ a \in m
    BY <1>2, SpunApart
  <2> QED
    BY <1>4, <2>1 DEF Lags
<1> QED
  BY <1>2, <1>4, <1>5, <1>6

\* A turn of the brother b brings up its near child y.
LEMMA NearSpun ==
  ASSUME NEW h, NEW D, NEW j, Recoloured(h, j, D), NEW p \in Node, NEW s \in Side, NEW z, h.kid[p][s] = z,
         NEW b, h.kid[p][Other(s)] = b, b # NULL, NEW y, h.kid[b][s] = y, y # NULL,
         NEW x, NEW d, Lags(h, D, x, d, {}), AtHole(D, p, z, d),
         NEW g, g = Rotate(j, b, Other(s))
  PROVE  \E E : /\ Lags(g, E, x, d, {y, b}) /\ AtHole(E, p, z, d)
                /\ g.kid[p][Other(s)] = y /\ g.kid[y][Other(s)] = b
<1>1. Shape(h, D) /\ Other(s) \in Side /\ Other(Other(s)) = s
  BY Sides DEF Lags
<1>2. /\ b \in Node /\ z \in Pointer /\ z # b /\ z \notin D[b] /\ b # p
  BY <1>1, AtHoleIs
<1>3. y \in D[b]
  BY <1>1, <1>2, KidIs
<1>4. p \notin D[b]
  BY <1>1, BelowIs
<1>5. PICK E : Spun(h, g, D, E, b, Other(s), y)
  BY <1>1, <1>2, SpunPainted
<1>6. g.kid[p][Other(s)] = y /\ g.kid[y][Other(s)] = b
  BY <1>1, <1>2, <1>3, <1>4, <1>5 DEF Spun
<1>7. AtHole(E, p, z, d)
  <2>1. z # NULL => E[z] = D[z]
    BY <1>2, <1>3, <1>5 DEF Spun, Pointer
  <2>2. z = NULL => D[z] = {}
    BY <1>1 DEF Shape, Spread
  <2> QED
    BY <2>1, <2>2 DEF AtHole
<1>8. Lags(g, E, x, d, {y, b})
  <2>1. Shape(g, E) /\ \A a \in Stale(g, E, x) : a # b /\ a # y => d \in E[a]
    BY <1>5, SpunApart
  <2> QED
    BY <2>1 DEF Lags
<1> QED
  BY <1>6, <1>7, <1>8

Waits(h, x, p, z, d) == \E D : Lags(h, D, x, d, {}) /\ AtHole(D, p, z, d)

LEMMA PaintTwice ==
  ASSUME NEW h, NEW D, Shape(h, D), NEW m, NEW n
  PROVE  Recoloured(h, Paint(Paint(h, m, FALSE), n, TRUE), D)
<1>1. Recoloured(h, h, D)
  BY DEF Recoloured
<1>2. Recoloured(h, Paint(h, m, FALSE), D)
  BY <1>1, PaintSame
<1> QED
  BY <1>2, PaintSame

LEMMA RaiseLags ==
  ASSUME NEW h, NEW p, NEW s, NEW z, Shorted(h, p, s, z), NEW x, NEW d, Waits(h, x, p, z, d)
  PROVE  LET b == h.kid[p][Other(s)]
             k == IF h.red[b] THEN Rotate(Paint(Paint(h, b, FALSE), p, TRUE), p, s) ELSE h
         IN Waits(k, x, p, z, d)
<1> DEFINE b == h.kid[p][Other(s)]
           i == Paint(Paint(h, b, FALSE), p, TRUE)
           j == Rotate(i, p, s)
           k == IF h.red[b] THEN j ELSE h
<1>1. PICK D, H : Shape(h, D) /\ Short(h, H, p, s, z)
  BY DEF Shorted
<1>2. p \in Node /\ s \in Side /\ h.kid[p][s] = z
  BY <1>1 DEF Short
<1>3. b # NULL
  BY <1>1, ShortIs
<1>4. PICK E : Lags(h, E, x, d, {}) /\ AtHole(E, p, z, d)
  BY DEF Waits
<1>5. CASE h.red[b]
  <2>1. Shape(h, E)
    BY <1>4 DEF Lags
  <2>2. Recoloured(h, i, E)
    <3> HIDE DEF b
    <3> QED
      BY <2>1, PaintTwice
  <2>3. k = j /\ j = Rotate(i, p, s)
    BY <1>5
  <2>4. h.kid[p][Other(s)] = b
    OBVIOUS
  <2> HIDE DEF i, j, b
  <2>5. \E F : Lags(j, F, x, d, {} \ {p, b}) /\ AtHole(F, p, z, d)
    BY <1>2, <1>3, <1>4, <2>2, <2>3, <2>4, ParentSpun
  <2>6. {} \ {p, b} = {}
    OBVIOUS
  <2>7. Waits(j, x, p, z, d)
    BY <2>5, <2>6 DEF Waits
  <2> HIDE DEF k
  <2>8. Waits(k, x, p, z, d)
    BY <2>3, <2>7
  <2> QED
    BY <2>8 DEF k, j, i, b
<1>6. CASE ~ h.red[b]
  BY <1>6
<1> QED
  BY <1>5, <1>6

LEMMA FarLags ==
  ASSUME NEW h, NEW p, NEW s, NEW z, Shorted(h, p, s, z), NEW x, NEW d, Waits(h, x, p, z, d),
         ~ \A t \in Side : Black(h, h.kid[h.kid[p][Other(s)]][t])
  PROVE  LET b == h.kid[p][Other(s)]
             o == Other(s)
             k == IF Black(h, h.kid[b][o])
                  THEN Rotate(Paint(Paint(h, h.kid[b][s], FALSE), b, TRUE), b, o) ELSE h
         IN \E E : Lags(k, E, x, d, {k.kid[p][o], k.kid[k.kid[p][o]][o]}) /\ AtHole(E, p, z, d)
<1> DEFINE b == h.kid[p][Other(s)]
           o == Other(s)
           y == h.kid[b][s]
           i == Paint(Paint(h, y, FALSE), b, TRUE)
           j == Rotate(i, b, o)
           k == IF Black(h, h.kid[b][o]) THEN j ELSE h
<1>1. PICK D, H : Shape(h, D) /\ Short(h, H, p, s, z)
  BY DEF Shorted
<1>2. p \in Node /\ s \in Side /\ h.kid[p][s] = z
  BY <1>1 DEF Short
<1>3. b # NULL /\ \A t \in Side : t = s \/ t = o
  BY <1>1, ShortIs
<1>4. PICK E : Lags(h, E, x, d, {}) /\ AtHole(E, p, z, d)
  BY DEF Waits
<1>5. CASE Black(h, h.kid[b][o])
  <2>1. ~ Black(h, y)
    BY <1>3, <1>5
  <2>2. y # NULL
    BY <2>1 DEF Black
  <2>3. Shape(h, E)
    BY <1>4 DEF Lags
  <2>4. Recoloured(h, i, E)
    <3> HIDE DEF b, y
    <3> QED
      BY <2>3, PaintTwice
  <2>5. k = j /\ j = Rotate(i, b, o)
    BY <1>5
  <2>6. h.kid[p][o] = b /\ h.kid[b][s] = y
    OBVIOUS
  <2> HIDE DEF i, j, b, y
  <2>7. \E F : Lags(j, F, x, d, {y, b}) /\ AtHole(F, p, z, d) /\ j.kid[p][o] = y /\ j.kid[y][o] = b
    BY <1>2, <1>3, <1>4, <2>2, <2>4, <2>5, <2>6, NearSpun
  <2> HIDE DEF o
  <2>8. \E F : Lags(j, F, x, d, {j.kid[p][o], j.kid[j.kid[p][o]][o]}) /\ AtHole(F, p, z, d)
    BY <2>7
  <2> HIDE DEF k
  <2>9. \E F : Lags(k, F, x, d, {k.kid[p][o], k.kid[k.kid[p][o]][o]}) /\ AtHole(F, p, z, d)
    BY <2>5, <2>8
  <2> QED
    BY <2>9 DEF k, j, i, b, y, o
<1>6. CASE ~ Black(h, h.kid[b][o])
  <2>1. k = h
    BY <1>6
  <2> HIDE DEF k
  <2>2. Lags(k, E, x, d, {k.kid[p][o], k.kid[k.kid[p][o]][o]})
    BY <1>4, <2>1 DEF Lags
  <2>3. \E F : Lags(k, F, x, d, {k.kid[p][o], k.kid[k.kid[p][o]][o]}) /\ AtHole(F, p, z, d)
    BY <1>4, <2>2
  <2> QED
    BY <2>3 DEF k, j, i, b, y, o
<1> QED
  BY <1>5, <1>6

LEMMA HoleWaits ==
  ASSUME IInv, AInv, op.pc = "erase", op.node # heap.root
  PROVE  Waits(heap, aug, op.parent, op.node, op.deepest)
<1>1. PICK D : Shape(heap, D)
  BY GoodShape
<1>2. Fresh(heap, D, aug, op) /\ Hole(heap, op)
  BY <1>1, AugIs DEF Hole
<1>3. Stale(heap, D, aug) \subseteq Over(heap, D, op.deepest) /\ AtHole(D, op.parent, op.node, op.deepest)
  BY <1>2 DEF Fresh, AtHole
<1>4. Lags(heap, D, aug, op.deepest, {})
  BY <1>1, <1>3 DEF Lags, Over
<1> QED
  BY <1>3, <1>4 DEF Waits

LEMMA PaintThrice ==
  ASSUME NEW h, NEW D, Shape(h, D), NEW m, NEW n \in Node, NEW r, NEW p
  PROVE  Recoloured(h, Paint(Paint(Paint(h, m, h.red[n]), p, FALSE), r, FALSE), D)
<1>1. Recoloured(h, h, D) /\ h.red[n] \in BOOLEAN
  BY HeapFields DEF Recoloured, Shape
<1>2. Recoloured(h, Paint(h, m, h.red[n]), D)
  BY <1>1, PaintSame
<1>3. Recoloured(h, Paint(Paint(h, m, h.red[n]), p, FALSE), D)
  BY <1>2, PaintSame
<1> QED
  BY <1>3, PaintSame

LEMMA LagsOver ==
  ASSUME NEW h, NEW D, NEW x, NEW d, Lags(h, D, x, d, {})
  PROVE  Shape(h, D) /\ Stale(h, D, x) \subseteq Over(h, D, d)
BY DEF Lags, Over, Stale

LEMMA EraseRoundFresh ==
  ASSUME IInv, AInv, EraseRound
  PROVE  AInv'
<1> DEFINE z == op.node
           p == op.parent
           d == op.deepest
           s == SideOf(heap, z, p)
           o == Other(s)
           b0 == heap.kid[p][o]
           h1 == IF heap.red[b0] THEN Rotate(Paint(Paint(heap, b0, FALSE), p, TRUE), p, s) ELSE heap
           b1 == h1.kid[p][o]
           h2 == IF Black(h1, h1.kid[b1][o])
                 THEN Rotate(Paint(Paint(h1, h1.kid[b1][s], FALSE), b1, TRUE), b1, o) ELSE h1
           b2 == h2.kid[p][o]
           r == h2.kid[b2][o]
           h3 == Paint(Paint(Paint(h2, b2, h2.red[p]), p, FALSE), r, FALSE)
<1>1. /\ op.pc = "erase" /\ Black(heap, z) /\ z # heap.root /\ aug' = aug
      /\ IF \A t \in Side : Black(h1, h1.kid[b1][t])
         THEN heap' = Paint(h1, b1, TRUE) /\ op' = [op EXCEPT !.node = p, !.parent = h1.up[p]]
         ELSE heap' = Rotate(h3, p, s) /\ op' = [op EXCEPT !.node = heap'.root, !.parent = p]
  BY DEF EraseRound
<1>2. Shorted(heap, p, s, z) /\ op \in Op
  BY <1>1, HoleShort
<1>3. Waits(heap, aug, p, z, d)
  BY <1>1, HoleWaits
<1>4. aug \in [Node -> 0 .. Cardinality(Node)]
  BY GoodShape, AugIs DEF Fresh
<1> HIDE DEF z, p, s, d
<1>5. Shorted(h1, p, s, z) /\ ~ h1.red[b1]
  BY <1>2, BlackBrother
<1>6. Waits(h1, aug, p, z, d)
  BY <1>2, <1>3, RaiseLags
<1> HIDE DEF h1, b0
<1>7. op'.pc = "erase" /\ op'.deepest = d /\ op'.node = IF \A t \in Side : Black(h1, h1.kid[b1][t]) THEN p ELSE heap'.root
  BY <1>1, <1>2 DEF Op, d
<1>8. CASE \A t \in Side : Black(h1, h1.kid[b1][t])
  <2> DEFINE k == Paint(h1, b1, TRUE)
  <2>1. heap' = k /\ op'.node = p
    BY <1>1, <1>7, <1>8
  <2>2. PICK D : Lags(h1, D, aug, d, {}) /\ AtHole(D, p, z, d)
    BY <1>6 DEF Waits
  <2>3. Shape(h1, D) /\ Stale(h1, D, aug) \subseteq Over(h1, D, d)
    BY <2>2, LagsOver
  <2>4. d \in D[p] /\ d # NULL
    <3>1. PICK F, G : Shape(h1, F) /\ Short(h1, G, p, s, z)
      BY <1>5 DEF Shorted
    <3>2. b1 # NULL
      BY <3>1, ShortIs
    <3>3. p \in Node /\ s \in Side /\ h1.kid[p][s] = z
      BY <3>1 DEF Short
    <3> QED
      BY <2>2, <2>3, <3>2, <3>3, AtHoleIs
  <2>5. Shape(k, D) /\ In(k) = In(h1)
    BY <2>3, PaintShape
  <2> HIDE DEF k
  <2>6. Stale(k, D, aug) \subseteq Over(k, D, d)
    BY <2>3, <2>5 DEF Stale, Over
  <2>7. Stale(k, D, aug) \subseteq Path(k, D, d)
    BY <2>6 DEF Path
  <2>8. Fresh(k, D, aug, op')
    BY <1>4, <1>7, <2>1, <2>4, <2>6, <2>7 DEF Fresh
  <2> QED
    BY <1>1, <2>1, <2>5, <2>8 DEF AInv
<1>9. CASE ~ \A t \in Side : Black(h1, h1.kid[b1][t])
  <2> DEFINE k == Rotate(h3, p, s)
  <2>1. heap' = k /\ op'.node = k.root
    BY <1>1, <1>7, <1>9
  <2>2. Shorted(h2, p, s, z) /\ ~ Black(h2, r)
    BY <1>5, <1>9, FarNephew
  <2>3. \E E : Lags(h2, E, aug, d, {b2, r}) /\ AtHole(E, p, z, d)
    BY <1>5, <1>6, <1>9, FarLags
  <2> HIDE DEF h2
  <2>4. PICK E : Lags(h2, E, aug, d, {b2, r}) /\ AtHole(E, p, z, d)
    BY <2>3
  <2>5. p \in Node /\ s \in Side /\ h2.kid[p][s] = z /\ b2 # NULL
    <3>1. PICK F, G : Shape(h2, F) /\ Short(h2, G, p, s, z)
      BY <2>2 DEF Shorted
    <3>2. b2 # NULL
      BY <3>1, ShortIs
    <3> QED
      BY <3>1, <3>2 DEF Short
  <2>6. Shape(h2, E) /\ Recoloured(h2, h3, E)
    <3>1. Shape(h2, E)
      BY <2>4 DEF Lags
    <3> QED
      BY <2>5, <3>1, PaintThrice
  <2>7. h2.kid[p][Other(s)] = b2 /\ h2.kid[b2][Other(s)] = r /\ k = Rotate(h3, p, s) /\ r # NULL
    BY <2>2 DEF Black
  <2> HIDE DEF h3, k, b2, r, o
  <2>8. \E F : /\ Spun(h2, k, E, F, p, s, b2) /\ AtHole(F, p, z, d) /\ d \in F[b2]
               /\ Lags(k, F, aug, d, {b2, r} \ {p, b2})
    <3> DEFINE m == {b2, r}
    <3>1. Lags(h2, E, aug, d, m) /\ AtHole(E, p, z, d)
      BY <2>4
    <3> HIDE DEF m
    <3>2. \E F : /\ Spun(h2, k, E, F, p, s, b2) /\ AtHole(F, p, z, d) /\ d \in F[b2]
                 /\ Lags(k, F, aug, d, m \ {p, b2})
      BY <2>5, <2>6, <2>7, <3>1, ParentSpun
    <3> QED
      BY <3>2 DEF m
  <2>9. PICK F : /\ Spun(h2, k, E, F, p, s, b2) /\ d \in F[b2]
                 /\ Lags(k, F, aug, d, {b2, r} \ {p, b2})
    BY <2>8
  <2>10. k.up[r] = b2
    BY <2>7, <2>9 DEF Spun
  <2>11. d # NULL /\ d # b2 /\ b2 # NULL
    <3>1. d # NULL /\ d \notin E[b2] /\ b2 \in Node
      BY <2>4, <2>5, <2>6, <2>7, AtHoleIs
    <3>2. b2 \in E[b2]
      BY <2>6, <3>1, BelowIs
    <3> QED
      BY <2>5, <3>1, <3>2
  <2>12. Shape(k, F) /\ \A a \in Stale(k, F, aug) : d \in F[a] \/ a = r
    BY <2>9 DEF Lags
  <2>13. Stale(k, F, aug) \subseteq Path(k, F, d)
    <3> SUFFICES ASSUME NEW a \in Stale(k, F, aug) PROVE a \in Path(k, F, d)
      OBVIOUS
    <3>1. a \in In(k) /\ (d \in F[a] \/ a = r)
      BY <2>12 DEF Stale
    <3>2. d \in F[a] => a \in Over(k, F, d)
      BY <3>1 DEF Over
    <3>3. a = r => a \in Beneath(k, F, d) /\ k.up[a] # d
      BY <2>9, <2>10, <2>11, <3>1 DEF Beneath
    <3> QED
      BY <3>1, <3>2, <3>3 DEF Path
  <2>14. op'.pc # "insert" /\ ~ Hole(k, op')
    BY <1>7, <2>1 DEF Hole
  <2>15. Fresh(k, F, aug, op')
    BY <1>4, <1>7, <2>11, <2>13, <2>14 DEF Fresh
  <2> QED
    BY <1>1, <2>1, <2>12, <2>15 DEF AInv
<1> QED
  BY <1>8, <1>9

LEMMA EraseDoneFresh ==
  ASSUME IInv, AInv, EraseDone
  PROVE  AInv'
<1> DEFINE z == op.node
           d == op.deepest
           k == IF z = NULL THEN heap ELSE Paint(heap, z, FALSE)
<1>1. op.pc = "erase" /\ heap' = k /\ op' = [op EXCEPT !.pc = "augment"] /\ aug' = aug
  BY DEF EraseDone
<1>2. op \in Op
  BY <1>1, HoleIs
<1>3. op'.pc = "augment" /\ op'.deepest = d
  BY <1>1, <1>2 DEF Op
<1>4. PICK D : Shape(heap, D)
  BY GoodShape
<1>5. Fresh(heap, D, aug, op)
  BY <1>4, AugIs
<1>6. IF d = NULL THEN Stale(heap, D, aug) = {} ELSE Stale(heap, D, aug) \subseteq Path(heap, D, d)
  <2>1. CASE Hole(heap, op)
    <3>1. Stale(heap, D, aug) \subseteq Over(heap, D, d)
      BY <1>5, <2>1 DEF Fresh
    <3>2. d = NULL => Over(heap, D, d) = {}
      BY <1>4, BelowIs, NodeAssumption DEF Over, In
    <3> QED
      BY <3>1, <3>2 DEF Path
  <2>2. CASE ~ Hole(heap, op)
    BY <1>1, <1>5, <2>2 DEF Fresh
  <2> QED
    BY <2>1, <2>2
<1>7. Shape(k, D) /\ In(k) = In(heap) /\ k.up = heap.up
  <2>1. z # NULL => Shape(k, D) /\ In(k) = In(heap)
    BY <1>4, PaintShape
  <2>2. k.up = heap.up
    BY <1>4 DEF Shape, Heap, Paint
  <2> QED
    BY <1>4, <2>1, <2>2
<1> HIDE DEF k
<1>8. Stale(k, D, aug) = Stale(heap, D, aug) /\ Path(k, D, d) = Path(heap, D, d)
  BY <1>7 DEF Stale, Path, Over, Beneath
<1>9. Fresh(k, D, aug, op')
  BY <1>3, <1>5, <1>6, <1>8 DEF Fresh, Hole
<1> QED
  BY <1>1, <1>7, <1>9 DEF AInv

(***************************************************************************)
(* The path of rb_augment_path.                                            *)
(***************************************************************************)
\* Func counts what is below a node from what is below its children.
LEMMA CountBelow ==
  ASSUME NEW h, NEW D, Shape(h, D), NEW n \in Node
  PROVE  Cardinality(D[n]) = 1 + Cardinality(D[h.kid[n]["left"]]) + Cardinality(D[h.kid[n]["right"]])
<1> DEFINE L == D[h.kid[n]["left"]]
           R == D[h.kid[n]["right"]]
<1>1. D[n] = {n} \cup L \cup R /\ n \notin L /\ n \notin R /\ L \cap R = {} /\ L \subseteq D[n] /\ R \subseteq D[n]
  BY BelowIs DEF Side, Other
<1>2. IsFiniteSet(D[n])
  BY RankIs
<1> HIDE DEF L, R
<1>3. IsFiniteSet(L) /\ IsFiniteSet(R)
  BY <1>1, <1>2, FS_Subset
<1>4. IsFiniteSet(L \cup R) /\ Cardinality(L \cup R) = Cardinality(L) + Cardinality(R)
  <2>1. IsFiniteSet(L \cup R) /\ Cardinality(L \cup R) = Cardinality(L) + Cardinality(R) - Cardinality(L \cap R)
    BY <1>3, FS_Union
  <2>2. Cardinality(L \cap R) = 0
    BY <1>1, FS_EmptySet
  <2>3. Cardinality(L) \in Nat /\ Cardinality(R) \in Nat
    BY <1>3, FS_CardinalityType
  <2> QED
    BY <2>1, <2>2, <2>3
<1>5. Cardinality((L \cup R) \cup {n}) = Cardinality(L \cup R) + 1
  BY <1>1, <1>4, FS_AddElement
<1>6. D[n] = (L \cup R) \cup {n}
  BY <1>1
<1>7. Cardinality(L) \in Nat /\ Cardinality(R) \in Nat
  BY <1>3, FS_CardinalityType
<1>8. Cardinality(D[n]) = 1 + Cardinality(L) + Cardinality(R)
  BY <1>4, <1>5, <1>6, <1>7
<1> QED
  BY <1>8 DEF L, R

LEMMA FuncSettles ==
  ASSUME NEW h, NEW D, Shape(h, D), NEW x \in [Node -> 0 .. Cardinality(Node)], NEW n \in In(h),
         \A s \in Side : h.kid[n][s] # NULL => h.kid[n][s] \notin Stale(h, D, x)
  PROVE  /\ Func(h, x, n) \in [Node -> 0 .. Cardinality(Node)]
         /\ Stale(h, D, Func(h, x, n)) = Stale(h, D, x) \ {n}
<1> DEFINE v(s) == IF h.kid[n][s] = NULL THEN 0 ELSE x[h.kid[n][s]]
<1>1. n \in Node
  BY DEF In
<1>2. ASSUME NEW s \in Side PROVE v(s) = Cardinality(D[h.kid[n][s]])
  <2>1. CASE h.kid[n][s] = NULL
    <3>1. D[h.kid[n][s]] = {}
      BY <2>1 DEF Shape, Spread
    <3> QED
      BY <2>1, <3>1, FS_EmptySet
  <2>2. CASE h.kid[n][s] # NULL
    <3>1. h.kid[n][s] \in In(h)
      BY <1>1, <2>2, KidIs
    <3> QED
      BY <2>2, <3>1 DEF Stale
  <2> QED
    BY <2>1, <2>2
<1>3. 1 + v("left") + v("right") = Cardinality(D[n])
  <2>1. v("left") = Cardinality(D[h.kid[n]["left"]]) /\ v("right") = Cardinality(D[h.kid[n]["right"]])
    BY <1>2 DEF Side
  <2> HIDE DEF v
  <2> QED
    BY <1>1, <2>1, CountBelow
<1>4. Func(h, x, n) = [x EXCEPT ![n] = Cardinality(D[n])]
  <2>1. Func(h, x, n) = [x EXCEPT ![n] = 1 + v("left") + v("right")]
    BY DEF Func
  <2> HIDE DEF v
  <2> QED
    BY <1>3, <2>1
<1>5. Cardinality(D[n]) \in 0 .. Cardinality(Node)
  BY <1>1, RankIs
<1>6. /\ Func(h, x, n) \in [Node -> 0 .. Cardinality(Node)]
      /\ \A a \in Node : Func(h, x, n)[a] = IF a = n THEN Cardinality(D[n]) ELSE x[a]
  BY <1>4, <1>5
<1>7. Stale(h, D, Func(h, x, n)) = Stale(h, D, x) \ {n}
  BY <1>1, <1>6 DEF Stale, In
<1> QED
  BY <1>6, <1>7

\* What is below the node the path is at, or below its brother, is not on it.
LEMMA BelowPath ==
  ASSUME NEW h, NEW D, Shape(h, D), NEW n \in In(h), NEW p \in Node, NEW u \in Side, h.kid[p][u] = n,
         NEW t \in Side, NEW m, h.kid[p][t] = m, m # NULL, NEW s \in Side, h.kid[m][s] # NULL
  PROVE  h.kid[m][s] \notin Path(h, D, n)
<1> DEFINE c == h.kid[m][s]
<1>1. n \in Node /\ m \in Node /\ n \in D[n] /\ n # NULL
  BY KidIs, BelowIs, NodeAssumption DEF In
<1>2. c \in Node /\ h.up[c] = m /\ D[c] \subseteq D[m] /\ m \notin D[c]
  BY <1>1, KidIs, BelowIs
<1>3. m # n => n \notin D[m]
  <2> SUFFICES ASSUME m # n PROVE n \notin D[m]
    OBVIOUS
  <2>1. t = Other(u)
    BY Sides
  <2>2. D[h.kid[p][u]] \cap D[h.kid[p][Other(u)]] = {}
    BY BelowIs
  <2> QED
    BY <1>1, <2>1, <2>2
<1> HIDE DEF c
<1>4. c \notin Path(h, D, n)
  BY <1>1, <1>2, <1>3 DEF Path, Over, Beneath
<1> QED
  BY <1>4 DEF c

\* One func on the path: nothing new becomes stale.
LEMMA FuncOnPath ==
  ASSUME NEW h, NEW D, Shape(h, D), NEW n \in In(h), NEW p \in Node, NEW u \in Side, h.kid[p][u] = n,
         NEW t \in Side, NEW m, h.kid[p][t] = m, m # NULL,
         NEW x \in [Node -> 0 .. Cardinality(Node)], Stale(h, D, x) \subseteq Path(h, D, n)
  PROVE  /\ Func(h, x, m) \in [Node -> 0 .. Cardinality(Node)]
         /\ Stale(h, D, Func(h, x, m)) = Stale(h, D, x) \ {m}
<1>1. m \in In(h)
  BY KidIs
<1>2. \A s \in Side : h.kid[m][s] # NULL => h.kid[m][s] \notin Stale(h, D, x)
  BY BelowPath
<1> QED
  BY <1>1, <1>2, FuncSettles

LEMMA PathFresh ==
  ASSUME IInv, AInv, AugmentRound
  PROVE  AInv'
<1> DEFINE n == op.deepest
           p == heap.up[n]
           l == heap.kid[p]["left"]
           r == heap.kid[p]["right"]
           y == Func(heap, aug, n)
           X == [Node -> 0 .. Cardinality(Node)]
<1>1. /\ op.pc = "augment" /\ n # NULL /\ p # NULL /\ heap' = heap /\ op' = [op EXCEPT !.deepest = p]
      /\ aug' = IF n = l /\ r # NULL THEN Func(heap, y, r) ELSE IF l # NULL THEN Func(heap, y, l) ELSE y
  BY DEF AugmentRound
<1>2. Good(heap, op) /\ ~ Hole(heap, op)
  BY <1>1 DEF IInv, Hole
<1>3. op \in Op /\ n \in In(heap)
  BY <1>1, <1>2, GoodIs DEF Locals
<1>4. PICK D : Shape(heap, D)
  BY GoodShape
<1>5. aug \in X /\ Stale(heap, D, aug) \subseteq Path(heap, D, n)
  BY <1>1, <1>2, <1>4, AugIs DEF Fresh
<1>6. op'.pc = "augment" /\ op'.deepest = p
  BY <1>1, <1>3 DEF Op
<1>7. p \in Node /\ n \in Node /\ SideOf(heap, n, p) \in Side /\ heap.kid[p][SideOf(heap, n, p)] = n
  BY <1>1, <1>3, <1>4, PlaceIs
<1> HIDE DEF n, p
<1>8. "left" \in Side /\ "right" \in Side /\ (n = l \/ n = r) /\ \A t \in Side : t = "left" \/ t = "right"
  BY <1>7 DEF Side, l, r
<1> HIDE DEF X
<1>9. y \in X /\ Stale(heap, D, y) = Stale(heap, D, aug) \ {n}
  BY <1>1, <1>3, <1>4, <1>5, <1>7, FuncOnPath DEF X
<1>10. Stale(heap, D, y) \subseteq Path(heap, D, n)
  BY <1>5, <1>9
<1> HIDE DEF y
<1>11. r # NULL => Func(heap, y, r) \in X /\ Stale(heap, D, Func(heap, y, r)) = Stale(heap, D, y) \ {r}
  BY <1>3, <1>4, <1>7, <1>8, <1>9, <1>10, FuncOnPath DEF X
<1>12. l # NULL => Func(heap, y, l) \in X /\ Stale(heap, D, Func(heap, y, l)) = Stale(heap, D, y) \ {l}
  BY <1>3, <1>4, <1>7, <1>8, <1>9, <1>10, FuncOnPath DEF X
<1> DEFINE kids == {heap.kid[p][t] : t \in Side}
<1>13. kids = {l, r}
  BY <1>8
<1> HIDE DEF l, r, kids
<1>14. aug' \in X /\ Stale(heap, D, aug') \subseteq Stale(heap, D, aug) \ {l, r}
  <2>1. NULL \notin Stale(heap, D, aug)
    BY NodeAssumption DEF Stale, In
  <2>2. CASE n = l /\ r # NULL
    BY <1>1, <1>9, <1>11, <2>2
  <2>3. CASE ~ (n = l /\ r # NULL) /\ l # NULL
    BY <1>1, <1>8, <1>9, <1>12, <2>1, <2>3
  <2>4. CASE l = NULL
    BY <1>1, <1>8, <1>9, <2>1, <2>4
  <2> QED
    BY <2>2, <2>3, <2>4
<1>15. Stale(heap, D, aug') \subseteq Path(heap, D, p)
  <2> SUFFICES ASSUME NEW a \in Stale(heap, D, aug') PROVE a \in Path(heap, D, p)
    OBVIOUS
  <2>1. a \in In(heap) /\ a \in Node /\ a \in Path(heap, D, n) /\ a # l /\ a # r /\ a # n
    BY <1>5, <1>8, <1>14 DEF Stale, In
  <2>2. CASE n \in D[a]
    <3>1. p \in D[a]
      BY <1>4, <2>1, <2>2, UpIs DEF p
    <3> QED
      BY <2>1, <3>1 DEF Path, Over
  <2>3. CASE n \notin D[a]
    <3>1. heap.up[a] # NULL /\ n \in D[heap.up[a]] /\ heap.up[a] # n
      BY <2>1, <2>3 DEF Path, Over, Beneath
    <3>2. heap.up[a] \in Node /\ SideOf(heap, a, heap.up[a]) \in Side
          /\ heap.kid[heap.up[a]][SideOf(heap, a, heap.up[a])] = a
      BY <1>4, <2>1, <3>1, PlaceIs
    <3>3. p \in D[heap.up[a]]
      BY <1>4, <3>1, <3>2, UpIs DEF p
    <3>4. heap.up[a] # p
      BY <1>13, <2>1, <3>2 DEF kids
    <3> QED
      BY <2>1, <3>1, <3>3, <3>4 DEF Path, Beneath
  <2> QED
    BY <2>2, <2>3
<1>16. Fresh(heap, D, aug', op')
  BY <1>1, <1>6, <1>14, <1>15 DEF Fresh, Hole, X
<1> QED
  BY <1>1, <1>4, <1>16 DEF AInv

LEMMA PathDoneFresh ==
  ASSUME IInv, AInv, AugmentDone
  PROVE  AInv'
<1> DEFINE n == op.deepest
<1>1. /\ op.pc = "augment" /\ (n # NULL => heap.up[n] = NULL) /\ heap' = heap /\ op' = Idle
      /\ aug' = IF n = NULL THEN aug ELSE Func(heap, aug, n)
  BY DEF AugmentDone
<1>2. Good(heap, op) /\ ~ Hole(heap, op)
  BY <1>1 DEF IInv, Hole
<1>3. n # NULL => n \in In(heap)
  BY <1>1, <1>2, GoodIs DEF Locals
<1>4. PICK D : Shape(heap, D)
  BY GoodShape
<1>5. /\ aug \in [Node -> 0 .. Cardinality(Node)]
      /\ IF n = NULL THEN Stale(heap, D, aug) = {} ELSE Stale(heap, D, aug) \subseteq Path(heap, D, n)
  BY <1>1, <1>2, <1>4, AugIs DEF Fresh
<1> HIDE DEF n
<1>6. aug' \in [Node -> 0 .. Cardinality(Node)] /\ Stale(heap, D, aug') = {}
  <2>1. CASE n = NULL
    BY <1>1, <1>5, <2>1
  <2>2. CASE n # NULL
    <3>1. n \in Node /\ n \in In(heap) /\ n = heap.root /\ \A a \in In(heap) : a \in Node /\ a \in D[n]
      <4>1. n \in Node /\ n \in In(heap) /\ n = heap.root
        BY <1>1, <1>3, <1>4, <2>2, PlaceIs
      <4> QED
        BY <1>4, <4>1 DEF Shape, In
    <3>2. Stale(heap, D, aug) \subseteq {n}
      <4> SUFFICES ASSUME NEW a \in Stale(heap, D, aug), a # n PROVE FALSE
        OBVIOUS
      <4>1. a \in In(heap) /\ a \in Path(heap, D, n)
        BY <1>5, <2>2 DEF Stale
      <4>2. n \notin D[a]
        BY <1>4, <3>1, <4>1, OneAbove
      <4>3. heap.up[a] # NULL /\ n \in D[heap.up[a]] /\ heap.up[a] # n
        BY <4>1, <4>2 DEF Path, Over, Beneath
      <4>4. heap.up[a] \in In(heap)
        BY <1>4, <4>1, <4>3, PlaceIs
      <4> QED
        BY <1>4, <3>1, <4>3, <4>4, OneAbove
    <3>3. \A s \in Side : heap.kid[n][s] # NULL => heap.kid[n][s] \notin Stale(heap, D, aug)
      BY <1>4, <3>1, <3>2, KidIs
    <3>4. /\ Func(heap, aug, n) \in [Node -> 0 .. Cardinality(Node)]
          /\ Stale(heap, D, Func(heap, aug, n)) = Stale(heap, D, aug) \ {n}
      BY <1>4, <1>5, <3>1, <3>3, FuncSettles
    <3> QED
      BY <1>1, <2>2, <3>2, <3>4
  <2> QED
    BY <2>1, <2>2
<1>7. Fresh(heap, D, aug', op')
  BY <1>1, <1>6 DEF Fresh, Hole, Idle
<1> QED
  BY <1>1, <1>4, <1>7 DEF AInv

LEMMA SwapCount ==
  ASSUME NEW S, IsFiniteSet(S), NEW m \in S, NEW n, n \notin S
  PROVE  Cardinality((S \ {m}) \cup {n}) = Cardinality(S)
<1>1. IsFiniteSet(S \ {m}) /\ Cardinality(S \ {m}) = Cardinality(S) - 1
  BY FS_RemoveElement
<1>2. Cardinality((S \ {m}) \cup {n}) = Cardinality(S \ {m}) + 1
  BY <1>1, FS_AddElement
<1>3. Cardinality(S) \in Nat
  BY FS_CardinalityType
<1> QED
  BY <1>1, <1>2, <1>3

LEMMA ReplaceFresh ==
  ASSUME IInv, AInv, NEW m \in Node, NEW n \in Node, Replace(m, n)
  PROVE  AInv'
<1> DEFINE h1 == Redirect(heap, m, heap.up[m], n)
           h2 == UpIf(UpIf(h1, heap.kid[m]["left"], n), heap.kid[m]["right"], n)
           g == InitNode([h2 EXCEPT !.up[n] = heap.up[m], !.red[n] = heap.red[m], !.kid[n] = h2.kid[m]], m)
           y == [aug EXCEPT ![n] = aug[m], ![m] = 0]
<1>1. op.pc = "idle" /\ m # n /\ key[m] = key[n] /\ heap' = g /\ op' = op /\ aug' = y
  BY DEF Replace
<1>2. PICK D : Shape(heap, D)
  BY GoodShape
<1>3. op = Idle /\ Fresh(heap, D, aug, op)
  BY <1>1, <1>2, GoodIs, AugIs DEF IInv, Locals
<1>4. m \in In(heap) /\ n \in Node \ In(heap)
  BY ReplaceGood
<1>5. Swapped(heap, g, m, n) /\ FitsFor(heap, D, m, n)
  BY <1>1, <1>2, <1>4, ReplaceIs
<1> HIDE DEF g
<1> DEFINE E == SwappedBelow(D, m, n)
<1>6. Shape(g, E) /\ In(g) = (In(heap) \ {m}) \cup {n}
  BY <1>2, <1>4, <1>5, SwapShape
<1>7. aug \in [Node -> 0 .. Cardinality(Node)] /\ Stale(heap, D, aug) = {}
  BY <1>1, <1>3 DEF Fresh, Hole, Idle
<1>8. y \in [Node -> 0 .. Cardinality(Node)]
      /\ \A a \in Node : y[a] = IF a = m THEN 0 ELSE IF a = n THEN aug[m] ELSE aug[a]
  BY <1>1, <1>7, NodeAssumption, FS_CardinalityType
<1>9. \A a \in Node : E[a] = IF a = m THEN {m} ELSE IF a = n THEN (D[m] \ {m}) \cup {n}
                             ELSE IF m \in D[a] THEN (D[a] \ {m}) \cup {n} ELSE D[a]
  BY DEF SwappedBelow, Pointer
<1> HIDE DEF E, y
<1>10. ASSUME NEW a \in In(g) PROVE y[a] = Cardinality(E[a])
  <2>1. a \in Node /\ a # m /\ (a # n => a \in In(heap))
    BY <1>1, <1>6 DEF In
  <2>2. ASSUME NEW b \in In(heap) PROVE aug[b] = Cardinality(D[b]) /\ IsFiniteSet(D[b]) /\ n \notin D[b]
    <3>1. b \in Node /\ D[b] \subseteq In(heap)
      BY <1>2, <2>2, InIs DEF In
    <3> QED
      BY <1>2, <1>4, <1>7, <2>2, <3>1, RankIs DEF Stale
  <2>3. CASE a = n
    <3>1. m \in D[m]
      BY <1>2, BelowIs
    <3>2. Cardinality((D[m] \ {m}) \cup {n}) = Cardinality(D[m])
      BY <1>4, <2>2, <3>1, SwapCount
    <3> QED
      BY <1>1, <1>4, <1>8, <1>9, <2>1, <2>2, <2>3, <3>2
  <2>4. CASE a # n /\ m \in D[a]
    <3>1. Cardinality((D[a] \ {m}) \cup {n}) = Cardinality(D[a])
      BY <2>1, <2>2, <2>4, SwapCount
    <3> QED
      BY <1>8, <1>9, <2>1, <2>2, <2>4, <3>1
  <2>5. CASE a # n /\ m \notin D[a]
    BY <1>8, <1>9, <2>1, <2>2, <2>5
  <2> QED
    BY <2>3, <2>4, <2>5
<1>11. Stale(g, E, y) = {}
  BY <1>10 DEF Stale
<1>12. Fresh(g, E, y, op')
  BY <1>1, <1>3, <1>8, <1>11 DEF Fresh, Hole, Idle
<1> QED
  BY <1>1, <1>6, <1>12 DEF AInv

LEMMA NextFresh ==
  ASSUME IInv, AInv, [Next]_vars
  PROVE  AInv'
<1>1. ASSUME NEW n \in Node, Insert(n) PROVE AInv'
  BY <1>1, InsertFresh
<1>2. ASSUME NEW n \in Node, Erase(n) PROVE AInv'
  BY <1>2, EraseFresh
<1>3. ASSUME NEW m \in Node, NEW n \in Node, Replace(m, n) PROVE AInv'
  BY <1>3, ReplaceFresh
<1>4. CASE InsertRecolour
  BY <1>4, RecolourFresh
<1>5. CASE InsertRotate
  BY <1>5, RotateFresh
<1>6. CASE InsertDone
  BY <1>6, InsertDoneFresh
<1>7. CASE EraseRound
  BY <1>7, EraseRoundFresh
<1>8. CASE EraseDone
  BY <1>8, EraseDoneFresh
<1>9. CASE AugmentRound
  BY <1>9, PathFresh
<1>10. CASE AugmentDone
  BY <1>10, PathDoneFresh
<1>11. CASE UNCHANGED vars
  BY <1>11 DEF vars, AInv
<1> QED
  BY <1>1, <1>2, <1>3, <1>4, <1>5, <1>6, <1>7, <1>8, <1>9, <1>10, <1>11 DEF Next, Step

LEMMA AlwaysFresh == Spec => []AInv
<1>1. Init => AInv
  BY StartFresh
<1>2. IInv /\ AInv /\ [Next]_vars => AInv'
  BY NextFresh
<1> QED
  BY <1>1, <1>2, AlwaysGood, PTL DEF Spec

LEMMA AugmentFollows ==
  ASSUME IInv, AInv
  PROVE  AugmentRight
<1>1. PICK D : Shape(heap, D)
  BY GoodShape
<1>2. SUFFICES ASSUME op.pc = "idle" PROVE \A n \in Members(heap) : aug[n] = Cardinality(Under(heap, n))
  BY DEF AugmentRight
<1>3. Good(heap, op)
  BY DEF IInv
<1>4. op = Idle
  BY <1>2, <1>3, GoodIs DEF Locals
<1>5. Fresh(heap, D, aug, op)
  BY <1>1, AugIs
<1>6. Stale(heap, D, aug) = {}
  BY <1>2, <1>4, <1>5 DEF Fresh, Hole, Idle
<1> SUFFICES ASSUME NEW n \in Members(heap) PROVE aug[n] = Cardinality(Under(heap, n))
  OBVIOUS
<1>7. n \in In(heap) /\ n \in Pointer
  BY <1>1, MembersIs DEF In, Pointer
<1>8. Under(heap, n) = D[n]
  BY <1>1, <1>7, UnderIs
<1> QED
  BY <1>6, <1>7, <1>8 DEF Stale

\* Between calls every augmented value is what func would compute: what the
\* rotations, the unlinking and the relinking of a successor leave stale lies
\* on the path that rb_augment_path still has to go from the deepest node, or
\* beside it.
THEOREM AugmentHolds == Spec => []AugmentRight
<1>1. IInv /\ AInv => AugmentRight
  BY AugmentFollows
<1> QED
  BY <1>1, AlwaysGood, AlwaysFresh, PTL

LEMMA TypeFollows ==
  ASSUME IInv, AInv
  PROVE  TypeOK
<1>1. PICK D : Shape(heap, D)
  BY GoodShape
<1>2. Fresh(heap, D, aug, op)
  BY <1>1, AugIs
<1>3. Good(heap, op)
  BY DEF IInv
<1>4. op \in Op
  BY <1>3, GoodIs DEF Locals
<1>5. heap \in Heap
  BY <1>1 DEF Shape
<1> QED
  BY <1>2, <1>4, <1>5 DEF TypeOK, Fresh

\* The heap, the augmented values and the locals hold what they may: no
\* augmented value ever counts more nodes than there are.
THEOREM TypeCorrect == Spec => []TypeOK
<1>1. IInv /\ AInv => TypeOK
  BY TypeFollows
<1> QED
  BY <1>1, AlwaysGood, AlwaysFresh, PTL

(***************************************************************************)
(* Every call ends: how far the loops still have to go.                    *)
(***************************************************************************)
\* The recursive definition of the height counts one more at each node than
\* at its parent, and never more nodes than there are.
LEMMA HeightUp ==
  ASSUME NEW h, NEW D, Shape(h, D), NEW n \in In(h)
  PROVE  /\ Height(h, n) \in 1 .. Cardinality(Node)
         /\ Height(h, n) = 1 + Height(h, h.up[n])
         /\ h.up[n] # NULL => Height(h, h.up[n]) \in 1 .. Cardinality(Node)
         /\ Height(h, NULL) = 0
<1> DEFINE P(f) == f = [m \in Node |-> IF h.up[m] = NULL \/ h.up[m] = m THEN 1 ELSE 1 + f[h.up[m]]]
           top(m) == h.up[m] = NULL \/ h.up[m] = m
           G == [m \in Node |-> [f \in [Node -> Nat] |-> IF top(m) THEN 1 ELSE 1 + f[h.up[m]]]]
           N == Cardinality(Node)
           rank == [m \in Node |-> N - Cardinality(D[m])]
<1>1. \A m \in Node : h.up[m] \in Pointer /\ (~ top(m) => h.up[m] \in Node)
  BY HeapFields DEF Shape, Pointer
<1>2. \A m \in Node : ~ top(m) => Cardinality(D[m]) < Cardinality(D[h.up[m]])
  <2> SUFFICES ASSUME NEW m \in Node, ~ top(m) PROVE Cardinality(D[m]) < Cardinality(D[h.up[m]])
    OBVIOUS
  <2>1. m \in In(h) /\ m # NULL
    BY NodeAssumption DEF In
  <2>2. h.up[m] \in Node /\ SideOf(h, m, h.up[m]) \in Side /\ h.kid[h.up[m]][SideOf(h, m, h.up[m])] = m
    BY <2>1, PlaceIs
  <2> QED
    BY <2>1, <2>2, RankIs
<1>3. N \in Nat /\ \A m \in Node : Cardinality(D[m]) \in 1 .. N
  BY RankIs
<1>4. \E f \in [Node -> Nat] : \A m \in Node : f[m] = G[m][f]
  <2>1. rank \in [Node -> 0 .. N]
    <3> HIDE DEF N
    <3> QED
      BY <1>3
  <2>2. G \in [Node -> [[Node -> Nat] -> Nat]]
    BY <1>1
  <2>3. \A m \in Node : \A f, g \in [Node -> Nat] :
          (\A y \in Node : rank[y] < rank[m] => f[y] = g[y]) => G[m][f] = G[m][g]
    <3> SUFFICES ASSUME NEW m \in Node, NEW f \in [Node -> Nat], NEW g \in [Node -> Nat],
                        \A y \in Node : rank[y] < rank[m] => f[y] = g[y]
                 PROVE  G[m][f] = G[m][g]
      BY Zenon
    <3>1. ~ top(m) => rank[h.up[m]] < rank[m]
      <4> SUFFICES ASSUME ~ top(m) PROVE rank[h.up[m]] < rank[m]
        OBVIOUS
      <4> DEFINE p == h.up[m]
      <4>1. p \in Node /\ Cardinality(D[m]) < Cardinality(D[p])
        BY <1>1, <1>2
      <4>2. N \in Nat /\ Cardinality(D[m]) \in 1 .. N /\ Cardinality(D[p]) \in 1 .. N
        BY <1>3, <4>1
      <4> HIDE DEF N, p
      <4>3. rank[p] < rank[m]
        BY <4>1, <4>2
      <4> QED
        BY <4>3 DEF p
    <3> QED
      BY <1>1, <3>1
  <2> HIDE DEF G, rank, N
  <2>4. Local(Node, Nat, N, rank, G)
    BY <1>3, <2>1, <2>2, <2>3, Zenon DEF Local
  <2>5. 0 \in Nat
    OBVIOUS
  <2>6. Solvable(Node, Nat, G)
    BY <2>4, <2>5, Recursion
  <2> QED
    BY <2>6 DEF Solvable
<1>5. \E f : P(f)
  <2>1. PICK f \in [Node -> Nat] : \A m \in Node : f[m] = G[m][f]
    BY <1>4
  <2>2. f = [m \in Node |-> f[m]]
    OBVIOUS
  <2>3. \A m \in Node : f[m] = IF h.up[m] = NULL \/ h.up[m] = m THEN 1 ELSE 1 + f[h.up[m]]
    BY <2>1
  <2>4. P(f)
    BY <2>2, <2>3
  <2> QED
    BY <2>4
<1> DEFINE F == CHOOSE f : P(f)
<1>6. P(F)
  <2> HIDE DEF P
  <2> QED
    BY <1>5
<1>7. \A m : Height(h, m) = IF m = NULL THEN 0 ELSE F[m]
  BY DEF Height
<1> HIDE DEF F
<1>8. \A m \in Node : F[m] = IF top(m) THEN 1 ELSE 1 + F[h.up[m]]
  BY <1>6
<1> DEFINE X == {m \in Node : F[m] \in Nat /\ F[m] + Cardinality(D[m]) <= 1 + N /\ F[m] >= 1}
<1>9. ASSUME NEW m \in In(h), h.up[m] = NULL \/ h.up[m] \in X
      PROVE  m \in X
  <2> HIDE DEF N
  <2>1. m \in Node /\ h.up[m] # m
    BY PlaceIs
  <2>2. CASE h.up[m] = NULL
    BY <1>3, <1>8, <2>1, <2>2
  <2>3. CASE h.up[m] # NULL
    <3> DEFINE p == h.up[m]
    <3>1. p \in Node /\ p \in X /\ F[m] = 1 + F[p] /\ Cardinality(D[m]) < Cardinality(D[p])
      BY <1>1, <1>2, <1>8, <1>9, <2>1, <2>3
    <3> HIDE DEF p
    <3> QED
      BY <1>3, <2>1, <3>1
  <2> QED
    BY <2>2, <2>3
<1>10. \A m \in In(h) : F[m] \in 1 .. N
  <2>1. In(h) \subseteq X
    <3> HIDE DEF X
    <3>1. X \in SUBSET Node
      BY DEF X
    <3> QED
      BY <1>9, <3>1, FromAbove
  <2> HIDE DEF N
  <2> QED
    BY <1>3, <2>1
<1>11. n \in Node /\ n # NULL /\ h.up[n] # n /\ (h.up[n] # NULL => h.up[n] \in In(h))
  BY PlaceIs, NodeAssumption
<1> HIDE DEF N, X, P, G, rank
<1>12. Height(h, n) = F[n] /\ Height(h, NULL) = 0 /\ (h.up[n] # NULL => Height(h, h.up[n]) = F[h.up[n]])
  BY <1>7, <1>11
<1>13. F[n] \in 1 .. N /\ (h.up[n] # NULL => F[h.up[n]] \in 1 .. N)
  BY <1>10, <1>11
<1>14. F[n] = IF h.up[n] = NULL THEN 1 ELSE 1 + F[h.up[n]]
  BY <1>8, <1>11
<1>15. Height(h, n) = 1 + Height(h, h.up[n])
  BY <1>12, <1>14
<1> QED
  BY <1>12, <1>13, <1>15 DEF N

\* The height depends on the way up only.
LEMMA HeightUps ==
  ASSUME NEW h, NEW g, g.up = h.up, NEW n
  PROVE  Height(g, n) = Height(h, n)
BY DEF Height

\* What changes at and below n does not change the height of the others.
LEMMA HeightSame ==
  ASSUME NEW h, NEW D, Shape(h, D), NEW g, NEW E, Shape(g, E), NEW n \in Node,
         \A a \in Node \ D[n] : g.up[a] = h.up[a],
         NEW m \in In(h), m \notin D[n]
  PROVE  Height(g, m) = Height(h, m)
<1> DEFINE X == {a \in Node : a \notin D[n] => Height(g, a) = Height(h, a)}
<1>1. ASSUME NEW a \in In(h), h.up[a] = NULL \/ h.up[a] \in X
      PROVE  a \in X
  <2>1. a \in Node /\ h.up[a] # a
    BY PlaceIs
  <2> SUFFICES ASSUME a \notin D[n] PROVE Height(g, a) = Height(h, a)
    BY <2>1
  <2>2. g.up[a] = h.up[a] /\ a \in In(g)
    BY <2>1 DEF In
  <2>3. Height(g, a) = 1 + Height(g, h.up[a]) /\ Height(h, a) = 1 + Height(h, h.up[a])
        /\ Height(h, NULL) = 0 /\ Height(g, NULL) = 0
    BY <2>2, HeightUp
  <2>4. CASE h.up[a] = NULL
    BY <2>3, <2>4
  <2>5. CASE h.up[a] # NULL
    <3>1. /\ h.up[a] \in Node /\ SideOf(h, a, h.up[a]) \in Side /\ a # NULL
          /\ h.kid[h.up[a]][SideOf(h, a, h.up[a])] = a
      BY <2>5, PlaceIs, NodeAssumption
    <3>2. a \in D[h.up[a]]
      BY <3>1, KidIs
    <3>3. h.up[a] \notin D[n]
      BY <3>2, BelowBelow
    <3> QED
      BY <1>1, <2>3, <2>5, <3>3
  <2> QED
    BY <2>4, <2>5
<1>2. In(h) \subseteq X
  <2> HIDE DEF X
  <2>1. X \in SUBSET Node
    BY DEF X
  <2> QED
    BY <1>1, <2>1, FromAbove
<1> QED
  BY <1>2

LEMMA LeftIs ==
  ASSUME NEW h, NEW o
  PROVE  LET N == Cardinality(Node)
         IN /\ o.pc = "idle" => Left(h, o) = 0
            /\ o.pc = "insert" => Left(h, o) = (1 + N) + 1 + Height(h, o.node)
            /\ o.pc = "erase" /\ (~ Black(h, o.node) \/ o.node = h.root) => Left(h, o) = (1 + N) + 1 + 0
            /\ o.pc = "erase" /\ ~ (~ Black(h, o.node) \/ o.node = h.root)
                 => Left(h, o) = (1 + N) + 1 + Height(h, o.parent)
            /\ o.pc = "augment" => Left(h, o) = 1 + Height(h, o.deepest)
BY DEF Left

\* A rotation of n, with c in its place, changes no parent outside what is
\* below n, but that of c, which is that n had.
Lifted(h, g, D, n, c) ==
  /\ g.up[c] = h.up[n] /\ g.up[n] = c
  /\ \A a \in Node \ D[n] : g.up[a] = h.up[a]

LEMMA LiftedIs ==
  ASSUME NEW h, NEW D, NEW j, Recoloured(h, j, D), NEW n \in Node, NEW s \in Side,
         NEW c, h.kid[n][Other(s)] = c, c # NULL
  PROVE  Lifted(h, Rotate(j, n, s), D, n, c)
<1> DEFINE g == Rotate(j, n, s)
           x == h.kid[c][s]
           l == h.kid[n][s]
           r == h.kid[c][Other(s)]
<1>1. Shape(j, D) /\ j.kid = h.kid /\ j.up = h.up /\ j.kid[n][Other(s)] = c
  BY DEF Recoloured
<1>2. Turned(j, g, n, s)
  BY <1>1, RotateIs
<1>3. Pivot(j, D, n, s, c, x, l, r)
  BY <1>1, PivotIs
<1> HIDE DEF g, x, l, r
<1>4. c \in Node /\ n # c /\ D[n] = {n} \cup D[l] \cup D[c] /\ D[c] = {c} \cup D[x] \cup D[r]
  BY <1>3 DEF Pivot
<1>5. x # NULL => x \in D[x]
  BY <1>1, <1>4, KidIs DEF x
<1>6. \A a \in Node : g.up[a] = IF a = n THEN c ELSE IF a = c THEN h.up[n] ELSE IF a = x THEN n ELSE h.up[a]
  BY <1>1, <1>2 DEF Turned, x
<1>7. \A a \in Node \ D[n] : a # n /\ a # c /\ a # x
  BY <1>4, <1>5, NodeAssumption
<1>8. Lifted(h, g, D, n, c)
  BY <1>4, <1>6, <1>7 DEF Lifted
<1> QED
  BY <1>8 DEF g

LEMMA RecolourEnds ==
  ASSUME IInv, InsertRecolour
  PROVE  Left(heap', op') < Left(heap, op)
<1> DEFINE n == op.node
           p == heap.up[n]
           g == heap.up[p]
           s == SideOf(heap, p, g)
           u == heap.kid[g][Other(s)]
           k == Paint(Paint(Paint(heap, u, FALSE), p, FALSE), g, TRUE)
           N == Cardinality(Node)
<1>1. /\ op.pc = "insert" /\ ~ Black(heap, p) /\ heap' = k /\ op' = [op EXCEPT !.node = g]
  BY DEF InsertRecolour
<1>2. op \in Op /\ n \in In(heap) /\ heap.red[n]
  BY <1>1, InsertIs
<1>3. PICK D, H : Shape(heap, D) /\ Balanced(heap, H, NULL, "left") /\ Apart(heap, n, FALSE)
  BY <1>1, InsertIs
<1>4. Clash(heap, n, p, g, s)
  BY <1>1, <1>2, <1>3, Grandparent
<1>5. p \in In(heap) /\ g \in In(heap) /\ heap.up[n] = p /\ heap.up[p] = g
  BY <1>4 DEF Clash
<1>6. k.up = heap.up
  BY <1>3 DEF Paint, Shape, Heap
<1> HIDE DEF n, p, g, s, k, u
<1>7. Height(k, g) = Height(heap, g)
  BY <1>6, HeightUps
<1>8. /\ Height(heap, n) = 1 + Height(heap, p) /\ Height(heap, p) = 1 + Height(heap, g)
      /\ Height(heap, g) \in 1 .. N
  BY <1>2, <1>3, <1>5, HeightUp
<1>9. N \in Nat
  BY NodeAssumption, FS_CardinalityType
<1>10. op'.pc = "insert" /\ op'.node = g
  BY <1>1, <1>2 DEF Op
<1>11. Left(k, op') = (1 + N) + 1 + Height(k, g) /\ Left(heap, op) = (1 + N) + 1 + Height(heap, n)
  BY <1>1, <1>10, LeftIs DEF n
<1> HIDE DEF N
<1> QED
  BY <1>1, <1>7, <1>8, <1>9, <1>11

LEMMA RotateEnds ==
  ASSUME IInv, InsertRotate
  PROVE  Left(heap', op') < Left(heap, op)
<1> DEFINE n == op.node
           p == heap.up[n]
           g == heap.up[p]
           s == SideOf(heap, p, g)
           inner == heap.kid[p][Other(s)] = n
           h == IF inner THEN Rotate(heap, p, s) ELSE heap
           q == IF inner THEN n ELSE p
           r == IF inner THEN p ELSE n
           j == Paint(Paint(h, q, FALSE), g, TRUE)
           k == Rotate(j, g, Other(s))
           N == Cardinality(Node)
<1>1. op.pc = "insert" /\ ~ Black(heap, p) /\ heap' = k /\ op' = [op EXCEPT !.node = r]
  BY DEF InsertRotate
<1>2. op \in Op /\ n \in In(heap) /\ heap.red[n]
  BY <1>1, InsertIs
<1>3. PICK D, H : Shape(heap, D) /\ Balanced(heap, H, NULL, "left") /\ Apart(heap, n, FALSE)
  BY <1>1, InsertIs
<1>4. Clash(heap, n, p, g, s)
  BY <1>1, <1>2, <1>3, Grandparent
<1> HIDE DEF n, p, g, s
<1>5. /\ n \in Node /\ p \in Node /\ g \in Node /\ s \in Side /\ Other(s) \in Side /\ Other(Other(s)) = s
      /\ (\A t \in Side : t = s \/ t = Other(s)) /\ n # NULL /\ p # NULL
      /\ n \in In(heap) /\ p \in In(heap) /\ g \in In(heap) /\ p # n /\ g # p /\ g # n
      /\ heap.up[n] = p /\ heap.up[p] = g
      /\ heap.kid[g][s] = p /\ \E t \in Side : heap.kid[p][t] = n
  BY <1>4, Sides, NodeAssumption DEF Clash
<1>6. D[p] \subseteq D[g] /\ g \notin D[p] /\ g \in D[g]
  BY <1>3, <1>5, BelowIs
<1>7. \E E : /\ Shape(h, E) /\ Clash(h, r, q, g, s) /\ h.kid[q][s] = r /\ E[g] = D[g]
             /\ \A a \in Node \ D[p] : h.up[a] = heap.up[a]
  <2>1. CASE inner
    <3> DEFINE i == Rotate(heap, p, s)
               E == TurnedBelow(heap, D, p, s)
    <3>1. heap.kid[p][Other(s)] = n
      BY <2>1
    <3>2. i = Rotate(heap, p, s)
      OBVIOUS
    <3>3. Recoloured(heap, heap, D)
      BY <1>3 DEF Recoloured
    <3>4. Lifted(heap, i, D, p, n)
      BY <1>5, <3>1, <3>3, LiftedIs
    <3> HIDE DEF i
    <3>5. Clash(i, p, n, g, s) /\ i.kid[n][s] = p
      <4>1. InnerKept(heap, i, D, H, "left", n, p, g, s)
        BY <1>3, <1>4, <3>1, <3>2, InnerTurn
      <4> QED
        BY <4>1 DEF InnerKept
    <3>6. Spun(heap, i, D, E, p, s, n)
      BY <1>3, <1>5, <3>1, <3>2, SpunIs
    <3> HIDE DEF E
    <3>7. Shape(i, E) /\ E[g] = D[g]
      BY <1>5, <3>6 DEF Spun
    <3>8. h = i /\ r = p /\ q = n
      BY <2>1 DEF i
    <3> HIDE DEF h, r, q
    <3> QED
      BY <3>4, <3>5, <3>7, <3>8 DEF Lifted
  <2>2. CASE ~ inner
    <3>1. h = heap /\ r = n /\ q = p
      BY <2>2
    <3>2. heap.kid[p][s] = n
      BY <1>5, <2>2
    <3> HIDE DEF h, r, q, inner
    <3> QED
      BY <1>3, <1>4, <3>1, <3>2
  <2> QED
    BY <2>1, <2>2
<1>8. PICK E : /\ Shape(h, E) /\ Clash(h, r, q, g, s) /\ h.kid[q][s] = r /\ E[g] = D[g]
               /\ \A a \in Node \ D[p] : h.up[a] = heap.up[a]
  BY <1>7
<1> HIDE DEF h, r, q, inner
<1>9. q \in Node /\ r \in Node /\ r # NULL /\ q # NULL /\ h.kid[g][s] = q /\ h.up[g] = heap.up[g]
      /\ q # r /\ q # g /\ r # g /\ r \in In(h) /\ q \in In(h)
  BY <1>5, <1>6, <1>8, NodeAssumption DEF Clash
<1>10. Recoloured(h, j, E)
  <2>1. Shape(h, E)
    BY <1>8
  <2> QED
    BY <2>1, PaintTwice
<1>11. h.kid[g][Other(Other(s))] = q
  BY <1>5, <1>9
<1> HIDE DEF j
<1>12. Lifted(h, k, E, g, q)
  BY <1>5, <1>9, <1>10, <1>11, LiftedIs
<1>13. \E F : Spun(h, k, E, F, g, Other(s), q)
  BY <1>5, <1>9, <1>10, <1>11, SpunPainted
<1> HIDE DEF k
<1>14. PICK F : Spun(h, k, E, F, g, Other(s), q)
  BY <1>13
<1>15. k.up[r] = q /\ k.up[q] = heap.up[g] /\ Shape(k, F) /\ In(k) = In(h)
  BY <1>5, <1>8, <1>9, <1>12, <1>14 DEF Spun, Lifted
<1>16. \A a \in Node \ D[g] : k.up[a] = heap.up[a]
  BY <1>6, <1>8, <1>12 DEF Lifted
<1> DEFINE u == heap.up[g]
<1>17. Height(k, u) = Height(heap, u)
  <2>1. CASE u = NULL
    <3>1. Height(k, NULL) = 0 /\ Height(heap, NULL) = 0
      BY <1>3, <1>5, <1>9, <1>15, HeightUp
    <3> QED
      BY <2>1, <3>1
  <2>2. CASE u # NULL
    <3>1. u \in In(heap) /\ u \in Node /\ heap.kid[u][SideOf(heap, g, u)] = g /\ SideOf(heap, g, u) \in Side /\ g # NULL
      BY <1>3, <1>5, <2>2, PlaceIs, NodeAssumption
    <3>2. u # g /\ g \in D[u]
      BY <1>3, <3>1, KidIs
    <3>3. u \notin D[g]
      BY <1>3, <1>5, <3>1, <3>2, OneAbove
    <3> HIDE DEF u
    <3> QED
      BY <1>3, <1>5, <1>15, <1>16, <3>1, <3>3, HeightSame
  <2> QED
    BY <2>1, <2>2
<1>18. /\ Height(heap, n) = 1 + Height(heap, p) /\ Height(heap, p) = 1 + Height(heap, g)
       /\ Height(heap, g) = 1 + Height(heap, u) /\ Height(heap, g) \in 1 .. N
       /\ (u # NULL => Height(heap, u) \in 1 .. N) /\ Height(heap, NULL) = 0
  BY <1>3, <1>5, HeightUp
<1>19. Height(k, r) = 1 + Height(k, q) /\ Height(k, q) = 1 + Height(k, u) /\ Height(k, q) \in 1 .. N
  <2>1. r \in In(k) /\ q \in In(k)
    BY <1>9, <1>15
  <2> QED
    BY <1>15, <2>1, HeightUp
<1>20. N \in Nat
  BY NodeAssumption, FS_CardinalityType
<1>21. op'.pc = "insert" /\ op'.node = r
  BY <1>1, <1>2 DEF Op
<1>22. Left(k, op') = (1 + N) + 1 + Height(k, r) /\ Left(heap, op) = (1 + N) + 1 + Height(heap, n)
  BY <1>1, <1>21, LeftIs DEF n
<1> HIDE DEF N, u
<1>23. Height(heap, u) \in Int
  <2>1. CASE u = NULL
    BY <1>18, <2>1
  <2>2. CASE u # NULL
    BY <1>18, <1>20, <2>2
  <2> QED
    BY <2>1, <2>2
<1> QED
  BY <1>1, <1>17, <1>18, <1>19, <1>20, <1>22, <1>23

\* What is left for the path is at most the height of the tree.
LEMMA PathLeft ==
  ASSUME NEW h, NEW o, Good(h, o), o.pc = "augment"
  PROVE  Left(h, o) \in 1 .. 1 + Cardinality(Node)
<1> DEFINE N == Cardinality(Node)
           d == o.deepest
<1>1. PICK D : Shape(h, D)
  BY GoodIs
<1>2. d # NULL => d \in In(h)
  BY GoodIs DEF Locals
<1>3. Left(h, o) = 1 + Height(h, d)
  BY LeftIs
<1>4. N \in Nat
  BY NodeAssumption, FS_CardinalityType
<1> HIDE DEF d, N
<1>5. Height(h, d) \in 0 .. N
  <2>1. CASE d = NULL
    BY <1>4, <2>1 DEF Height
  <2>2. CASE d # NULL
    <3>1. Height(h, d) \in 1 .. N
      BY <1>1, <1>2, <2>2, HeightUp DEF N
    <3> QED
      BY <1>4, <3>1
  <2> QED
    BY <2>1, <2>2
<1>6. Left(h, o) \in 1 .. 1 + N
  BY <1>3, <1>4, <1>5
<1> QED
  BY <1>6 DEF N

LEMMA InsertDoneEnds ==
  ASSUME IInv, InsertDone
  PROVE  Left(heap', op') < Left(heap, op)
<1> DEFINE N == Cardinality(Node)
<1>1. op.pc = "insert" /\ op'.pc = "augment"
  BY DEF InsertDone, Idle
<1>2. Good(heap', op')
  BY InsertDoneGood DEF IInv
<1>3. op.node \in In(heap) /\ \E D : Shape(heap, D)
  BY <1>1, InsertIs
<1>4. Height(heap, op.node) \in 1 .. N
  BY <1>3, HeightUp
<1>5. Left(heap, op) = (1 + N) + 1 + Height(heap, op.node)
  BY <1>1, LeftIs
<1>6. Left(heap', op') \in 1 .. 1 + N
  BY <1>1, <1>2, PathLeft
<1>7. N \in Nat
  BY NodeAssumption, FS_CardinalityType
<1> HIDE DEF N
<1> QED
  BY <1>4, <1>5, <1>6, <1>7

LEMMA EraseDoneEnds ==
  ASSUME IInv, EraseDone
  PROVE  Left(heap', op') < Left(heap, op)
<1> DEFINE N == Cardinality(Node)
<1>1. op.pc = "erase" /\ (~ Black(heap, op.node) \/ op.node = heap.root)
  BY DEF EraseDone
<1>2. op'.pc = "augment"
  BY <1>1, HoleIs DEF EraseDone, Op
<1>3. Good(heap', op')
  BY EraseDoneGood DEF IInv
<1>4. Left(heap, op) = (1 + N) + 1 + 0
  BY <1>1, LeftIs
<1>5. Left(heap', op') \in 1 .. 1 + N
  BY <1>2, <1>3, PathLeft
<1>6. N \in Nat
  BY NodeAssumption, FS_CardinalityType
<1> HIDE DEF N
<1> QED
  BY <1>4, <1>5, <1>6

LEMMA PathEnds ==
  ASSUME IInv, AugmentRound
  PROVE  Left(heap', op') < Left(heap, op)
<1> DEFINE n == op.deepest
           p == heap.up[n]
           N == Cardinality(Node)
<1>1. op.pc = "augment" /\ n # NULL /\ p # NULL /\ heap' = heap /\ op' = [op EXCEPT !.deepest = p]
  BY DEF AugmentRound
<1>2. Good(heap, op)
  BY DEF IInv
<1>3. op \in Op /\ n \in In(heap)
  BY <1>1, <1>2, GoodIs DEF Locals
<1>4. PICK D : Shape(heap, D)
  BY GoodShape
<1>5. op'.pc = "augment" /\ op'.deepest = p
  BY <1>1, <1>3 DEF Op
<1>6. Left(heap, op) = 1 + Height(heap, n) /\ Left(heap, op') = 1 + Height(heap, p)
  BY <1>1, <1>5, LeftIs
<1>7. Height(heap, n) = 1 + Height(heap, p) /\ Height(heap, p) \in 1 .. N
  BY <1>1, <1>3, <1>4, HeightUp
<1>8. N \in Nat
  BY NodeAssumption, FS_CardinalityType
<1> HIDE DEF n, p, N
<1> QED
  BY <1>1, <1>6, <1>7, <1>8

LEMMA PathDoneEnds ==
  ASSUME IInv, AugmentDone
  PROVE  Left(heap', op') < Left(heap, op)
<1> DEFINE N == Cardinality(Node)
<1>1. op.pc = "augment" /\ op'.pc = "idle"
  BY DEF AugmentDone, Idle
<1>2. Left(heap, op) \in 1 .. 1 + N
  BY <1>1, PathLeft DEF IInv
<1>3. Left(heap', op') = 0
  BY <1>1, LeftIs
<1>4. N \in Nat
  BY NodeAssumption, FS_CardinalityType
<1> HIDE DEF N
<1> QED
  BY <1>2, <1>3, <1>4

LEMMA EraseRoundEnds ==
  ASSUME IInv, EraseRound
  PROVE  Left(heap', op') < Left(heap, op)
<1> DEFINE z == op.node
           p == op.parent
           s == SideOf(heap, z, p)
           o == Other(s)
           b0 == heap.kid[p][o]
           i == Paint(Paint(heap, b0, FALSE), p, TRUE)
           h1 == IF heap.red[b0] THEN Rotate(i, p, s) ELSE heap
           b1 == h1.kid[p][o]
           k == Paint(h1, b1, TRUE)
           N == Cardinality(Node)
<1>1. /\ op.pc = "erase" /\ Black(heap, z) /\ z # heap.root
      /\ \/ heap' = k /\ op' = [op EXCEPT !.node = p, !.parent = h1.up[p]]
         \/ op' = [op EXCEPT !.node = heap'.root, !.parent = p]
  BY Zenon DEF EraseRound
<1>2. Shorted(heap, p, s, z) /\ op \in Op
  BY <1>1, HoleShort
<1> HIDE DEF z, p, s
<1>3. PICK D, H : Shape(heap, D) /\ Short(heap, H, p, s, z)
  BY <1>2 DEF Shorted
<1>4. p \in Node /\ p \in In(heap) /\ s \in Side
  BY <1>3 DEF Short
<1>5. Height(heap, p) \in 1 .. N /\ Height(heap, p) = 1 + Height(heap, heap.up[p])
  BY <1>3, <1>4, HeightUp
<1>6. N \in Nat
  BY NodeAssumption, FS_CardinalityType
<1>7. Left(heap, op) = (1 + N) + 1 + Height(heap, p)
  <2>1. ~ (~ Black(heap, op.node) \/ op.node = heap.root)
    BY <1>1 DEF z
  <2> QED
    BY <1>1, <2>1, LeftIs DEF p
<1>8. op'.pc = "erase"
  BY <1>1, <1>2 DEF Op
<1>9. CASE op' = [op EXCEPT !.node = heap'.root, !.parent = p]
  <2>1. op'.node = heap'.root
    BY <1>2, <1>9 DEF Op
  <2>2. Left(heap', op') = (1 + N) + 1 + 0
    BY <1>8, <2>1, LeftIs
  <2> HIDE DEF N
  <2> QED
    BY <1>5, <1>6, <1>7, <2>2
<1>10. CASE heap' = k /\ op' = [op EXCEPT !.node = p, !.parent = h1.up[p]]
  <2>1. op'.node = p /\ op'.parent = h1.up[p]
    BY <1>2, <1>10 DEF Op
  <2>2. CASE heap.red[b0]
    <3>1. b0 # NULL
      BY <1>3, ShortIs
    <3>2. heap.kid[p][Other(s)] = b0
      OBVIOUS
    <3> HIDE DEF b0
    <3>3. Recoloured(heap, i, D)
      BY <1>3, PaintTwice
    <3>4. i.red[p] = TRUE
      <4>1. Paint(heap, b0, FALSE) \in Heap
        BY <1>3, PaintSets DEF Shape
      <4> QED
        BY <1>4, <4>1 DEF Paint, Heap
    <3>5. h1 = Rotate(i, p, s)
      BY <2>2
    <3> HIDE DEF i, h1
    <3>6. Shape(i, D) /\ i.kid[p][Other(s)] = b0
      BY <3>2, <3>3 DEF Recoloured
    <3>7. h1.red = i.red /\ \E E : Shape(h1, E)
      <4>1. /\ Spun(i, h1, D, TurnedBelow(i, D, p, s), p, s, b0)
            /\ h1.red = i.red
        BY <1>4, <3>1, <3>5, <3>6, SpunIs
      <4> QED
        BY <4>1 DEF Spun
    <3>8. k.red[p] = TRUE
      BY <1>4, <3>4, <3>7 DEF Paint, Shape, Heap
    <3>9. ~ Black(heap', op'.node)
      BY <1>4, <1>10, <2>1, <3>8, NodeAssumption DEF Black
    <3>10. Left(heap', op') = (1 + N) + 1 + 0
      BY <1>8, <3>9, LeftIs
    <3> HIDE DEF N
    <3> QED
      BY <1>5, <1>6, <1>7, <3>10
  <2>3. CASE ~ heap.red[b0]
    <3>1. h1 = heap
      BY <2>3
    <3>2. k.up = heap.up
      BY <1>3, <3>1 DEF Paint, Shape, Heap
    <3> HIDE DEF h1, k
    <3>3. Height(k, heap.up[p]) = Height(heap, heap.up[p])
      BY <3>2, HeightUps
    <3>4. op'.parent = heap.up[p] /\ heap' = k
      BY <1>10, <2>1, <3>1
    <3>5. Left(heap', op') = (1 + N) + 1 + 0 \/ Left(heap', op') = (1 + N) + 1 + Height(k, heap.up[p])
      <4>1. CASE ~ Black(heap', op'.node) \/ op'.node = heap'.root
        BY <1>8, <4>1, LeftIs
      <4>2. CASE ~ (~ Black(heap', op'.node) \/ op'.node = heap'.root)
        BY <1>8, <3>4, <4>2, LeftIs
      <4> QED
        BY <4>1, <4>2
    <3> HIDE DEF N
    <3>6. Height(heap, heap.up[p]) \in Int
      <4>1. CASE heap.up[p] = NULL
        BY <4>1 DEF Height
      <4>2. CASE heap.up[p] # NULL
        <5>1. Height(heap, heap.up[p]) \in 1 .. N
          BY <1>3, <1>4, <4>2, HeightUp DEF N
        <5> QED
          BY <1>6, <5>1
      <4> QED
        BY <4>1, <4>2
    <3> QED
      BY <1>5, <1>6, <1>7, <3>3, <3>5, <3>6
  <2> QED
    BY <2>2, <2>3
<1> QED
  BY <1>1, <1>9, <1>10

LEMMA LeftNat ==
  ASSUME NEW h, NEW o, Good(h, o)
  PROVE  Left(h, o) \in Nat
<1> DEFINE N == Cardinality(Node)
<1>1. N \in Nat
  BY NodeAssumption, FS_CardinalityType
<1>2. PICK D : Shape(h, D)
  BY GoodIs
<1>3. Locals(h, o)
  BY GoodIs
<1>4. o.pc \in {"idle", "insert", "erase", "augment"}
  BY <1>3 DEF Locals, Op
<1>5. ASSUME NEW n \in In(h) PROVE Height(h, n) \in Nat
  <2>1. Height(h, n) \in 1 .. N
    BY <1>2, HeightUp
  <2> HIDE DEF N
  <2> QED
    BY <1>1, <2>1
<1>6. CASE o.pc = "idle"
  BY <1>6, LeftIs
<1>7. CASE o.pc = "insert"
  <2>1. Height(h, o.node) \in Nat
    BY <1>3, <1>5, <1>7 DEF Locals
  <2>2. Left(h, o) = (1 + N) + 1 + Height(h, o.node)
    BY <1>7, LeftIs
  <2> HIDE DEF N
  <2> QED
    BY <1>1, <2>1, <2>2
<1>8. CASE o.pc = "erase" /\ (~ Black(h, o.node) \/ o.node = h.root)
  <2>1. Left(h, o) = (1 + N) + 1 + 0
    BY <1>8, LeftIs
  <2> HIDE DEF N
  <2> QED
    BY <1>1, <2>1
<1>9. CASE o.pc = "erase" /\ ~ (~ Black(h, o.node) \/ o.node = h.root)
  <2>1. Height(h, o.parent) \in Nat
    BY <1>3, <1>5, <1>9 DEF Locals, Hole
  <2>2. Left(h, o) = (1 + N) + 1 + Height(h, o.parent)
    BY <1>9, LeftIs
  <2> HIDE DEF N
  <2> QED
    BY <1>1, <2>1, <2>2
<1>10. CASE o.pc = "augment"
  <2>1. Left(h, o) \in 1 .. 1 + N
    BY <1>10, PathLeft
  <2> HIDE DEF N
  <2> QED
    BY <1>1, <2>1
<1> QED
  BY <1>4, <1>6, <1>7, <1>8, <1>9, <1>10

LEMMA StepEnds ==
  ASSUME IInv, [Next]_vars
  PROVE  [op.pc # "idle" => Left(heap', op') \in 0 .. Left(heap, op) - 1]_vars
<1>1. ASSUME NEW n \in Node, Insert(n) PROVE op.pc = "idle"
  BY <1>1 DEF Insert
<1>2. ASSUME NEW n \in Node, Erase(n) PROVE op.pc = "idle"
  BY <1>2 DEF Erase
<1>3. ASSUME NEW m \in Node, NEW n \in Node, Replace(m, n) PROVE op.pc = "idle"
  BY <1>3 DEF Replace
<1>4. ASSUME Step PROVE Left(heap', op') \in 0 .. Left(heap, op) - 1
  <2>1. Left(heap', op') < Left(heap, op)
    BY <1>4, RecolourEnds, RotateEnds, InsertDoneEnds, EraseRoundEnds, EraseDoneEnds, PathEnds, PathDoneEnds DEF Step
  <2>2. Good(heap, op) /\ Good(heap', op')
    BY NextGood DEF IInv
  <2>3. Left(heap, op) \in Nat /\ Left(heap', op') \in Nat
    BY <2>2, LeftNat
  <2> QED
    BY <2>1, <2>3
<1> QED
  BY <1>1, <1>2, <1>3, <1>4, Zenon DEF Next

\* Every round of a call brings it nearer to its end: what is left is a
\* natural number that a round makes smaller, so no loop of the tree runs more
\* often than the tree is high.
THEOREM CallsAlwaysEnd == Spec => CallsEnd
<1>1. IInv /\ [Next]_vars => [op.pc # "idle" => Left(heap', op') \in 0 .. Left(heap, op) - 1]_vars
  BY StepEnds
<1> QED
  BY <1>1, AlwaysGood, PTL DEF Spec, CallsEnd
=============================================================================
