--------------------------- MODULE BmapRootProofs ---------------------------
(***************************************************************************)
(* The root of the block map for every number of keys, size of block and   *)
(* place of the attribute fork.  A root is made of a sequence of keys and  *)
(* one of pointers; what the operations do to the buffer is shown to be    *)
(* what they mean to do to these, and that keeps the leaves in order.      *)
(***************************************************************************)
EXTENDS BmapRoot, SequenceLemmas

(***************************************************************************)
(* Sorted sequences of keys.                                               *)
(***************************************************************************)
Sorted(s) == \A i, j \in 1 .. Len(s) : i < j => s[i] < s[j]
Keys == Seq(Key)

LEMMA KeysAreNat == \A k \in Key : k \in Nat
BY SizeAssumption

\* Where a key is or belongs: those before are less, those from there on are not.
LEMMA Placed ==
  ASSUME NEW s \in Keys, Sorted(s), NEW k \in Nat
  PROVE  /\ PlaceOf(s, k) \in 1 .. Len(s) + 1
         /\ \A j \in 1 .. Len(s) : s[j] < k <=> j < PlaceOf(s, k)
<1> DEFINE A == {i \in DOMAIN s : s[i] < k}
<1>1. DOMAIN s = 1 .. Len(s) /\ Len(s) \in Nat /\ \A j \in 1 .. Len(s) : s[j] \in Nat
  BY KeysAreNat DEF Keys
<1>2. A \in SUBSET (1 .. Len(s))
  BY <1>1
<1>3. \A i \in 1 .. Len(s), j \in A : i < j => i \in A
  BY <1>1 DEF Sorted
<1>4. \A j \in 1 .. Len(s) : j \in A <=> s[j] < k
  BY <1>1
<1>5. PlaceOf(s, k) = 1 + Cardinality(A)
  BY DEF PlaceOf
<1> HIDE DEF A
<1>6. Cardinality(A) \in 0 .. Len(s) /\ A = 1 .. Cardinality(A)
  BY <1>1, <1>2, <1>3, Beginning
<1>7. \A j \in 1 .. Len(s) : s[j] < k <=> j \in 1 .. Cardinality(A)
  BY <1>4, <1>6
<1> QED
  BY <1>1, <1>5, <1>6, <1>7

LEMMA RangeOf ==
  ASSUME NEW s \in Keys
  PROVE  /\ \A x : x \in Range(s) <=> \E j \in 1 .. Len(s) : x = s[j]
         /\ \A j \in 1 .. Len(s) : s[j] \in Range(s) /\ s[j] \in Key /\ s[j] \in Nat
         /\ \A x \in Range(s) : x \in Key /\ x \in Nat
         /\ Len(s) \in Nat /\ DOMAIN s = 1 .. Len(s) /\ (s # << >> => Len(s) > 0)
BY KeysAreNat DEF Keys, Range

LEMMA BeginsWithKey == ASSUME NEW s \in Keys, s # << >> PROVE s[1] \in Key /\ s[1] \in Range(s)
<1>1. Len(s) > 0 /\ Len(s) \in Nat /\ \A j \in 1 .. Len(s) : s[j] \in Key /\ s[j] \in Range(s)
  BY RangeOf
<1> QED
  BY <1>1

\* A key that is not there enters.
LEMMA SortedInsert ==
  ASSUME NEW s \in Keys, Sorted(s), NEW k \in Key, k \notin Range(s)
  PROVE  LET t == InsertAt(s, PlaceOf(s, k), k) IN
         /\ t \in Keys /\ Sorted(t) /\ Len(t) = Len(s) + 1 /\ Range(t) = Range(s) \cup {k}
         /\ \A x \in Range(s) : x < k => t[1] = s[1]
<1> DEFINE p == PlaceOf(s, k)
           t == InsertAt(s, p, k)
<1>1. Len(s) \in Nat /\ k \in Nat /\ \A j \in 1 .. Len(s) : s[j] \in Nat /\ s[j] # k
  BY KeysAreNat, RangeOf
<1>2. p \in 1 .. Len(s) + 1 /\ \A j \in 1 .. Len(s) : s[j] < k <=> j < p
  BY <1>1, Placed
<1> HIDE DEF p
<1>3. /\ t \in Keys /\ Len(t) = Len(s) + 1
      /\ \A j \in 1 .. Len(s) + 1 : t[j] = IF j < p THEN s[j] ELSE IF j = p THEN k ELSE s[j - 1]
  BY <1>2, Inserted DEF Keys
<1> HIDE DEF t
<1>4. Sorted(t)
  <2> SUFFICES ASSUME NEW i \in 1 .. Len(s) + 1, NEW j \in 1 .. Len(s) + 1, i < j
               PROVE  t[i] < t[j]
    BY <1>3 DEF Sorted
  <2>1. CASE j < p
    BY <2>1, <1>1, <1>2, <1>3 DEF Sorted
  <2>2. CASE j = p
    BY <2>2, <1>1, <1>2, <1>3
  <2>3. CASE j > p /\ i = p
    <3>1. j - 1 \in 1 .. Len(s) /\ ~ (s[j - 1] < k) /\ t[j] = s[j - 1] /\ t[i] = k
      BY <2>3, <1>1, <1>2, <1>3
    <3> QED
      BY <3>1, <1>1
  <2>4. CASE j > p /\ i < p
    <3>1. j - 1 \in 1 .. Len(s) /\ i \in 1 .. Len(s) /\ ~ (s[j - 1] < k) /\ s[i] < k /\ t[j] = s[j - 1] /\ t[i] = s[i]
      BY <2>4, <1>1, <1>2, <1>3
    <3> QED
      BY <3>1, <1>1
  <2>5. CASE j > p /\ i > p
    <3>1. j - 1 \in 1 .. Len(s) /\ i - 1 \in 1 .. Len(s) /\ i - 1 < j - 1 /\ t[j] = s[j - 1] /\ t[i] = s[i - 1]
      BY <2>5, <1>1, <1>2, <1>3
    <3> QED
      BY <3>1 DEF Sorted
  <2> QED
    BY <1>2, <2>1, <2>2, <2>3, <2>4, <2>5
<1>5. Range(t) = Range(s) \cup {k}
  <2>1. ASSUME NEW x \in Range(t) PROVE x \in Range(s) \cup {k}
    <3>1. PICK j \in 1 .. Len(s) + 1 : x = t[j]
      BY <1>3, <2>1, RangeOf
    <3>2. CASE j < p
      BY <1>1, <1>2, <1>3, <3>1, <3>2, RangeOf
    <3>3. CASE j > p
      <4>1. j - 1 \in 1 .. Len(s) /\ x = s[j - 1]
        BY <1>1, <1>2, <1>3, <3>1, <3>3
      <4> QED
        BY <4>1, RangeOf
    <3> QED
      BY <1>2, <1>3, <3>1, <3>2, <3>3
  <2>2. k \in Range(t)
    <3>1. t[p] = k /\ p \in 1 .. Len(t)
      BY <1>1, <1>2, <1>3
    <3> QED
      BY <3>1, <1>3, RangeOf
  <2>3. ASSUME NEW x \in Range(s) PROVE x \in Range(t)
    <3>1. PICK j \in 1 .. Len(s) : x = s[j]
      BY <2>3, RangeOf
    <3>2. (j < p /\ t[j] = x /\ j \in 1 .. Len(t)) \/ (t[j + 1] = x /\ j + 1 \in 1 .. Len(t))
      BY <1>1, <1>2, <1>3, <3>1
    <3> QED
      BY <3>2, <1>3, RangeOf
  <2> QED
    BY <2>1, <2>2, <2>3
<1>6. ASSUME NEW x \in Range(s), x < k PROVE t[1] = s[1]
  <2>1. PICK j \in 1 .. Len(s) : x = s[j]
    BY <1>6, RangeOf
  <2>2. 1 < p
    BY <1>2, <1>6, <2>1
  <2> QED
    BY <1>1, <1>2, <1>3, <2>2
<1> QED
  BY <1>3, <1>4, <1>5, <1>6 DEF t, p

\* One that is there leaves.
LEMMA SortedRemove ==
  ASSUME NEW s \in Keys, Sorted(s), NEW k \in Range(s)
  PROVE  LET p == PlaceOf(s, k)
             t == RemoveAt(s, p)
         IN /\ p \in 1 .. Len(s) /\ s[p] = k
            /\ t \in Keys /\ Sorted(t) /\ Len(t) = Len(s) - 1 /\ Range(t) = Range(s) \ {k}
            /\ \A x \in Range(s) : x < k => t[1] = s[1] /\ t # << >>
<1> DEFINE p == PlaceOf(s, k)
           t == RemoveAt(s, p)
<1>1. Len(s) \in Nat /\ k \in Nat /\ \A j \in 1 .. Len(s) : s[j] \in Nat
  BY RangeOf
<1>2. p \in 1 .. Len(s) + 1 /\ \A j \in 1 .. Len(s) : s[j] < k <=> j < p
  BY <1>1, Placed
<1> HIDE DEF p
<1>3. p \in 1 .. Len(s) /\ s[p] = k
  <2>1. PICK j \in 1 .. Len(s) : k = s[j]
    BY RangeOf
  <2>2. ~ (j < p)
    BY <1>1, <1>2, <2>1
  <2>3. p \in 1 .. Len(s) /\ p <= j
    BY <1>1, <1>2, <2>1, <2>2
  <2>4. ~ (s[p] < k) /\ (p < j => s[p] < s[j])
    BY <1>2, <2>3 DEF Sorted
  <2> QED
    BY <2>1, <2>3, <2>4
<1>4. /\ t \in Keys /\ Len(t) = Len(s) - 1
      /\ \A j \in 1 .. Len(s) - 1 : t[j] = IF j < p THEN s[j] ELSE s[j + 1]
  BY <1>3, Removed DEF Keys
<1> HIDE DEF t
<1>5. Sorted(t)
  <2> SUFFICES ASSUME NEW i \in 1 .. Len(s) - 1, NEW j \in 1 .. Len(s) - 1, i < j
               PROVE  t[i] < t[j]
    BY <1>4 DEF Sorted
  <2>1. PICK a \in 1 .. Len(s) : t[i] = s[a] /\ a = IF i < p THEN i ELSE i + 1
    BY <1>1, <1>4
  <2>2. PICK b \in 1 .. Len(s) : t[j] = s[b] /\ b = IF j < p THEN j ELSE j + 1
    BY <1>1, <1>4
  <2>3. a < b
    BY <1>1, <1>3, <2>1, <2>2
  <2> QED
    BY <2>1, <2>2, <2>3 DEF Sorted
<1>6. Range(t) = Range(s) \ {k}
  <2>1. ASSUME NEW x \in Range(t) PROVE x \in Range(s) /\ x # k
    <3>1. PICK j \in 1 .. Len(s) - 1 : x = t[j]
      BY <1>4, <2>1, RangeOf
    <3>2. PICK a \in 1 .. Len(s) : x = s[a] /\ a # p
      BY <1>1, <1>3, <1>4, <3>1
    <3>3. s[a] # s[p]
      BY <1>1, <1>3, <3>2 DEF Sorted
    <3> QED
      BY <1>3, <3>2, <3>3, RangeOf
  <2>2. ASSUME NEW x \in Range(s), x # k PROVE x \in Range(t)
    <3>1. PICK a \in 1 .. Len(s) : x = s[a]
      BY RangeOf
    <3>2. a # p
      BY <1>3, <2>2, <3>1
    <3>3. PICK j \in 1 .. Len(t) : x = t[j]
      <4>1. CASE a < p
        BY <4>1, <1>1, <1>3, <1>4, <3>1
      <4>2. CASE a > p
        <5>1. a - 1 \in 1 .. Len(s) - 1 /\ ~ (a - 1 < p) /\ (a - 1) + 1 = a
          BY <4>2, <1>1, <1>3
        <5>2. t[a - 1] = s[a]
          BY <5>1, <1>4
        <5> QED
          BY <5>1, <5>2, <1>4, <3>1
      <4> QED
        BY <1>3, <3>2, <4>1, <4>2
    <3> QED
      BY <1>4, <3>3, RangeOf
  <2> QED
    BY <2>1, <2>2
<1>7. ASSUME NEW x \in Range(s), x < k PROVE t[1] = s[1] /\ t # << >>
  <2>1. PICK j \in 1 .. Len(s) : x = s[j]
    BY <1>7, RangeOf
  <2>2. 1 < p /\ Len(t) > 0
    BY <1>1, <1>2, <1>3, <1>4, <1>7, <2>1
  <2> QED
    BY <1>1, <1>2, <1>4, <2>2
<1> QED
  BY <1>3, <1>4, <1>5, <1>6, <1>7 DEF t, p

Before(A, B) == \A x \in A, y \in B : x < y

LEMMA SortedConcat ==
  ASSUME NEW s \in Keys, NEW t \in Keys, Sorted(s), Sorted(t), Before(Range(s), Range(t))
  PROVE  /\ s \o t \in Keys /\ Sorted(s \o t) /\ Len(s \o t) = Len(s) + Len(t)
         /\ Range(s \o t) = Range(s) \cup Range(t)
         /\ s # << >> => (s \o t)[1] = s[1]
<1> DEFINE u == s \o t
<1>1. /\ Len(s) \in Nat /\ Len(t) \in Nat
      /\ \A j \in 1 .. Len(s) : s[j] \in Range(s)
      /\ \A j \in 1 .. Len(t) : t[j] \in Range(t)
  BY RangeOf
<1>2. /\ u \in Keys /\ Len(u) = Len(s) + Len(t)
      /\ \A j \in 1 .. Len(s) + Len(t) : u[j] = IF j <= Len(s) THEN s[j] ELSE t[j - Len(s)]
  BY Concat DEF Keys
<1> HIDE DEF u
<1>3. Sorted(u)
  <2> SUFFICES ASSUME NEW i \in 1 .. Len(s) + Len(t), NEW j \in 1 .. Len(s) + Len(t), i < j
               PROVE  u[i] < u[j]
    BY <1>2 DEF Sorted
  <2>1. CASE j <= Len(s)
    BY <2>1, <1>1, <1>2 DEF Sorted
  <2>2. CASE i <= Len(s) /\ ~ j <= Len(s)
    <3>1. i \in 1 .. Len(s) /\ j - Len(s) \in 1 .. Len(t) /\ u[i] = s[i] /\ u[j] = t[j - Len(s)]
      BY <2>2, <1>1, <1>2
    <3> QED
      BY <3>1, <1>1 DEF Before
  <2>3. CASE ~ i <= Len(s)
    <3>1. /\ i - Len(s) \in 1 .. Len(t) /\ j - Len(s) \in 1 .. Len(t) /\ i - Len(s) < j - Len(s)
          /\ u[i] = t[i - Len(s)] /\ u[j] = t[j - Len(s)]
      BY <2>3, <1>1, <1>2
    <3> QED
      BY <3>1 DEF Sorted
  <2> QED
    BY <1>1, <2>1, <2>2, <2>3
<1>4. Range(u) = Range(s) \cup Range(t)
  <2>1. ASSUME NEW x \in Range(u) PROVE x \in Range(s) \cup Range(t)
    <3>1. PICK j \in 1 .. Len(s) + Len(t) : x = u[j]
      BY <1>2, <2>1, RangeOf
    <3>2. (j \in 1 .. Len(s) /\ x = s[j]) \/ (j - Len(s) \in 1 .. Len(t) /\ x = t[j - Len(s)])
      BY <1>1, <1>2, <3>1
    <3> QED
      BY <3>2, <1>1
  <2>2. ASSUME NEW x \in Range(s) PROVE x \in Range(u)
    <3>1. PICK j \in 1 .. Len(s) : x = s[j]
      BY <2>2, RangeOf
    <3>2. j \in 1 .. Len(u) /\ x = u[j]
      BY <1>1, <1>2, <3>1
    <3> QED
      BY <1>2, <3>2, RangeOf
  <2>3. ASSUME NEW x \in Range(t) PROVE x \in Range(u)
    <3>1. PICK j \in 1 .. Len(t) : x = t[j]
      BY <2>3, RangeOf
    <3>2. j + Len(s) \in 1 .. Len(u) /\ ~ (j + Len(s) <= Len(s)) /\ (j + Len(s)) - Len(s) = j
      BY <1>1, <1>2
    <3>3. x = u[j + Len(s)]
      BY <1>2, <3>1, <3>2
    <3> QED
      BY <1>2, <3>2, <3>3, RangeOf
  <2> QED
    BY <2>1, <2>2, <2>3
<1>5. ASSUME s # << >> PROVE u[1] = s[1]
  <2>1. 1 \in 1 .. Len(s)
    BY <1>5, RangeOf
  <2> QED
    BY <2>1, <1>1, <1>2
<1> QED
  BY <1>2, <1>3, <1>4, <1>5 DEF u

LEMMA SortedCut ==
  ASSUME NEW s \in Keys, Sorted(s), NEW c \in 1 .. Len(s) - 1
  PROVE  LET a == SubSeq(s, 1, c)
             b == SubSeq(s, c + 1, Len(s))
         IN /\ a \in Keys /\ b \in Keys /\ Sorted(a) /\ Sorted(b) /\ a # << >> /\ b # << >>
            /\ Len(a) = c /\ Len(b) = Len(s) - c /\ a[1] = s[1] /\ b[1] = s[c + 1]
            /\ Range(a) \cup Range(b) = Range(s) /\ Before(Range(a), Range(b))
<1> DEFINE a == SubSeq(s, 1, c)
           b == SubSeq(s, c + 1, Len(s))
<1>1. Len(s) \in Nat /\ \A j \in 1 .. Len(s) : s[j] \in Range(s)
  BY RangeOf
<1>2. a \in Keys /\ Len(a) = c /\ \A j \in 1 .. c : a[j] = s[j]
  <2>1. /\ a \in Seq(Key) /\ Len(a) = c - 1 + 1
        /\ \A j \in 1 .. c - 1 + 1 : a[j] = s[1 + j - 1]
    BY <1>1, Cut DEF Keys
  <2> QED
    BY <2>1, <1>1 DEF Keys
<1>3. b \in Keys /\ Len(b) = Len(s) - c /\ \A j \in 1 .. Len(s) - c : b[j] = s[c + j]
  <2>1. /\ b \in Seq(Key) /\ Len(b) = Len(s) - (c + 1) + 1
        /\ \A j \in 1 .. Len(s) - (c + 1) + 1 : b[j] = s[(c + 1) + j - 1]
    BY <1>1, Cut DEF Keys
  <2> QED
    BY <2>1, <1>1 DEF Keys
<1> HIDE DEF a, b
<1>4. Sorted(a)
  <2> SUFFICES ASSUME NEW i \in 1 .. c, NEW j \in 1 .. c, i < j PROVE a[i] < a[j]
    BY <1>2 DEF Sorted
  <2> QED
    BY <1>1, <1>2 DEF Sorted
<1>5. Sorted(b)
  <2> SUFFICES ASSUME NEW i \in 1 .. Len(s) - c, NEW j \in 1 .. Len(s) - c, i < j PROVE b[i] < b[j]
    BY <1>3 DEF Sorted
  <2>1. c + i \in 1 .. Len(s) /\ c + j \in 1 .. Len(s) /\ c + i < c + j
    BY <1>1
  <2> QED
    BY <2>1, <1>3 DEF Sorted
<1>6. Range(a) \cup Range(b) = Range(s)
  <2>1. ASSUME NEW x \in Range(a) \cup Range(b) PROVE x \in Range(s)
    <3>1. (\E j \in 1 .. c : x = a[j]) \/ (\E j \in 1 .. Len(s) - c : x = b[j])
      BY <2>1, <1>2, <1>3, RangeOf
    <3>2. \E j \in 1 .. Len(s) : x = s[j]
      <4>1. CASE \E j \in 1 .. c : x = a[j]
        BY <4>1, <1>1, <1>2
      <4>2. CASE \E j \in 1 .. Len(s) - c : x = b[j]
        <5>1. PICK j \in 1 .. Len(s) - c : x = b[j]
          BY <4>2
        <5>2. c + j \in 1 .. Len(s) /\ x = s[c + j]
          BY <5>1, <1>1, <1>3
        <5> QED
          BY <5>2
      <4> QED
        BY <3>1, <4>1, <4>2
    <3> QED
      BY <3>2, <1>1
  <2>2. ASSUME NEW x \in Range(s) PROVE x \in Range(a) \cup Range(b)
    <3>1. PICK j \in 1 .. Len(s) : x = s[j]
      BY RangeOf
    <3>2. (j \in 1 .. Len(a) /\ x = a[j]) \/ (j - c \in 1 .. Len(b) /\ c + (j - c) = j)
      BY <1>1, <1>2, <1>3, <3>1
    <3>3. (j \in 1 .. Len(a) /\ x = a[j]) \/ (j - c \in 1 .. Len(b) /\ x = b[j - c])
      BY <1>3, <3>1, <3>2
    <3> QED
      BY <1>2, <1>3, <3>3, RangeOf
  <2> QED
    BY <2>1, <2>2
<1>7. Before(Range(a), Range(b))
  <2> SUFFICES ASSUME NEW x \in Range(a), NEW y \in Range(b) PROVE x < y
    BY DEF Before
  <2>1. PICK i \in 1 .. c : x = a[i]
    BY <1>2, RangeOf
  <2>2. PICK j \in 1 .. Len(s) - c : y = b[j]
    BY <1>3, RangeOf
  <2>3. i \in 1 .. Len(s) /\ c + j \in 1 .. Len(s) /\ i < c + j
    BY <1>1
  <2> QED
    BY <2>1, <2>2, <2>3, <1>2, <1>3 DEF Sorted
<1>8. a # << >> /\ b # << >> /\ a[1] = s[1] /\ b[1] = s[c + 1]
  BY <1>1, <1>2, <1>3
<1> QED
  BY <1>2, <1>3, <1>4, <1>5, <1>6, <1>7, <1>8 DEF a, b

(***************************************************************************)
(* A root of some keys and pointers, and what the operations on the buffer *)
(* make of it.                                                             *)
(***************************************************************************)
Buffer(n, lv, recs, A) == [bytes |-> Space(n), level |-> lv, recs |-> recs, area |-> A]
AreaOf(K, P) == [u \in 1 .. 2 * Len(K) |-> IF u <= Len(K) THEN K[u] ELSE P[u - Len(K)]]
Root(lv, K, P) == Buffer(Len(K), lv, Len(K), AreaOf(K, P))
Of(n, s) == Len(s) = n /\ DOMAIN s = 1 .. n /\ s = [i \in 1 .. n |-> s[i]]

LEMMA SpaceBack ==
  ASSUME NEW n \in Nat PROVE MaxRecs(Space(n)) = n /\ Space(n) > 0 /\ Space(n) # 0 /\ Space(n) \in Nat
BY DEF MaxRecs, Space, LblockLen

LEMMA BufferRead ==
  ASSUME NEW n \in Nat, NEW lv, NEW recs, NEW A
  PROVE  LET b == Buffer(n, lv, recs, A) IN
         /\ Cap(b) = n /\ b.bytes = Space(n) /\ b.bytes > 0 /\ b.bytes # 0
         /\ b.level = lv /\ b.recs = recs /\ b.area = A
         /\ \A i : KeyAt(b, i) = A[i] /\ PtrAt(b, i) = A[n + i]
BY SpaceBack DEF Buffer, Cap, KeyAt, PtrAt

LEMMA OfItsLength == ASSUME NEW S, NEW s \in Seq(S) PROVE Of(Len(s), s) /\ Len(s) \in Nat
<1>1. Len(s) \in Nat /\ s \in [1 .. Len(s) -> S] /\ DOMAIN s = 1 .. Len(s)
  BY LenProperties
<1> DEFINE n == Len(s)
<1>2. n \in Nat /\ s \in [1 .. n -> S] /\ DOMAIN s = 1 .. n /\ Len(s) = n
  BY <1>1
<1> HIDE DEF n
<1>3. s = [i \in 1 .. n |-> s[i]]
  BY <1>2
<1>4. Of(n, s)
  BY <1>2, <1>3 DEF Of
<1> QED
  BY <1>2, <1>4

LEMMA BufferArea ==
  ASSUME NEW n, NEW lv, NEW recs, NEW A, NEW B
  PROVE  [Buffer(n, lv, recs, A) EXCEPT !.area = B] = Buffer(n, lv, recs, B)
BY DEF Buffer

LEMMA BufferRecs ==
  ASSUME NEW n, NEW lv, NEW recs, NEW A, NEW m
  PROVE  [Buffer(n, lv, recs, A) EXCEPT !.recs = m] = Buffer(n, lv, m, A)
BY DEF Buffer

LEMMA RootRead ==
  ASSUME NEW n \in Nat, NEW lv, NEW K, NEW P, Of(n, K), Of(n, P)
  PROVE  LET b == Root(lv, K, P) IN
         /\ Cap(b) = n /\ b.bytes = Space(n) /\ b.bytes > 0 /\ b.bytes # 0
         /\ b.level = lv /\ b.recs = n /\ b.area = AreaOf(K, P) /\ DOMAIN b.area = 1 .. 2 * n
         /\ RootKeys(b) = K /\ RootPtrs(b) = P
         /\ \A i \in 1 .. n : KeyAt(b, i) = K[i] /\ PtrAt(b, i) = P[i]
         /\ \A i \in 1 .. n : b.area[i] = K[i] /\ b.area[n + i] = P[i]
<1> DEFINE b == Root(lv, K, P)
<1>1. Len(K) = n /\ b = Buffer(n, lv, n, AreaOf(K, P))
  BY DEF Root, Of
<1>2. /\ Cap(b) = n /\ b.bytes = Space(n) /\ b.bytes > 0 /\ b.bytes # 0
      /\ b.level = lv /\ b.recs = n /\ b.area = AreaOf(K, P)
      /\ \A i : KeyAt(b, i) = AreaOf(K, P)[i] /\ PtrAt(b, i) = AreaOf(K, P)[n + i]
  BY <1>1, BufferRead
<1> HIDE DEF b
<1>3. \A i \in 1 .. n : AreaOf(K, P)[i] = K[i] /\ AreaOf(K, P)[n + i] = P[i]
  BY <1>1 DEF AreaOf
<1>4. DOMAIN AreaOf(K, P) = 1 .. 2 * n
  BY <1>1 DEF AreaOf
<1>5. RootKeys(b) = K /\ RootPtrs(b) = P
  <2>1. RootKeys(b) = [i \in 1 .. n |-> K[i]]
    BY <1>2, <1>3 DEF RootKeys
  <2>2. RootPtrs(b) = [i \in 1 .. n |-> P[i]]
    BY <1>2, <1>3 DEF RootPtrs
  <2> QED
    BY <2>1, <2>2, Zenon DEF Of
<1> QED
  BY <1>2, <1>3, <1>4, <1>5 DEF b

LEMMA PutBoth ==
  ASSUME NEW n \in Nat, NEW lv, NEW recs, NEW A, DOMAIN A = 1 .. 2 * n,
         NEW K, NEW P, Of(n, K), Of(n, P)
  PROVE  Put(Buffer(n, lv, recs, A), K, P) = Buffer(n, lv, recs, AreaOf(K, P))
<1> DEFINE b == Buffer(n, lv, recs, A)
           B == [u \in DOMAIN b.area |->
                   IF u <= Len(K) THEN K[u]
                   ELSE IF u - Cap(b) \in DOMAIN P THEN P[u - Cap(b)] ELSE b.area[u]]
<1>1. Cap(b) = n /\ b.area = A /\ Len(K) = n /\ DOMAIN P = 1 .. n
  BY BufferRead DEF Of
<1>2. B = AreaOf(K, P)
  BY <1>1 DEF AreaOf
<1>3. Put(b, K, P) = [b EXCEPT !.area = B]
  BY DEF Put
<1> HIDE DEF B
<1>4. [b EXCEPT !.area = B] = Buffer(n, lv, recs, B)
  BY BufferArea
<1> QED
  BY <1>2, <1>3, <1>4, Zenon

\* Keys alone are written over, the pointers stay.
LEMMA PutKeys ==
  ASSUME NEW n \in Nat, NEW lv, NEW K, NEW P, NEW L, Of(n, K), Of(n, P), Of(n, L)
  PROVE  Put(Root(lv, K, P), L, << >>) = Root(lv, L, P)
<1> DEFINE b == Root(lv, K, P)
           B == [u \in DOMAIN b.area |->
                   IF u <= Len(L) THEN L[u]
                   ELSE IF u - Cap(b) \in DOMAIN << >> THEN << >>[u - Cap(b)] ELSE b.area[u]]
<1>1. Cap(b) = n /\ b.area = AreaOf(K, P) /\ DOMAIN b.area = 1 .. 2 * n
  BY RootRead
<1>2. Len(K) = n /\ Len(L) = n
  BY DEF Of
<1>3. B = AreaOf(L, P)
  <2>1. DOMAIN << >> = {}
    OBVIOUS
  <2>2. \A u \in 1 .. 2 * n : AreaOf(K, P)[u] = IF u <= n THEN K[u] ELSE P[u - n]
    BY <1>2 DEF AreaOf
  <2>3. B = [u \in 1 .. 2 * n |-> IF u <= n THEN L[u] ELSE AreaOf(K, P)[u]]
    BY <1>1, <1>2, <2>1
  <2>4. B = [u \in 1 .. 2 * n |-> IF u <= n THEN L[u] ELSE P[u - n]]
    BY <2>2, <2>3
  <2> QED
    BY <1>2, <2>4 DEF AreaOf
<1>4. Put(b, L, << >>) = [b EXCEPT !.area = B]
  BY DEF Put
<1>5. b = Buffer(n, lv, n, AreaOf(K, P))
  BY <1>2 DEF Root
<1>6. [Buffer(n, lv, n, AreaOf(K, P)) EXCEPT !.area = AreaOf(L, P)] = Buffer(n, lv, n, AreaOf(L, P))
  BY DEF Buffer
<1> HIDE DEF B
<1> QED
  BY <1>2, <1>3, <1>4, <1>5, <1>6, Zenon DEF Root

\* Reallocation.
LEMMA BufferSized ==
  ASSUME NEW m, NEW n, NEW lv, NEW recs, NEW A, NEW B
  PROVE  Sized(Buffer(m, lv, recs, A), n, B) = Buffer(n, lv, recs, B)
<1> DEFINE c == Buffer(m, lv, recs, A)
           e == Sized(c, n, B)
           R == [bytes : {Space(m), Space(n)}, level : {lv}, recs : {recs}, area : {A, B}]
<1>1. c \in R /\ c.level = lv /\ c.recs = recs
  BY DEF Buffer
<1> HIDE DEF c
<1>2. e \in R /\ e.bytes = Space(n) /\ e.level = lv /\ e.recs = recs /\ e.area = B
  BY <1>1 DEF Sized
<1> HIDE DEF e
<1>3. e = [bytes |-> Space(n), level |-> lv, recs |-> recs, area |-> B]
  BY <1>2
<1> QED
  BY <1>3 DEF e, c, Buffer

\* Made larger, the buffer holds the keys and, behind the new room, the pointers.
GrownArea(n, m, K, P) ==
  [u \in 1 .. 2 * m |-> IF u \in m + 1 .. m + n THEN AreaOf(K, P)[n + u - m]
                        ELSE IF u <= 2 * n THEN AreaOf(K, P)[u] ELSE Junk]

HasGrown(r, n, m, lv, K, P) ==
  LET A == GrownArea(n, m, K, P) IN
  /\ DOMAIN A = 1 .. 2 * m /\ r = Buffer(m, lv, n, A)
  /\ \A i \in 1 .. n : A[i] = K[i] /\ A[m + i] = P[i]

LEMMA Grown ==
  ASSUME NEW n \in Nat, NEW m \in Nat, n < m, NEW d, d = m - n,
         NEW lv, NEW K, NEW P, Of(n, K), Of(n, P)
  PROVE  HasGrown(Realloc(Root(lv, K, P), d), n, m, lv, K, P)
<1> DEFINE b == Root(lv, K, P)
<1>1. /\ Cap(b) = n /\ b.bytes # 0 /\ Len(K) = n
      /\ \A i \in 1 .. n : b.area[i] = K[i] /\ b.area[n + i] = P[i]
  <2>1. Len(K) = n
    BY DEF Of
  <2> QED
    BY <2>1, RootRead
<1> DEFINE A == [u \in 1 .. 2 * m |-> IF u \in m + 1 .. m + Cap(b) THEN b.area[Cap(b) + u - m]
                                      ELSE IF u <= 2 * Cap(b) THEN b.area[u] ELSE Junk]
<1>2. Realloc(b, d) = Grow(b, m)
  <2>1. d # 0 /\ ~ (d < 0) /\ n + d = m
    OBVIOUS
  <2> QED
    BY <1>1, <2>1 DEF Realloc
<1>3. Grow(b, m) = Sized(b, m, A)
  BY DEF Grow
<1>4. b = Buffer(n, lv, n, AreaOf(K, P))
  BY <1>1 DEF Root
<1> HIDE DEF b
<1>5. \A i \in 1 .. n : A[i] = K[i] /\ A[m + i] = P[i]
  <2> SUFFICES ASSUME NEW i \in 1 .. n PROVE A[i] = K[i] /\ A[m + i] = P[i]
    OBVIOUS
  <2>1. i \in 1 .. 2 * m /\ ~ (i \in m + 1 .. m + n) /\ i <= 2 * n
    OBVIOUS
  <2>2. m + i \in 1 .. 2 * m /\ m + i \in m + 1 .. m + n /\ n + (m + i) - m = n + i
    OBVIOUS
  <2>3. A[i] = b.area[i]
    BY <1>1, <2>1
  <2>4. A[m + i] = b.area[n + i]
    BY <1>1, <2>2
  <2> QED
    BY <1>1, <2>3, <2>4
<1>6. DOMAIN A = 1 .. 2 * m
  OBVIOUS
<1> HIDE DEF A
<1>7. Realloc(b, d) = Buffer(m, lv, n, A)
  BY <1>2, <1>3, <1>4, BufferSized
<1>8. A = GrownArea(n, m, K, P)
  <2>1. Cap(b) = n /\ b.area = AreaOf(K, P)
    BY <1>1, <1>4, BufferRead
  <2> QED
    BY <2>1 DEF A, GrownArea
<1> QED
  BY <1>5, <1>6, <1>7, <1>8 DEF b, HasGrown

\* Made smaller, it holds the keys and pointers that were in front.
LEMMA Shrunk ==
  ASSUME NEW n \in Nat, NEW m \in 1 .. n - 1, NEW lv, NEW recs, NEW A
  PROVE  Realloc(Buffer(n, lv, recs, A), m - n)
           = Buffer(m, lv, recs, [u \in 1 .. 2 * m |-> IF u > m THEN A[n + u - m] ELSE A[u]])
<1> DEFINE b == Buffer(n, lv, recs, A)
<1>1. Cap(b) = n /\ b.area = A
  BY BufferRead
<1>2. Realloc(b, m - n) = Shrink(b, m)
  <2>1. m - n # 0 /\ m - n < 0 /\ n + (m - n) = m
    OBVIOUS
  <2> QED
    BY <1>1, <2>1 DEF Realloc
<1>3. Shrink(b, m) = Sized(b, m, [u \in 1 .. 2 * m |-> IF u > m THEN A[n + u - m] ELSE A[u]])
  BY <1>1 DEF Shrink
<1> QED
  BY <1>2, <1>3, BufferSized

\* xfs_btree_insrec: a full root grows by one and takes a key and a pointer in.
LEMMA RootEntered ==
  ASSUME NEW n \in Nat, NEW lv, NEW K, NEW P, Of(n, K), Of(n, P), NEW i, NEW k, NEW p,
         Of(n + 1, InsertAt(K, i, k)), Of(n + 1, InsertAt(P, i, p))
  PROVE  Entered(Root(lv, K, P), i, k, p) = Root(lv, InsertAt(K, i, k), InsertAt(P, i, p))
<1> DEFINE m == n + 1
           d == 1
           b == Root(lv, K, P)
           r == Realloc(b, d)
           L == InsertAt(K, i, k)
           Q == InsertAt(P, i, p)
           A == GrownArea(n, m, K, P)
<1>1. m \in Nat /\ n < m /\ d = m - n /\ Of(m, L) /\ Of(m, Q) /\ n + 1 = m
  OBVIOUS
<1>2. b.recs = Cap(b)
  BY RootRead
<1>3. Entered(b, i, k, p)
        = [Put(r, InsertAt(RootKeys(r), i, k), InsertAt(RootPtrs(r), i, p)) EXCEPT !.recs = r.recs + 1]
  BY <1>2 DEF Entered
<1> HIDE DEF m, d
<1>4. /\ DOMAIN A = 1 .. 2 * m
      /\ r = Buffer(m, lv, n, A)
      /\ \A j \in 1 .. n : A[j] = K[j] /\ A[m + j] = P[j]
  <2>1. m \in Nat /\ n < m /\ d = m - n
    BY <1>1
  <2>2. HasGrown(Realloc(Root(lv, K, P), d), n, m, lv, K, P)
    <3> HIDE DEF b, r, L, Q, A
    <3> QED
      BY <2>1, Grown
  <2> QED
    BY <2>2 DEF HasGrown
<1>5. r = Buffer(m, lv, n, A)
  BY <1>4
<1> HIDE DEF A, r
<1>6. r.recs = n /\ \A j : KeyAt(r, j) = A[j] /\ PtrAt(r, j) = A[m + j]
  BY <1>1, <1>5, BufferRead
<1>7. RootKeys(r) = K /\ RootPtrs(r) = P
  <2>1. RootKeys(r) = [j \in 1 .. n |-> K[j]]
    BY <1>4, <1>6 DEF RootKeys
  <2>2. RootPtrs(r) = [j \in 1 .. n |-> P[j]]
    BY <1>4, <1>6 DEF RootPtrs
  <2> QED
    BY <2>1, <2>2, Zenon DEF Of
<1>8. Entered(b, i, k, p) = [Put(r, L, Q) EXCEPT !.recs = m]
  BY <1>1, <1>3, <1>6, <1>7, Zenon
<1> HIDE DEF L, Q
<1>9. Put(r, L, Q) = Buffer(m, lv, n, AreaOf(L, Q))
  BY <1>1, <1>4, <1>5, PutBoth
<1>10. Entered(b, i, k, p) = Buffer(m, lv, m, AreaOf(L, Q))
  BY <1>8, <1>9, BufferRecs
<1>11. Len(L) = m
  BY <1>1 DEF Of
<1> QED
  BY <1>10, <1>11, Zenon DEF Root, L, Q, b

\* xfs_btree_delrec: a key and a pointer leave and the root shrinks by one.
LEMMA RootLeft ==
  ASSUME NEW n \in Nat, n > 1, NEW lv, NEW K, NEW P, Of(n, K), Of(n, P), NEW i,
         Of(n - 1, RemoveAt(K, i)), Of(n - 1, RemoveAt(P, i))
  PROVE  Left(Root(lv, K, P), i) = Root(lv, RemoveAt(K, i), RemoveAt(P, i))
<1> DEFINE b == Root(lv, K, P)
           L == RemoveAt(K, i)
           Q == RemoveAt(P, i)
           r == Put(b, L, Q)
           A == [u \in DOMAIN b.area |->
                   IF u <= Len(L) THEN L[u]
                   ELSE IF u - Cap(b) \in DOMAIN Q THEN Q[u - Cap(b)] ELSE b.area[u]]
           m == n - 1
<1>1. Cap(b) = n /\ DOMAIN b.area = 1 .. 2 * n /\ b.recs = n /\ RootKeys(b) = K /\ RootPtrs(b) = P
  BY RootRead
<1>2. Len(L) = m /\ DOMAIN Q = 1 .. m /\ m \in 1 .. n - 1 /\ m \in Nat /\ m - n = -1
  BY DEF Of
<1>3. Left(b, i) = Realloc([r EXCEPT !.recs = m], m - n)
  BY <1>1, <1>2 DEF Left
<1>4. r = [b EXCEPT !.area = A]
  BY DEF Put
<1>5. b = Buffer(n, lv, n, AreaOf(K, P))
  BY DEF Root, Of
<1>6. \A j \in 1 .. m : A[j] = L[j] /\ A[n + j] = Q[j]
  <2> SUFFICES ASSUME NEW j \in 1 .. m PROVE A[j] = L[j] /\ A[n + j] = Q[j]
    OBVIOUS
  <2>1. j \in 1 .. 2 * n /\ j <= m /\ n + j \in 1 .. 2 * n /\ ~ (n + j <= m) /\ (n + j) - n = j
    OBVIOUS
  <2> HIDE DEF b, L, Q, m
  <2> QED
    BY <1>1, <1>2, <2>1
<1> HIDE DEF A, b, L, Q, r
<1>7. [r EXCEPT !.recs = m] = Buffer(n, lv, m, A)
  <2>1. r = Buffer(n, lv, n, A)
    BY <1>4, <1>5, BufferArea
  <2> QED
    BY <2>1, BufferRecs
<1> DEFINE B == [u \in 1 .. 2 * m |-> IF u > m THEN A[n + u - m] ELSE A[u]]
<1>8. Left(b, i) = Buffer(m, lv, m, B)
  BY <1>2, <1>3, <1>7, Shrunk
<1>9. B = AreaOf(L, Q)
  <2> HIDE DEF m
  <2>1. ASSUME NEW u \in 1 .. 2 * m PROVE B[u] = IF u <= m THEN L[u] ELSE Q[u - m]
    <3>1. CASE u <= m
      BY <3>1, <1>2, <1>6
    <3>2. CASE ~ u <= m
      <4>1. u - m \in 1 .. m /\ n + (u - m) = n + u - m /\ u > m
        BY <3>2, <1>2
      <4>2. B[u] = A[n + u - m]
        BY <4>1
      <4> QED
        BY <3>2, <4>1, <4>2, <1>6
    <3> QED
      BY <3>1, <3>2
  <2> QED
    BY <2>1, <1>2 DEF AreaOf
<1> HIDE DEF B
<1> QED
  BY <1>2, <1>8, <1>9, Zenon DEF Root, L, Q, b

\* xfs_btree_new_iroot: one key and one pointer are left.
LEMMA RootRaised ==
  ASSUME NEW n \in Nat \ {0}, NEW lv \in Nat, NEW K, NEW P, Of(n, K), Of(n, P), NEW p
  PROVE  NewIroot(Root(lv, K, P), p) = Root(lv + 1, <<K[1]>>, <<p>>)
<1> DEFINE b == Root(lv, K, P)
           c == Buffer(n, lv + 1, 1, AreaOf(K, P))
           r == [b EXCEPT !.level = b.level + 1, !.recs = 1]
           q == Put(r, << >>, <<p>>)
           A == [u \in DOMAIN c.area |->
                   IF u <= Len(<< >>) THEN << >>[u]
                   ELSE IF u - Cap(c) \in DOMAIN <<p>> THEN <<p>>[u - Cap(c)] ELSE c.area[u]]
           L == <<K[1]>>
           Q == <<p>>
<1>1. b.recs = n /\ b.level = lv /\ b = Buffer(n, lv, n, AreaOf(K, P))
      /\ DOMAIN AreaOf(K, P) = 1 .. 2 * n /\ AreaOf(K, P)[1] = K[1] /\ 1 \in 1 .. n
  <2>1. Len(K) = n
    BY DEF Of
  <2>2. b.recs = n /\ b.level = lv /\ b.area = AreaOf(K, P) /\ DOMAIN b.area = 1 .. 2 * n
        /\ \A i \in 1 .. n : b.area[i] = K[i]
    <3> HIDE DEF c, r, q, A, L, Q
    <3>1. n \in Nat
      OBVIOUS
    <3> QED
      BY <3>1, RootRead DEF b
  <2>3. b = Buffer(n, lv, n, AreaOf(K, P))
    BY <2>1 DEF Root
  <2> HIDE DEF b
  <2> QED
    BY <2>2, <2>3
<1> HIDE DEF b
<1>2. r = c
  <2> DEFINE R == [bytes : {Space(n)}, level : {lv, lv + 1}, recs : {1, n}, area : {AreaOf(K, P)}]
  <2>1. b \in R /\ b.bytes = Space(n) /\ b.area = AreaOf(K, P)
    BY <1>1 DEF Buffer
  <2>2. r \in R /\ r.bytes = Space(n) /\ r.level = lv + 1 /\ r.recs = 1 /\ r.area = AreaOf(K, P)
    BY <1>1, <2>1
  <2> HIDE DEF r
  <2>3. r = [bytes |-> Space(n), level |-> lv + 1, recs |-> 1, area |-> AreaOf(K, P)]
    BY <2>2
  <2> QED
    BY <2>3 DEF Buffer
<1> HIDE DEF r
<1>3. Cap(c) = n /\ c.area = AreaOf(K, P)
  BY BufferRead
<1>4. q = Buffer(n, lv + 1, 1, A)
  <2>1. q = [c EXCEPT !.area = A]
    BY <1>2 DEF Put
  <2> HIDE DEF A
  <2> QED
    BY <2>1, BufferArea
<1>5. A[1] = K[1] /\ A[n + 1] = p
  <2>1. DOMAIN c.area = 1 .. 2 * n /\ 1 \in 1 .. 2 * n /\ n + 1 \in 1 .. 2 * n
    BY <1>1, <1>3
  <2>2. Len(<< >>) = 0 /\ DOMAIN <<p>> = {1} /\ <<p>>[1] = p
    OBVIOUS
  <2> HIDE DEF c
  <2> QED
    BY <1>1, <1>3, <2>1, <2>2
<1>6. NewIroot(b, p) = Realloc(q, 1 - n)
  BY <1>1 DEF NewIroot, r
<1>7. Realloc(q, 1 - n) = Buffer(1, lv + 1, 1, AreaOf(L, Q))
  <2> HIDE DEF A, q
  <2>0. Len(L) = 1 /\ L[1] = K[1] /\ Q[1] = p
    OBVIOUS
  <2>1. AreaOf(L, Q) = [u \in 1 .. 2 |-> IF u <= 1 THEN L[u] ELSE Q[u - 1]]
    BY <2>0 DEF AreaOf
  <2>2. CASE n = 1
    <3>1. Realloc(q, 1 - n) = q
      BY <2>2 DEF Realloc
    <3>2. A = AreaOf(L, Q)
      <4>1. DOMAIN A = 1 .. 2
        BY <1>1, <1>3, <2>2 DEF A
      <4>2. A = [u \in 1 .. 2 |-> A[u]]
        BY <4>1 DEF A
      <4>3. A[1] = L[1] /\ A[2] = Q[1]
        BY <1>5, <2>0, <2>2
      <4> QED
        BY <2>1, <4>2, <4>3
    <3> QED
      BY <1>4, <2>2, <3>1, <3>2
  <2>3. CASE n > 1
    <3> DEFINE m == 1
               B == [u \in 1 .. 2 * m |-> IF u > m THEN A[n + u - m] ELSE A[u]]
    <3>1. m \in 1 .. n - 1 /\ n \in Nat
      BY <2>3
    <3>2. B = AreaOf(L, Q)
      BY <1>5, <2>0, <2>1
    <3> HIDE DEF m
    <3>3. Realloc(Buffer(n, lv + 1, 1, A), m - n) = Buffer(m, lv + 1, 1, B)
      BY <3>1, Shrunk
    <3> QED
      BY <1>4, <3>2, <3>3 DEF m
  <2> QED
    BY <2>2, <2>3
<1>8. Len(L) = 1
  OBVIOUS
<1> HIDE DEF L, Q
<1> QED
  BY <1>6, <1>7, <1>8, Zenon DEF Root, L, Q, b

\* xfs_btree_kill_iroot: the keys of an only child come back, with the pointers to
\* their leaves.
Lowered(b, K, P) ==
  LET r == Realloc(b, Len(K) - Cap(b)) IN
  Put([r EXCEPT !.recs = @ + Len(K) - Cap(b), !.level = b.level - 1], K, P)

LEMMA RootLowered ==
  ASSUME NEW k, NEW p, NEW n \in Nat \ {0}, NEW K, NEW P, Of(n, K), Of(n, P)
  PROVE  Lowered(Root(2, <<k>>, <<p>>), K, P) = Root(1, K, P)
<1> DEFINE b == Root(2, <<k>>, <<p>>)
           d == n - 1
           r == Realloc(b, d)
           c == [r EXCEPT !.recs = r.recs + n - 1, !.level = 1]
<1>1. Of(1, <<k>>) /\ Of(1, <<p>>)
  BY DEF Of
<1>2. /\ Cap(b) = 1 /\ b.level = 2 /\ b.recs = 1 /\ b.area = AreaOf(<<k>>, <<p>>)
      /\ DOMAIN b.area = 1 .. 2 * 1 /\ 2 - 1 = 1
  BY <1>1, RootRead
<1>3. b = Buffer(1, 2, 1, AreaOf(<<k>>, <<p>>))
  BY DEF Root
<1> DEFINE A == IF n = 1 THEN AreaOf(<<k>>, <<p>>) ELSE GrownArea(1, n, <<k>>, <<p>>)
<1>4. r = Buffer(n, 2, 1, A) /\ DOMAIN A = 1 .. 2 * n
  <2>1. CASE n = 1
    <3>1. r = b
      BY <2>1 DEF Realloc
    <3> HIDE DEF b, r
    <3> QED
      BY <2>1, <3>1, <1>2, <1>3
  <2>2. CASE n > 1
    <3> DEFINE one == 1
    <3>1. one \in Nat /\ n \in Nat /\ one < n /\ d = n - one /\ Of(one, <<k>>) /\ Of(one, <<p>>)
      BY <1>1, <2>2
    <3> HIDE DEF one, d
    <3>2. HasGrown(r, one, n, 2, <<k>>, <<p>>)
      BY <3>1, Grown
    <3>3. A = GrownArea(one, n, <<k>>, <<p>>)
      BY <2>2 DEF one
    <3> HIDE DEF A, b, r
    <3> QED
      BY <3>2, <3>3 DEF one, HasGrown
  <2> QED
    BY <2>1, <2>2
<1> HIDE DEF b, r, d, A
<1>5. c = Buffer(n, 1, n, A)
  <2> DEFINE R == [bytes : {Space(n)}, level : {1, 2}, recs : {1, n}, area : {A}]
  <2>1. r \in R /\ r.bytes = Space(n) /\ r.recs = 1 /\ r.area = A
    BY <1>4 DEF Buffer
  <2>2. 1 + n - 1 = n
    OBVIOUS
  <2>3. c \in R /\ c.bytes = Space(n) /\ c.level = 1 /\ c.recs = n /\ c.area = A
    BY <2>1, <2>2
  <2> HIDE DEF c
  <2>4. c = [bytes |-> Space(n), level |-> 1, recs |-> n, area |-> A]
    BY <2>3
  <2> QED
    BY <2>4 DEF Buffer
<1>6. Put(c, K, P) = Buffer(n, 1, n, AreaOf(K, P))
  <2>1. n \in Nat
    OBVIOUS
  <2> HIDE DEF c
  <2> QED
    BY <2>1, <1>4, <1>5, PutBoth
<1>7. Put(c, K, P) = Root(1, K, P)
  <2>1. Len(K) = n
    BY DEF Of
  <2> QED
    BY <1>6, <2>1, Zenon DEF Root
<1>8. Len(K) = n
  BY DEF Of
<1> QED
  BY <1>2, <1>7, <1>8 DEF b, r, d, Lowered

\* A root made where there was none, filled with keys and pointers.
Made(lv, n, K, P) == Put([Realloc(NoRoot, n) EXCEPT !.level = lv, !.recs = n], K, P)

LEMMA RootMade ==
  ASSUME NEW n \in Nat \ {0}, NEW lv \in Nat, NEW K, NEW P, Of(n, K), Of(n, P)
  PROVE  Made(lv, n, K, P) = Root(lv, K, P)
<1> DEFINE w == Space(n)
           A == [u \in 1 .. 2 * n |-> Junk]
           r == Realloc(NoRoot, n)
           c == [r EXCEPT !.level = lv, !.recs = n]
<1>1. r = [bytes |-> w, level |-> 0, recs |-> 0, area |-> A]
  <2>1. r = Sized(NoRoot, n, A)
    BY DEF Realloc, NoRoot
  <2> DEFINE e == Sized(NoRoot, n, A)
             R == [bytes : {0, w}, level : {0}, recs : {0}, area : {A, << >>}]
  <2>2. NoRoot \in R /\ NoRoot.level = 0 /\ NoRoot.recs = 0
    BY DEF NoRoot
  <2>3. e = [NoRoot EXCEPT !.bytes = w, !.area = A]
    BY DEF Sized
  <2> HIDE DEF A, w, e
  <2>4. e \in R /\ e.bytes = w /\ e.level = 0 /\ e.recs = 0 /\ e.area = A
    BY <2>2, <2>3
  <2> QED
    BY <2>1, <2>4 DEF e
<1>2. c = Buffer(n, lv, n, A)
  <2> DEFINE R == [bytes : {w}, level : {0, lv}, recs : {0, n}, area : {A}]
  <2> HIDE DEF A, r, w
  <2>1. r \in R /\ r.bytes = w /\ r.area = A
    BY <1>1
  <2>2. c \in R /\ c.bytes = w /\ c.level = lv /\ c.recs = n /\ c.area = A
    BY <2>1
  <2> HIDE DEF c
  <2>3. c = [bytes |-> w, level |-> lv, recs |-> n, area |-> A]
    BY <2>2
  <2> QED
    BY <2>3 DEF Buffer, w
<1>3. DOMAIN A = 1 .. 2 * n /\ n \in Nat
  OBVIOUS
<1> HIDE DEF A, c
<1>4. Put(c, K, P) = Buffer(n, lv, n, AreaOf(K, P))
  BY <1>2, <1>3, PutBoth
<1>5. Len(K) = n
  BY DEF Of
<1> QED
  BY <1>4, <1>5 DEF Root, Made, c, r

(***************************************************************************)
(* Sequences of children: what each holds is sorted, and comes before what *)
(* the next holds.                                                         *)
(***************************************************************************)
LEMMA FunctionSeq ==
  ASSUME NEW S, NEW n \in Nat, NEW f \in [1 .. n -> S]
  PROVE  f \in Seq(S) /\ Len(f) = n
<1>1. f \in Seq(S)
  BY SeqDef
<1>2. Len(f) \in Nat /\ DOMAIN f = 1 .. Len(f) /\ DOMAIN f = 1 .. n
  BY <1>1, LenProperties
<1> QED
  BY <1>1, <1>2

LEMMA LeavesOf ==
  ASSUME NEW K \in Keys
  PROVE  Leaves(K) \in Seq(Unit) /\ Len(Leaves(K)) = Len(K) /\ \A i \in 1 .. Len(K) : Leaves(K)[i] = Leaf(K[i])
<1>1. Len(K) \in Nat /\ DOMAIN K = 1 .. Len(K) /\ \A i \in 1 .. Len(K) : K[i] \in Key
  BY RangeOf
<1>2. Leaves(K) = [i \in 1 .. Len(K) |-> Leaf(K[i])]
  BY <1>1 DEF Leaves
<1>3. Leaves(K) \in [1 .. Len(K) -> Unit]
  BY <1>1, <1>2 DEF Unit
<1> QED
  BY <1>1, <1>2, <1>3, FunctionSeq

LEMMA LeavesInserted ==
  ASSUME NEW K \in Keys, NEW i \in 1 .. Len(K) + 1, NEW k \in Key
  PROVE  InsertAt(Leaves(K), i, Leaf(k)) = Leaves(InsertAt(K, i, k))
<1> DEFINE L == InsertAt(K, i, k)
           B == Leaves(K)
           e == Leaf(k)
           Q == InsertAt(B, i, e)
<1>1. e \in Unit
  BY DEF Unit
<1>2. B \in Seq(Unit) /\ Len(B) = Len(K) /\ Len(K) \in Nat
      /\ \A j \in 1 .. Len(K) : B[j] = Leaf(K[j])
  BY LeavesOf, RangeOf
<1>3. /\ L \in Keys /\ Len(L) = Len(K) + 1
      /\ \A j \in 1 .. Len(K) + 1 : L[j] = IF j < i THEN K[j] ELSE IF j = i THEN k ELSE K[j - 1]
  BY Inserted DEF Keys
<1> HIDE DEF B, L
<1>4. /\ Q \in Seq(Unit) /\ Len(Q) = Len(K) + 1
      /\ \A j \in 1 .. Len(K) + 1 :
           Q[j] = IF j < i THEN B[j] ELSE IF j = i THEN e ELSE B[j - 1]
  <2> HIDE DEF e
  <2>1. i \in 1 .. Len(B) + 1
    BY <1>2
  <2> QED
    BY <1>1, <1>2, <2>1, Inserted
<1> HIDE DEF Q
<1>5. /\ Leaves(L) \in Seq(Unit) /\ Len(Leaves(L)) = Len(L)
      /\ \A j \in 1 .. Len(L) : Leaves(L)[j] = Leaf(L[j])
  BY <1>3, LeavesOf
<1>6. ASSUME NEW j \in 1 .. Len(K) + 1 PROVE Q[j] = Leaves(L)[j]
  <2>0. Leaves(L)[j] = Leaf(L[j])
    BY <1>3, <1>5
  <2>1. CASE j < i
    BY <2>0, <2>1, <1>2, <1>3, <1>4
  <2>2. CASE j = i
    BY <2>0, <2>2, <1>3, <1>4
  <2>3. CASE j > i
    <3> DEFINE m == j - 1
    <3>1. m \in 1 .. Len(K)
      BY <2>3, <1>2
    <3>2. Q[j] = B[m] /\ L[j] = K[m]
      BY <2>3, <1>2, <1>3, <1>4
    <3>3. B[m] = Leaf(K[m])
      BY <3>1, <1>2
    <3> QED
      BY <2>0, <3>2, <3>3, Zenon
  <2> QED
    BY <1>2, <2>1, <2>2, <2>3
<1> QED
  BY <1>3, <1>4, <1>5, <1>6, SeqEqual DEF L, Q, B

LEMMA LeavesRemoved ==
  ASSUME NEW K \in Keys, NEW i \in 1 .. Len(K)
  PROVE  RemoveAt(Leaves(K), i) = Leaves(RemoveAt(K, i))
<1> DEFINE L == RemoveAt(K, i)
           Q == RemoveAt(Leaves(K), i)
<1>1. Leaves(K) \in Seq(Unit) /\ Len(Leaves(K)) = Len(K) /\ Len(K) \in Nat
      /\ \A j \in 1 .. Len(K) : Leaves(K)[j] = Leaf(K[j])
  BY LeavesOf, RangeOf
<1>2. /\ L \in Keys /\ Len(L) = Len(K) - 1
      /\ \A j \in 1 .. Len(K) - 1 : L[j] = IF j < i THEN K[j] ELSE K[j + 1]
  BY Removed DEF Keys
<1>3. /\ Q \in Seq(Unit) /\ Len(Q) = Len(K) - 1
      /\ \A j \in 1 .. Len(K) - 1 : Q[j] = IF j < i THEN Leaves(K)[j] ELSE Leaves(K)[j + 1]
  BY <1>1, Removed
<1> HIDE DEF L, Q
<1>4. /\ Leaves(L) \in Seq(Unit) /\ Len(Leaves(L)) = Len(L)
      /\ \A j \in 1 .. Len(L) : Leaves(L)[j] = Leaf(L[j])
  BY <1>2, LeavesOf
<1>5. ASSUME NEW j \in 1 .. Len(K) - 1 PROVE Q[j] = Leaves(L)[j]
  <2>1. j \in 1 .. Len(K) /\ j + 1 \in 1 .. Len(K)
    BY <1>1
  <2> QED
    BY <2>1, <1>1, <1>2, <1>3, <1>4
<1> QED
  BY <1>2, <1>3, <1>4, <1>5, SeqEqual DEF L, Q

Children == Seq(Keys)
Chained(C) == /\ \A i \in 1 .. Len(C) : Sorted(C[i])
              /\ \A i, j \in 1 .. Len(C) : i < j => Before(Range(C[i]), Range(C[j]))
Holding(C, E) == \A x : x \in E <=> \E i \in 1 .. Len(C) : x \in Range(C[i])
Family(C, E) == C \in Children /\ Chained(C) /\ Holding(C, E)
Full(C) == \A i \in 1 .. Len(C) : C[i] # << >>
Replaced(C, i, s) == [C EXCEPT ![i] = s]

LEMMA ReplacedAt ==
  ASSUME NEW C \in Children, NEW i \in 1 .. Len(C), NEW s \in Keys
  PROVE  /\ Replaced(C, i, s) \in Children /\ Len(Replaced(C, i, s)) = Len(C) /\ Len(C) \in Nat
         /\ \A j \in 1 .. Len(C) : Replaced(C, i, s)[j] = IF j = i THEN s ELSE C[j]
BY DEF Replaced, Children

\* What one child holds may be anything between its neighbours.
LEMMA FamilyReplaced ==
  ASSUME NEW C, NEW E, Family(C, E), NEW i \in 1 .. Len(C), NEW s \in Keys, Sorted(s),
         \A j \in 1 .. Len(C) : /\ j < i => Before(Range(C[j]), Range(s))
                                /\ j > i => Before(Range(s), Range(C[j]))
  PROVE  Family(Replaced(C, i, s), (E \ Range(C[i])) \cup Range(s))
<1> DEFINE D == Replaced(C, i, s)
           F == (E \ Range(C[i])) \cup Range(s)
<1>1. D \in Children /\ Len(D) = Len(C) /\ Len(C) \in Nat
      /\ \A j \in 1 .. Len(C) : D[j] = IF j = i THEN s ELSE C[j]
  BY ReplacedAt DEF Family
<1> HIDE DEF D
<1>2. Chained(D)
  BY <1>1 DEF Chained, Family
<1>3. ASSUME NEW j \in 1 .. Len(C), j # i, NEW x \in Range(C[j]) PROVE x \notin Range(C[i])
  <2>1. x \in Nat
    BY <1>3, RangeOf DEF Family, Children
  <2>2. Before(Range(C[i]), Range(C[j])) \/ Before(Range(C[j]), Range(C[i]))
    BY <1>1, <1>3 DEF Family, Chained
  <2> QED
    BY <2>1, <2>2 DEF Before
<1>4. Holding(D, F)
  <2>1. ASSUME NEW x \in F PROVE \E j \in 1 .. Len(D) : x \in Range(D[j])
    <3>1. CASE x \in Range(s)
      BY <3>1, <1>1
    <3>2. CASE x \notin Range(s)
      <4>1. PICK j \in 1 .. Len(C) : x \in Range(C[j])
        BY <2>1, <3>2 DEF Family, Holding
      <4> QED
        BY <2>1, <3>2, <4>1, <1>1
    <3> QED
      BY <3>1, <3>2
  <2>2. ASSUME NEW j \in 1 .. Len(D), NEW x \in Range(D[j]) PROVE x \in F
    <3>1. CASE j = i
      BY <3>1, <2>2, <1>1
    <3>2. CASE j # i
      <4>1. x \in Range(C[j]) /\ x \in E
        BY <3>2, <2>2, <1>1 DEF Family, Holding
      <4> QED
        BY <3>2, <4>1, <1>1, <1>3
    <3> QED
      BY <3>1, <3>2
  <2> QED
    BY <2>1, <2>2 DEF Holding
<1> QED
  BY <1>1, <1>2, <1>4 DEF Family, D

\* Where two neighbours part what they hold between them may change.
LEMMA FamilyParted ==
  ASSUME NEW C, NEW E, Family(C, E), NEW l \in 1 .. Len(C) - 1,
         NEW a \in Keys, NEW b \in Keys, Sorted(a), Sorted(b), Before(Range(a), Range(b)),
         Range(a) \cup Range(b) = Range(C[l]) \cup Range(C[l + 1])
  PROVE  Family(Replaced(Replaced(C, l, a), l + 1, b), E)
<1> DEFINE r == l + 1
           none == << >>
           A == Replaced(C, l, none)
           B == Replaced(A, r, b)
           D == Replaced(B, l, a)
           G == Replaced(Replaced(C, l, a), r, b)
           EA == (E \ Range(C[l])) \cup Range(none)
           EB == (EA \ Range(A[r])) \cup Range(b)
           ED == (EB \ Range(B[l])) \cup Range(a)
<1>1. Len(C) \in Nat /\ l \in 1 .. Len(C) /\ r \in 1 .. Len(C) /\ r = l + 1 /\ r # l
  BY DEF Family, Children
<1>2. none \in Keys /\ Sorted(none) /\ Range(none) = {}
  BY DEF Keys, Sorted, Range
<1> HIDE DEF r, none
<1>3. C \in Children /\ Chained(C) /\ Holding(C, E)
  BY DEF Family
<1>4. A \in Children /\ Len(A) = Len(C)
      /\ \A j \in 1 .. Len(C) : A[j] = IF j = l THEN none ELSE C[j]
  BY <1>1, <1>2, <1>3, ReplacedAt
<1>5. Family(A, EA)
  BY <1>1, <1>2, FamilyReplaced DEF Before
<1> HIDE DEF A
<1>6. B \in Children /\ Len(B) = Len(C)
      /\ \A j \in 1 .. Len(C) : B[j] = IF j = r THEN b ELSE A[j]
  BY <1>1, <1>4, ReplacedAt
<1>7. ASSUME NEW j \in 1 .. Len(C), j # l, j # r
      PROVE  /\ j < l => Before(Range(C[j]), Range(a) \cup Range(b))
             /\ j > l => Before(Range(a) \cup Range(b), Range(C[j]))
  <2>1. /\ j < l => Before(Range(C[j]), Range(C[l])) /\ Before(Range(C[j]), Range(C[r]))
        /\ j > l => Before(Range(C[l]), Range(C[j])) /\ Before(Range(C[r]), Range(C[j]))
    BY <1>1, <1>3, <1>7 DEF Chained
  <2>2. Range(a) \cup Range(b) = Range(C[l]) \cup Range(C[r])
    BY <1>1
  <2> QED
    BY <2>1, <2>2 DEF Before
<1>8. Family(B, EB)
  <2> HIDE DEF EA
  <2>1. ASSUME NEW j \in 1 .. Len(A)
        PROVE  /\ j < r => Before(Range(A[j]), Range(b))
               /\ j > r => Before(Range(b), Range(A[j]))
    <3>1. CASE j = l
      BY <3>1, <1>1, <1>2, <1>4 DEF Before
    <3>2. CASE j = r
      BY <3>2, <1>1
    <3>3. CASE j # l /\ j # r
      <4>1. A[j] = C[j] /\ j \in 1 .. Len(C)
        BY <3>3, <1>4
      <4>2. /\ j < l => Before(Range(C[j]), Range(a) \cup Range(b))
            /\ j > l => Before(Range(a) \cup Range(b), Range(C[j]))
        BY <3>3, <4>1, <1>7
      <4>3. /\ j < r => Before(Range(C[j]), Range(b))
            /\ j > r => Before(Range(b), Range(C[j]))
        BY <3>3, <4>1, <4>2, <1>1 DEF Before
      <4> QED
        BY <4>1, <4>3
    <3> QED
      BY <3>1, <3>2, <3>3
  <2> QED
    BY <2>1, <1>1, <1>4, <1>5, FamilyReplaced
<1>9. Family(D, ED)
  <2>1. ASSUME NEW j \in 1 .. Len(B)
        PROVE  /\ j < l => Before(Range(B[j]), Range(a))
               /\ j > l => Before(Range(a), Range(B[j]))
    <3>1. CASE j = l
      BY <3>1, <1>1
    <3>2. CASE j = r
      BY <3>2, <1>1, <1>6
    <3>3. CASE j # l /\ j # r
      <4>1. B[j] = C[j] /\ j \in 1 .. Len(C)
        BY <3>3, <1>4, <1>6
      <4>2. /\ j < l => Before(Range(C[j]), Range(a) \cup Range(b))
            /\ j > l => Before(Range(a) \cup Range(b), Range(C[j]))
        BY <3>3, <4>1, <1>7
      <4> QED
        BY <4>1, <4>2 DEF Before
    <3> QED
      BY <3>1, <3>2, <3>3
  <2> HIDE DEF EB, B
  <2> QED
    BY <2>1, <1>1, <1>6, <1>8, FamilyReplaced
<1>10. ED = E
  <2>1. A[r] = C[r] /\ B[l] = none
    BY <1>1, <1>4, <1>6
  <2>2. Range(C[l]) \subseteq E /\ Range(C[r]) \subseteq E
    BY <1>1, <1>3 DEF Holding
  <2>3. Range(a) \cup Range(b) = Range(C[l]) \cup Range(C[r])
    BY <1>1
  <2> QED
    BY <2>1, <2>2, <2>3, <1>2
<1>11. D = G
  <2> DEFINE H == Replaced(C, l, a)
  <2>1. H \in Children /\ Len(H) = Len(C)
        /\ \A j \in 1 .. Len(C) : H[j] = IF j = l THEN a ELSE C[j]
    BY <1>1, <1>3, ReplacedAt
  <2> HIDE DEF H
  <2>2. Replaced(H, r, b) \in Children /\ Len(Replaced(H, r, b)) = Len(C)
        /\ \A j \in 1 .. Len(C) : Replaced(H, r, b)[j] = IF j = r THEN b ELSE H[j]
    BY <1>1, <2>1, ReplacedAt
  <2> HIDE DEF B
  <2>3. D \in Children /\ Len(D) = Len(C)
        /\ \A j \in 1 .. Len(C) : D[j] = IF j = l THEN a ELSE B[j]
    BY <1>1, <1>6, ReplacedAt
  <2> HIDE DEF D
  <2>4. \A j \in 1 .. Len(C) : D[j] = Replaced(H, r, b)[j]
    BY <1>1, <1>4, <1>6, <2>1, <2>2, <2>3
  <2> QED
    BY <2>2, <2>3, <2>4, SeqEqual DEF Children, H
<1> QED
  BY <1>9, <1>10, <1>11, Zenon DEF r

\* A child that holds nothing comes or goes.
LEMMA FamilyOpened ==
  ASSUME NEW C, NEW E, Family(C, E), NEW i \in 1 .. Len(C) + 1
  PROVE  Family(InsertAt(C, i, << >>), E)
<1> DEFINE none == << >>
           D == InsertAt(C, i, none)
<1>1. none \in Keys /\ Sorted(none) /\ Range(none) = {} /\ Len(C) \in Nat /\ C \in Seq(Keys)
  BY DEF Keys, Sorted, Range, Family, Children
<1> HIDE DEF none
<1>2. D \in Seq(Keys) /\ Len(D) = Len(C) + 1
      /\ \A j \in 1 .. Len(C) + 1 :
           D[j] = IF j < i THEN C[j] ELSE IF j = i THEN none ELSE C[j - 1]
  <2>1. D \in Seq(Keys) /\ IsInserted(D, C, i, none)
    BY <1>1, InsertedRead
  <2> QED
    BY <2>1 DEF IsInserted
<1> HIDE DEF D
<1>3. Chained(D)
  <2>1. ASSUME NEW j \in 1 .. Len(D) PROVE Sorted(D[j])
    <3> DEFINE m == IF j < i THEN j ELSE j - 1
    <3>1. CASE j = i
      BY <3>1, <1>1, <1>2
    <3>2. CASE j # i
      <4>1. D[j] = C[m]
        BY <3>2, <1>2
      <4>2. m \in 1 .. Len(C)
        BY <3>2, <1>1, <1>2
      <4> HIDE DEF m
      <4> QED
        BY <4>1, <4>2 DEF Family, Chained
    <3> QED
      BY <3>1, <3>2
  <2>2. ASSUME NEW j \in 1 .. Len(D), NEW k \in 1 .. Len(D), j < k
        PROVE  Before(Range(D[j]), Range(D[k]))
    <3> DEFINE m == IF j < i THEN j ELSE j - 1
               n == IF k < i THEN k ELSE k - 1
    <3>1. CASE j = i \/ k = i
      BY <3>1, <1>1, <1>2 DEF Before
    <3>2. CASE j # i /\ k # i
      <4>1. D[j] = C[m] /\ D[k] = C[n]
        BY <3>2, <1>2
      <4>2. m \in 1 .. Len(C) /\ n \in 1 .. Len(C) /\ m < n
        BY <2>2, <3>2, <1>1, <1>2
      <4> HIDE DEF m, n
      <4> QED
        BY <4>1, <4>2 DEF Family, Chained
    <3> QED
      BY <3>1, <3>2
  <2> QED
    BY <2>1, <2>2 DEF Chained
<1>4. Holding(D, E)
  <2>1. ASSUME NEW x \in E PROVE \E j \in 1 .. Len(D) : x \in Range(D[j])
    <3>1. PICK j \in 1 .. Len(C) : x \in Range(C[j])
      BY <2>1 DEF Family, Holding
    <3> DEFINE n == j + 1
    <3>2. n \in 1 .. Len(D) /\ n = j + 1 /\ j = n - 1 /\ j \in 1 .. Len(D)
      BY <1>1, <1>2
    <3> HIDE DEF n
    <3>3. CASE j < i
      BY <3>1, <3>2, <3>3, <1>2
    <3>4. CASE j >= i
      <4>1. D[n] = C[n - 1]
        BY <3>2, <3>4, <1>2
      <4> QED
        BY <3>1, <3>2, <4>1
    <3> QED
      BY <3>3, <3>4, <3>2
  <2>2. ASSUME NEW j \in 1 .. Len(D), NEW x \in Range(D[j]) PROVE x \in E
    <3> DEFINE m == j - 1
    <3>1. (j < i => j \in 1 .. Len(C)) /\ (j > i => m \in 1 .. Len(C)) /\ m = j - 1 /\ j # i
      BY <1>1, <1>2, <2>2
    <3> HIDE DEF m
    <3>2. D[j] = IF j < i THEN C[j] ELSE C[m]
      BY <3>1, <1>2
    <3> QED
      BY <2>2, <3>1, <3>2 DEF Family, Holding
  <2> QED
    BY <2>1, <2>2 DEF Holding
<1> QED
  BY <1>2, <1>3, <1>4 DEF Family, Children, D, none

LEMMA FamilyClosed ==
  ASSUME NEW C, NEW E, Family(C, E), NEW i \in 1 .. Len(C), C[i] = << >>
  PROVE  Family(RemoveAt(C, i), E)
<1> DEFINE D == RemoveAt(C, i)
<1>1. Len(C) \in Nat /\ C \in Seq(Keys) /\ Range(C[i]) = {}
  BY DEF Family, Children, Range
<1>2. D \in Seq(Keys) /\ Len(D) = Len(C) - 1
      /\ \A j \in 1 .. Len(C) - 1 : D[j] = IF j < i THEN C[j] ELSE C[j + 1]
  BY <1>1, Removed
<1> HIDE DEF D
<1>3. Chained(D)
  <2>1. ASSUME NEW j \in 1 .. Len(D) PROVE Sorted(D[j])
    <3> DEFINE m == j + 1
    <3>1. j \in 1 .. Len(C) /\ m \in 1 .. Len(C) /\ m = j + 1
      BY <1>1, <1>2
    <3>2. D[j] = C[j] \/ D[j] = C[m]
      BY <1>2
    <3> HIDE DEF m
    <3> QED
      BY <3>1, <3>2 DEF Family, Chained
  <2>2. ASSUME NEW j \in 1 .. Len(D), NEW k \in 1 .. Len(D), j < k
        PROVE  Before(Range(D[j]), Range(D[k]))
    <3> DEFINE m == IF j < i THEN j ELSE j + 1
               n == IF k < i THEN k ELSE k + 1
    <3>1. D[j] = C[m] /\ D[k] = C[n]
      BY <1>2
    <3>2. m \in 1 .. Len(C) /\ n \in 1 .. Len(C) /\ m < n
      BY <2>2, <1>1, <1>2
    <3> HIDE DEF m, n
    <3> QED
      BY <3>1, <3>2 DEF Family, Chained
  <2> QED
    BY <2>1, <2>2 DEF Chained
<1>4. Holding(D, E)
  <2>1. ASSUME NEW x \in E PROVE \E j \in 1 .. Len(D) : x \in Range(D[j])
    <3>1. PICK j \in 1 .. Len(C) : x \in Range(C[j])
      BY <2>1 DEF Family, Holding
    <3> DEFINE n == IF j < i THEN j ELSE j - 1
    <3>2. j # i
      BY <3>1, <1>1
    <3>3. n \in 1 .. Len(D) /\ D[n] = C[j]
      BY <3>2, <1>1, <1>2
    <3> QED
      BY <3>1, <3>3
  <2>2. ASSUME NEW j \in 1 .. Len(D), NEW x \in Range(D[j]) PROVE x \in E
    <3> DEFINE m == IF j < i THEN j ELSE j + 1
    <3>1. D[j] = C[m]
      BY <1>2
    <3>2. m \in 1 .. Len(C)
      BY <1>1, <1>2
    <3> HIDE DEF m
    <3> QED
      BY <2>2, <3>1, <3>2 DEF Family, Holding
  <2> QED
    BY <2>1, <2>2 DEF Holding
<1> QED
  BY <1>2, <1>3, <1>4 DEF Family, Children, D

(***************************************************************************)
(* The blocks below the root: child i is in block P[i].                    *)
(***************************************************************************)
Firsts(C) == [i \in 1 .. Len(C) |-> C[i][1]]
Tree(C, P, kids) ==
  /\ P \in Seq(Block) /\ Len(P) = Len(C)
  /\ \A i, j \in 1 .. Len(P) : P[i] = P[j] => i = j
  /\ \A q : q \in DOMAIN kids <=> \E i \in 1 .. Len(P) : q = P[i]
  /\ \A i \in 1 .. Len(P) : kids[P[i]] = C[i]

LEMMA FirstsOf ==
  ASSUME NEW C \in Children, Full(C)
  PROVE  /\ Firsts(C) \in Keys /\ Len(Firsts(C)) = Len(C) /\ Len(C) \in Nat
         /\ Of(Len(C), Firsts(C))
         /\ \A i \in 1 .. Len(C) : Firsts(C)[i] = C[i][1] /\ C[i] \in Keys /\ C[i] # << >>
<1> DEFINE n == Len(C)
           F == Firsts(C)
<1>1. n \in Nat /\ \A i \in 1 .. n : C[i] \in Keys /\ C[i] # << >>
  BY DEF Children, Full
<1>2. \A i \in 1 .. n : C[i][1] \in Key
  <2>1. ASSUME NEW i \in 1 .. n PROVE C[i][1] \in Key
    <3> DEFINE s == C[i]
    <3>1. s \in Keys /\ s # << >>
      BY <1>1
    <3> HIDE DEF s
    <3>2. Len(s) > 0 /\ Len(s) \in Nat /\ \A j \in 1 .. Len(s) : s[j] \in Key
      BY <3>1, RangeOf
    <3> QED
      BY <3>2 DEF s
  <2> QED
    BY <2>1
<1>3. F \in [1 .. n -> Key] /\ \A i \in 1 .. n : F[i] = C[i][1]
  BY <1>2 DEF Firsts
<1> HIDE DEF F, n
<1>4. F \in Seq(Key) /\ Len(F) = n
  BY <1>1, <1>3, FunctionSeq
<1>5. Of(n, F)
  BY <1>4, OfItsLength
<1> QED
  BY <1>1, <1>3, <1>4, <1>5 DEF n, F, Keys

LEMMA TreeOpened ==
  ASSUME NEW C \in Children, NEW P, NEW kids, Tree(C, P, kids),
         NEW D, NEW to, NEW i \in 1 .. Len(C) + 1, NEW p \in Block \ DOMAIN kids,
         D \in Children, Len(D) = Len(C) + 1, DOMAIN to = DOMAIN kids \cup {p}, to[p] = D[i],
         \A j \in 1 .. Len(C) : to[P[j]] = IF j < i THEN D[j] ELSE D[j + 1]
  PROVE  Tree(D, InsertAt(P, i, p), to)
<1> DEFINE Q == InsertAt(P, i, p)
<1>1. P \in Seq(Block) /\ Len(P) = Len(C) /\ Len(C) \in Nat
  BY DEF Tree, Children
<1>2. Q \in Seq(Block) /\ Len(Q) = Len(C) + 1
      /\ \A j \in 1 .. Len(C) + 1 : Q[j] = IF j < i THEN P[j] ELSE IF j = i THEN p ELSE P[j - 1]
  <2>1. p \in Block /\ i \in 1 .. Len(P) + 1
    BY <1>1
  <2>2. Q \in Seq(Block) /\ IsInserted(Q, P, i, p)
    BY <1>1, <2>1, InsertedRead
  <2> QED
    BY <1>1, <2>2 DEF IsInserted
<1> HIDE DEF Q
<1>3. \A j \in 1 .. Len(C) : P[j] \in DOMAIN kids /\ P[j] # p
  BY <1>1 DEF Tree
<1>4. ASSUME NEW j \in 1 .. Len(Q), NEW k \in 1 .. Len(Q), j # k PROVE Q[j] # Q[k]
  <2> DEFINE m == IF j < i THEN j ELSE j - 1
             n == IF k < i THEN k ELSE k - 1
  <2>1. j # i => Q[j] = P[m] /\ m \in 1 .. Len(C)
    BY <1>1, <1>2
  <2>2. k # i => Q[k] = P[n] /\ n \in 1 .. Len(C)
    BY <1>1, <1>2
  <2>3. j # i /\ k # i => m # n
    BY <1>4, <1>2
  <2>4. (j = i => Q[j] = p) /\ (k = i => Q[k] = p)
    BY <1>2
  <2> HIDE DEF m, n
  <2> QED
    BY <2>1, <2>2, <2>3, <2>4, <1>1, <1>3, <1>4 DEF Tree
<1>5. ASSUME NEW q \in DOMAIN to PROVE \E j \in 1 .. Len(Q) : q = Q[j]
  <2>1. CASE q = p
    BY <2>1, <1>2
  <2>2. CASE q # p
    <3>1. PICK j \in 1 .. Len(C) : q = P[j]
      BY <1>1, <1>5, <2>2 DEF Tree
    <3> DEFINE n == IF j < i THEN j ELSE j + 1
    <3>2. n \in 1 .. Len(Q) /\ Q[n] = P[j]
      BY <1>1, <1>2
    <3> QED
      BY <3>1, <3>2
  <2> QED
    BY <2>1, <2>2
<1>6. ASSUME NEW j \in 1 .. Len(Q) PROVE Q[j] \in DOMAIN to /\ to[Q[j]] = D[j]
  <2> DEFINE m == IF j < i THEN j ELSE j - 1
  <2>1. CASE j = i
    BY <2>1, <1>2
  <2>2. CASE j # i
    <3>1. Q[j] = P[m] /\ m \in 1 .. Len(C)
      BY <2>2, <1>1, <1>2
    <3>2. D[j] = IF m < i THEN D[m] ELSE D[m + 1]
      BY <2>2, <1>2
    <3> HIDE DEF m
    <3> QED
      BY <3>1, <3>2, <1>3
  <2> QED
    BY <2>1, <2>2
<1> QED
  BY <1>1, <1>2, <1>4, <1>5, <1>6 DEF Tree, Q

LEMMA TreeClosed ==
  ASSUME NEW C \in Children, NEW P, NEW kids, Tree(C, P, kids),
         NEW D, NEW to, NEW i \in 1 .. Len(C),
         D \in Children, Len(D) = Len(C) - 1, DOMAIN to = DOMAIN kids \ {P[i]},
         \A j \in 1 .. Len(C) : j # i => to[P[j]] = IF j < i THEN D[j] ELSE D[j - 1]
  PROVE  Tree(D, RemoveAt(P, i), to)
<1> DEFINE Q == RemoveAt(P, i)
<1>1. P \in Seq(Block) /\ Len(P) = Len(C) /\ Len(C) \in Nat
  BY DEF Tree, Children
<1>2. Q \in Seq(Block) /\ Len(Q) = Len(C) - 1
      /\ \A j \in 1 .. Len(C) - 1 : Q[j] = IF j < i THEN P[j] ELSE P[j + 1]
  BY <1>1, Removed
<1> HIDE DEF Q
<1>3. \A j \in 1 .. Len(C) : P[j] \in DOMAIN kids /\ (j # i => P[j] # P[i])
  BY <1>1 DEF Tree
<1>4. ASSUME NEW j \in 1 .. Len(Q), NEW k \in 1 .. Len(Q), j # k PROVE Q[j] # Q[k]
  <2> DEFINE m == IF j < i THEN j ELSE j + 1
             n == IF k < i THEN k ELSE k + 1
  <2>1. Q[j] = P[m] /\ Q[k] = P[n]
    BY <1>2
  <2>2. m \in 1 .. Len(C) /\ n \in 1 .. Len(C)
    BY <1>1, <1>2
  <2>3. m # n
    BY <1>4, <1>2
  <2> HIDE DEF m, n
  <2> QED
    BY <2>1, <2>2, <2>3, <1>1 DEF Tree
<1>5. ASSUME NEW q \in DOMAIN to PROVE \E j \in 1 .. Len(Q) : q = Q[j]
  <2>1. PICK j \in 1 .. Len(C) : q = P[j]
    BY <1>1, <1>5 DEF Tree
  <2> DEFINE n == IF j < i THEN j ELSE j - 1
  <2>2. j # i
    BY <2>1, <1>5
  <2>3. n \in 1 .. Len(Q) /\ Q[n] = P[j]
    BY <2>2, <1>1, <1>2
  <2> QED
    BY <2>1, <2>3
<1>6. ASSUME NEW j \in 1 .. Len(Q) PROVE Q[j] \in DOMAIN to /\ to[Q[j]] = D[j]
  <2> DEFINE m == IF j < i THEN j ELSE j + 1
  <2>1. Q[j] = P[m] /\ m \in 1 .. Len(C) /\ m # i
    BY <1>1, <1>2
  <2>2. D[j] = IF m < i THEN D[m] ELSE D[m - 1]
    BY <1>2
  <2> HIDE DEF m
  <2> QED
    BY <2>1, <2>2, <1>3
<1> QED
  BY <1>1, <1>2, <1>4, <1>5, <1>6 DEF Tree, Q

\* A block that is not in use can be had, for as many as a root in the inode names.
LEMMA FreshThere ==
  ASSUME NEW C \in Children, NEW P, Tree(C, P, below), Len(C) <= DMaxRecs(Whole)
  PROVE  Fresh \in Block \ DOMAIN below
<1>1. P \in Seq(Block) /\ Len(P) = Len(C) /\ Len(C) \in Nat
  BY DEF Tree, Children
<1> DEFINE n == Len(C)
           I == 1 .. n
<1>2. IsFiniteSet(I) /\ Cardinality(I) = n
  <2> HIDE DEF n
  <2>1. n \in Nat
    BY <1>1 DEF n
  <2> QED
    BY <2>1, FS_Interval
<1>3. \A q \in DOMAIN below : \E j \in I : q = P[j]
  BY <1>1 DEF Tree
<1>4. ASSUME Block \subseteq DOMAIN below PROVE FALSE
  <2> DEFINE B == {P[j] : j \in I}
             f == [j \in I |-> P[j]]
  <2>1. f \in Surjection(I, B)
    BY DEF Surjection
  <2> HIDE DEF f, I, B
  <2>2. IsFiniteSet(B) /\ Cardinality(B) <= Cardinality(I)
    BY <2>1, <1>2, FS_Surjection
  <2>3. Block \subseteq B
    BY <1>3, <1>4 DEF B
  <2>4. Cardinality(Block) <= Cardinality(B)
    BY <2>2, <2>3, FS_Subset
  <2>5. Cardinality(Block) \in Nat /\ Cardinality(B) \in Nat /\ DMaxRecs(Whole) \in Int
    BY <2>2, SizeAssumption, FS_CardinalityType DEF DMaxRecs, BmdrLen
  <2> QED
    BY <2>2, <2>4, <2>5, <1>1, <1>2, SizeAssumption
<1> QED
  BY <1>4 DEF Fresh

(***************************************************************************)
(* What a root is at any time: none, one over leaves, or one over blocks.  *)
(***************************************************************************)
NoTree(b, kids, E) == b = NoRoot /\ DOMAIN kids = {} /\ E = {}
One(K, b, kids, E, n) ==
  /\ K # << >> /\ Sorted(K) /\ Range(K) = E /\ Len(K) <= n
  /\ DOMAIN kids = {} /\ b = Root(1, K, Leaves(K))
Two(C, P, b, kids, E, n) ==
  /\ Family(C, E) /\ Full(C) /\ Len(C) \in 1 .. n
  /\ Tree(C, P, kids) /\ b = Root(2, Firsts(C), P)
Shape(b, kids, E, n) ==
  \/ NoTree(b, kids, E)
  \/ \E K \in Keys : One(K, b, kids, E, n)
  \/ \E C \in Children : \E P \in Seq(Block) : Two(C, P, b, kids, E, n)

\* The pointers of the blocks lead to the leaves, where there are blocks.
PtrsOf(E) == [x \in E |-> Leaf(x)]
Along(b, ptr, E) == ptr = IF b.level = 2 THEN PtrsOf(E) ELSE << >>

LEMMA OneShape ==
  ASSUME NEW b, NEW kids, NEW E, NEW n, NEW K \in Keys, One(K, b, kids, E, n)
  PROVE  Shape(b, kids, E, n)
BY Zenon DEF Shape

LEMMA TwoShape ==
  ASSUME NEW b, NEW kids, NEW E, NEW n, NEW C, NEW P, Two(C, P, b, kids, E, n)
  PROVE  Shape(b, kids, E, n)
<1>1. C \in Children /\ P \in Seq(Block)
  BY DEF Two, Family, Tree
<1> QED
  BY <1>1, Zenon DEF Shape

LEMMA OneRead ==
  ASSUME NEW b, NEW kids, NEW E, NEW n, NEW K \in Keys, One(K, b, kids, E, n)
  PROVE  /\ Len(K) \in Nat \ {0} /\ Of(Len(K), K) /\ Of(Len(K), Leaves(K))
         /\ Cap(b) = Len(K) /\ b.bytes = Space(Len(K)) /\ b.bytes > 0 /\ b.bytes # 0
         /\ b.level = 1 /\ b.recs = Len(K) /\ b.area = AreaOf(K, Leaves(K))
         /\ RootKeys(b) = K /\ RootPtrs(b) = Leaves(K)
         /\ \A i \in 1 .. Len(K) : KeyAt(b, i) = K[i] /\ PtrAt(b, i) = Leaf(K[i])
<1> DEFINE m == Len(K)
           B == Leaves(K)
<1>1. m \in Nat \ {0} /\ Of(m, K)
  BY RangeOf, OfItsLength DEF One, Keys
<1>2. B \in Seq(Unit) /\ Len(B) = m /\ \A i \in 1 .. m : B[i] = Leaf(K[i])
  BY LeavesOf
<1>3. Of(m, B)
  BY <1>2, OfItsLength
<1>4. b = Root(1, K, B)
  BY DEF One
<1> HIDE DEF m, B
<1>5. LET c == Root(1, K, B) IN
      /\ Cap(c) = m /\ c.bytes = Space(m) /\ c.bytes > 0 /\ c.bytes # 0
      /\ c.level = 1 /\ c.recs = m /\ c.area = AreaOf(K, B) /\ DOMAIN c.area = 1 .. 2 * m
      /\ RootKeys(c) = K /\ RootPtrs(c) = B
      /\ \A i \in 1 .. m : KeyAt(c, i) = K[i] /\ PtrAt(c, i) = B[i]
  <2> DEFINE one == 1
  <2> HIDE DEF one
  <2>1. LET c == Root(one, K, B) IN
        /\ Cap(c) = m /\ c.bytes = Space(m) /\ c.bytes > 0 /\ c.bytes # 0
        /\ c.level = one /\ c.recs = m /\ c.area = AreaOf(K, B) /\ DOMAIN c.area = 1 .. 2 * m
        /\ RootKeys(c) = K /\ RootPtrs(c) = B
        /\ \A i \in 1 .. m : KeyAt(c, i) = K[i] /\ PtrAt(c, i) = B[i]
    BY <1>1, <1>3, RootRead
  <2> QED
    BY <2>1 DEF one
<1> QED
  BY <1>1, <1>2, <1>3, <1>4, <1>5 DEF m, B

LEMMA TwoRead ==
  ASSUME NEW b, NEW kids, NEW E, NEW n, NEW C, NEW P, Two(C, P, b, kids, E, n)
  PROVE  /\ C \in Children /\ Len(C) \in Nat \ {0}
         /\ Firsts(C) \in Keys /\ Of(Len(C), Firsts(C)) /\ P \in Seq(Block) /\ Of(Len(C), P)
         /\ Cap(b) = Len(C) /\ b.bytes = Space(Len(C)) /\ b.bytes > 0 /\ b.bytes # 0
         /\ b.level = 2 /\ b.recs = Len(C) /\ b.area = AreaOf(Firsts(C), P)
         /\ RootKeys(b) = Firsts(C) /\ RootPtrs(b) = P
         /\ \A i \in 1 .. Len(C) : /\ KeyAt(b, i) = C[i][1] /\ PtrAt(b, i) = P[i]
                                   /\ P[i] \in DOMAIN kids /\ kids[P[i]] = C[i]
                                   /\ C[i] \in Keys /\ Sorted(C[i]) /\ C[i] # << >>
<1> DEFINE m == Len(C)
           F == Firsts(C)
<1>1. C \in Children /\ m \in Nat \ {0} /\ P \in Seq(Block) /\ Len(P) = m
  BY DEF Two, Family, Tree, Children
<1>2. F \in Keys /\ Of(m, F) /\ \A i \in 1 .. m : F[i] = C[i][1] /\ C[i] \in Keys /\ C[i] # << >>
  BY <1>1, FirstsOf DEF Two
<1>3. Of(m, P)
  BY <1>1, OfItsLength
<1>4. b = Root(2, F, P)
  BY DEF Two
<1>5. \A i \in 1 .. m : P[i] \in DOMAIN kids /\ kids[P[i]] = C[i] /\ Sorted(C[i])
  BY <1>1 DEF Two, Tree, Family, Chained
<1> HIDE DEF m, F
<1>6. LET c == Root(2, F, P) IN
      /\ Cap(c) = m /\ c.bytes = Space(m) /\ c.bytes > 0 /\ c.bytes # 0
      /\ c.level = 2 /\ c.recs = m /\ c.area = AreaOf(F, P) /\ DOMAIN c.area = 1 .. 2 * m
      /\ RootKeys(c) = F /\ RootPtrs(c) = P
      /\ \A i \in 1 .. m : KeyAt(c, i) = F[i] /\ PtrAt(c, i) = P[i]
  <2> DEFINE two == 2
  <2> HIDE DEF two
  <2>1. LET c == Root(two, F, P) IN
        /\ Cap(c) = m /\ c.bytes = Space(m) /\ c.bytes > 0 /\ c.bytes # 0
        /\ c.level = two /\ c.recs = m /\ c.area = AreaOf(F, P) /\ DOMAIN c.area = 1 .. 2 * m
        /\ RootKeys(c) = F /\ RootPtrs(c) = P
        /\ \A i \in 1 .. m : KeyAt(c, i) = F[i] /\ PtrAt(c, i) = P[i]
    <3>1. m \in Nat /\ Of(m, F) /\ Of(m, P)
      BY <1>1, <1>2, <1>3
    <3> QED
      BY <3>1, RootRead
  <2> QED
    BY <2>1 DEF two
<1> QED
  BY <1>1, <1>2, <1>3, <1>4, <1>5, <1>6 DEF m, F

\* xfs_btree_kill_iroot leaves a root of the same leaves.
LEMMA RootKilled ==
  ASSUME NEW b, NEW kids, NEW E, NEW C, NEW P, Two(C, P, b, kids, E, DMaxRecs(fork)),
         NEW touched, KillIroot(b, kids, PtrsOf(E), touched)
  PROVE  Shape(broot', below', E, DMaxRecs(fork)) /\ Along(broot', ptrs', E)
<1>1. CASE ~ Lifts(b, kids)
  <2>1. broot' = b /\ below' = kids /\ ptrs' = PtrsOf(E)
    BY <1>1, Zenon DEF KillIroot
  <2>2. Shape(broot', below', E, DMaxRecs(fork))
    BY <2>1, TwoShape, Zenon
  <2> DEFINE n == DMaxRecs(fork)
  <2>3. Two(C, P, b, kids, E, n)
    OBVIOUS
  <2> HIDE DEF n
  <2>4. b.level = 2
    BY <2>3, TwoRead
  <2> QED
    BY <2>1, <2>2, <2>4, Zenon DEF Along
<1>2. CASE Lifts(b, kids)
  <2> DEFINE p == PtrAt(b, 1)
             keys == kids[p]
             n == Len(keys)
             L == Leaves(keys)
  <2>1. /\ Len(C) = 1 /\ p = P[1] /\ keys = C[1] /\ keys \in Keys /\ keys # << >> /\ Sorted(keys)
        /\ Firsts(C) = <<keys[1]>> /\ P = <<p>> /\ b.level = 2 /\ P \in Seq(Block)
    <3>0. b.recs = 1
      BY <1>2 DEF Lifts
    <3>1. b.recs = 1 /\ Len(C) = 1
      <4> DEFINE d == DMaxRecs(fork)
      <4>1. Two(C, P, b, kids, E, d)
        OBVIOUS
      <4> HIDE DEF d
      <4>2. b.recs = Len(C)
        BY <4>1, TwoRead
      <4> QED
        BY <4>2, <3>0
    <3>2. /\ p = P[1] /\ keys = C[1] /\ keys \in Keys /\ keys # << >> /\ Sorted(keys)
          /\ Of(1, Firsts(C)) /\ Of(1, P) /\ b.level = 2 /\ P \in Seq(Block)
      BY <3>1, TwoRead
    <3>3. Firsts(C) = [i \in 1 .. 1 |-> C[i][1]] /\ P = [i \in 1 .. 1 |-> P[i]]
      BY <3>1, <3>2 DEF Firsts, Of
    <3>4. Firsts(C) = <<keys[1]>> /\ P = <<p>>
      BY <3>2, <3>3
    <3> QED
      BY <3>1, <3>2, <3>4
  <2>2. n \in Nat \ {0} /\ Of(n, keys) /\ n <= DMaxRecs(fork)
    BY <2>1, <1>2, RangeOf, OfItsLength DEF Keys, Lifts
  <2>3. L \in Seq(Unit) /\ Len(L) = n
    BY <2>1, LeavesOf
  <2>4. Of(n, L)
    BY <2>3, OfItsLength
  <2>9. Range(keys) = E
    <3>1. \A x : x \in E <=> x \in Range(keys)
      BY <2>1 DEF Two, Family, Holding
    <3> QED
      BY <3>1
  <2>5. broot' = Lowered(b, keys, L) /\ DOMAIN below' = DOMAIN kids \ {p} /\ ptrs' = << >>
    <3> DEFINE M == [i \in DOMAIN keys |-> PtrsOf(E)[keys[i]]]
    <3>1. broot' = Lowered(b, keys, M) /\ DOMAIN below' = DOMAIN kids \ {p} /\ ptrs' = << >>
      BY <1>2 DEF KillIroot, Lowered
    <3>2. M = L
      <4> HIDE DEF keys
      <4>1. \A i \in DOMAIN keys : keys[i] \in E
        BY <2>1, <2>9, RangeOf
      <4>2. \A i \in DOMAIN keys : PtrsOf(E)[keys[i]] = Leaf(keys[i])
        BY <4>1 DEF PtrsOf
      <4> QED
        BY <4>2 DEF Leaves
    <3> QED
      BY <3>1, <3>2, Zenon
  <2>6. b = Root(2, <<keys[1]>>, <<p>>)
    BY <2>1, Zenon DEF Two
  <2>7. broot' = Root(1, keys, L)
    <3> DEFINE k == keys[1]
    <3>1. broot' = Lowered(Root(2, <<k>>, <<p>>), keys, L)
      BY <2>5, <2>6, Zenon
    <3> HIDE DEF k, p, keys, n, L
    <3> QED
      BY <2>2, <2>4, <3>1, RootLowered
  <2>8. DOMAIN below' = {}
    <3>1. \A q \in DOMAIN kids : q = p
      BY <2>1 DEF Two, Tree
    <3> QED
      BY <3>1, <2>5
  <2> HIDE DEF p, keys, n, L
  <2>10. One(keys, broot', below', E, DMaxRecs(fork))
    BY <2>1, <2>2, <2>7, <2>8, <2>9 DEF One, L, n
  <2>11. broot'.level = 1
    BY <2>7 DEF Root, Buffer
  <2>12. Along(broot', ptrs', E)
    BY <2>5, <2>11 DEF Along
  <2> QED
    BY <2>1, <2>10, <2>12, OneShape
<1> QED
  BY <1>1, <1>2

LEMMA LevelOne ==
  ASSUME NEW b, NEW kids, NEW E, NEW n, Shape(b, kids, E, n), b.level = 1
  PROVE  \E K \in Keys : One(K, b, kids, E, n)
<1>1. CASE NoTree(b, kids, E)
  BY <1>1 DEF NoTree, NoRoot
<1>2. ASSUME NEW C \in Children, NEW P \in Seq(Block), Two(C, P, b, kids, E, n) PROVE FALSE
  <2>1. b.level = 2
    BY <1>2, TwoRead
  <2> QED
    BY <2>1
<1> QED
  BY <1>1, <1>2 DEF Shape

LEMMA LevelTwo ==
  ASSUME NEW b, NEW kids, NEW E, NEW n, Shape(b, kids, E, n), b.level = 2
  PROVE  \E C \in Children : \E P \in Seq(Block) : Two(C, P, b, kids, E, n)
<1>1. CASE NoTree(b, kids, E)
  BY <1>1 DEF NoTree, NoRoot
<1>2. ASSUME NEW K \in Keys, One(K, b, kids, E, n) PROVE FALSE
  <2>1. b.level = 1
    BY <1>2, OneRead
  <2> QED
    BY <2>1
<1> QED
  BY <1>1, <1>2 DEF Shape

LEMMA LevelNone ==
  ASSUME NEW b, NEW kids, NEW E, NEW n, Shape(b, kids, E, n), b.bytes = 0
  PROVE  NoTree(b, kids, E)
<1>1. ASSUME NEW K \in Keys, One(K, b, kids, E, n) PROVE FALSE
  <2>1. b.bytes # 0
    BY <1>1, OneRead
  <2> QED
    BY <2>1
<1>2. ASSUME NEW C \in Children, NEW P \in Seq(Block), Two(C, P, b, kids, E, n) PROVE FALSE
  <2>1. b.bytes # 0
    BY <1>2, TwoRead
  <2> QED
    BY <2>1
<1> QED
  BY <1>1, <1>2 DEF Shape

LEMMA NoneLeft ==
  ASSUME NEW b, NEW kids, NEW n, Shape(b, kids, {}, n)
  PROVE  NoTree(b, kids, {})
<1>1. ASSUME NEW K \in Keys, One(K, b, kids, {}, n) PROVE FALSE
  <2>1. K # << >> /\ Range(K) = {}
    BY <1>1 DEF One
  <2> QED
    BY <2>1, BeginsWithKey
<1>2. ASSUME NEW C \in Children, NEW P \in Seq(Block), Two(C, P, b, kids, {}, n) PROVE FALSE
  <2>1. Len(C) \in Nat \ {0} /\ 1 \in 1 .. Len(C)
    <3>1. Len(C) \in Nat \ {0}
      BY <1>2, TwoRead
    <3> QED
      BY <3>1
  <2>2. C[1] \in Keys /\ C[1] # << >>
    BY <1>2, <2>1, TwoRead
  <2>3. C[1][1] \in Range(C[1])
    BY <2>2, BeginsWithKey
  <2> QED
    BY <1>2, <2>1, <2>3 DEF Two, Family, Holding
<1> QED
  BY <1>1, <1>2 DEF Shape

\* One block with all the keys there are.
LEMMA Alone ==
  ASSUME NEW T \in Keys, T # << >>, Sorted(T), NEW p \in Block, NEW kids, NEW n \in Nat \ {0},
         DOMAIN kids = {p}, kids[p] = T
  PROVE  Two(<<T>>, <<p>>, Root(2, <<T[1]>>, <<p>>), kids, Range(T), n)
<1>1. /\ <<T>> \in Children /\ Len(<<T>>) = 1 /\ <<T>>[1] = T
      /\ <<p>> \in Seq(Block) /\ Len(<<p>>) = 1 /\ <<p>>[1] = p
  BY DEF Children
<1>2. Chained(<<T>>) /\ Holding(<<T>>, Range(T)) /\ Full(<<T>>)
  BY <1>1 DEF Chained, Holding, Full
<1>3. Tree(<<T>>, <<p>>, kids)
  BY <1>1 DEF Tree
<1>4. Firsts(<<T>>) = <<T[1]>>
  BY <1>1 DEF Firsts
<1> QED
  BY <1>1, <1>2, <1>3, <1>4 DEF Two, Family

LEMMA BeginStep ==
  ASSUME NEW n \in Nat \ {0}, Shape(broot, below, entries, n), NEW k \in Key, ToBtree(k),
         Along(broot, ptrs, entries)
  PROVE  Shape(broot', below', entries', n) /\ Along(broot', ptrs', entries')
<1> DEFINE K == <<k>>
           L == <<Leaf(k)>>
<1>1. broot = NoRoot /\ DOMAIN below = {} /\ below' = below /\ entries' = {k}
  BY LevelNone DEF ToBtree, NoTree, Changed
<1>2. broot' = Root(1, K, L)
  <2>1. broot' = Put([Realloc(NoRoot, 1) EXCEPT !.level = 1, !.recs = 1], K, L)
    BY <1>1 DEF ToBtree
  <2> DEFINE one == 1
  <2>2. one \in Nat \ {0} /\ Of(one, K) /\ Of(one, L)
    BY DEF Of
  <2>3. broot' = Made(one, one, K, L)
    BY <2>1, Zenon DEF Made, one
  <2> HIDE DEF one, K, L
  <2>4. Made(one, one, K, L) = Root(one, K, L)
    BY <2>2, RootMade
  <2> QED
    BY <2>3, <2>4 DEF one
<1>3. K \in Keys /\ K # << >> /\ Len(K) = 1 /\ Sorted(K) /\ Range(K) = {k} /\ Leaves(K) = L
  <2>1. K \in Keys /\ Len(K) = 1 /\ K[1] = k /\ K # << >> /\ DOMAIN K = {1}
    BY DEF Keys
  <2>2. Sorted(K) /\ Range(K) = {k}
    BY <2>1 DEF Sorted, Range
  <2>3. Leaves(K) = L
    BY <2>1 DEF Leaves
  <2> QED
    BY <2>1, <2>2, <2>3
<1>4. One(K, broot', below', entries', n)
  <2> HIDE DEF K, L
  <2> QED
    BY <1>1, <1>2, <1>3 DEF One
<1>5. Along(broot', ptrs', entries')
  <2>1. broot.level = 0 /\ ptrs' = ptrs
    BY <1>1 DEF NoRoot, ToBtree
  <2>2. ptrs = << >>
    BY <2>1 DEF Along
  <2>3. broot'.level = 1
    <3> HIDE DEF K, L
    <3> QED
      BY <1>2 DEF Root, Buffer
  <2> QED
    BY <2>1, <2>2, <2>3 DEF Along
<1> QED
  BY <1>3, <1>4, <1>5, OneShape

LEMMA EndStep ==
  ASSUME NEW n \in Nat \ {0}, Shape(broot, below, entries, n), ToExtents,
         Along(broot, ptrs, entries)
  PROVE  Shape(broot', below', entries', n) /\ Along(broot', ptrs', entries')
<1>1. PICK K \in Keys : One(K, broot, below, entries, n)
  BY LevelOne DEF ToExtents
<1>2. Cap(broot) = 1
  <2>1. Cap(broot) = Len(K) /\ broot.recs = Len(K)
    BY <1>1, OneRead
  <2> QED
    BY <2>1 DEF ToExtents
<1>3. broot' = NoRoot
  BY <1>2 DEF ToExtents, Realloc, Shrink
<1>4. DOMAIN below' = {} /\ entries' = {}
  BY <1>1 DEF ToExtents, Changed, One
<1>5. Along(broot', ptrs', entries')
  <2>1. broot.level = 1 /\ ptrs' = ptrs
    BY DEF ToExtents
  <2>2. ptrs = << >>
    BY <2>1 DEF Along
  <2>3. broot'.level = 0
    BY <1>3 DEF NoRoot
  <2> QED
    BY <2>1, <2>2, <2>3 DEF Along
<1> QED
  BY <1>3, <1>4, <1>5 DEF Shape, NoTree

\* What goes out to a block with the keys are the pointers to their leaves.
LEMMA PtrsCopiedOut ==
  ASSUME NEW K \in Keys, NEW E, NEW m, One(K, broot, below, E, m)
  PROVE  CopiedOut(broot) = PtrsOf(E)
<1>1. /\ RootKeys(broot) = K /\ Sorted(K) /\ Range(K) = E
      /\ \A i \in 1 .. Len(K) : PtrAt(broot, i) = Leaf(K[i])
  BY OneRead DEF One
<1>2. ASSUME NEW x \in Range(K) PROVE PtrAt(broot, PlaceOf(K, x)) = Leaf(x)
  <2>1. PlaceOf(K, x) \in 1 .. Len(K) /\ K[PlaceOf(K, x)] = x
    BY <1>1, SortedRemove
  <2> QED
    BY <2>1, <1>1
<1>3. CopiedOut(broot) = [x \in Range(K) |-> PtrAt(broot, PlaceOf(K, x))]
  BY <1>1, Zenon DEF CopiedOut
<1>4. CopiedOut(broot) = [x \in Range(K) |-> Leaf(x)]
  BY <1>2, <1>3
<1> QED
  BY <1>1, <1>4, Zenon DEF PtrsOf

LEMMA PtrsGrow == ASSUME NEW E, NEW k PROVE PtrsAnd(PtrsOf(E), k) = PtrsOf(E \cup {k})
BY DEF PtrsAnd, PtrsOf

LEMMA PtrsShrink == ASSUME NEW E, NEW k, ptrs = PtrsOf(E) PROVE PtrsBut(k) = PtrsOf(E \ {k})
BY DEF PtrsBut, PtrsOf

\* The root's records go to a block of their own, with or without one more.
LEMMA RaiseStep ==
  ASSUME NEW n \in Nat \ {0}, NEW K \in Keys, NEW E, NEW m, One(K, broot, below, E, m),
         NEW T \in Keys, T # << >>, Sorted(T), T[1] = K[1],
         broot' = NewIroot(broot, Fresh), below' = With(Fresh, T)
  PROVE  Shape(broot', below', Range(T), n) /\ broot'.level = 2
<1> DEFINE p == Fresh
           B == Leaves(K)
<1>1. DOMAIN below = {}
  BY DEF One
<1>2. p \in Block
  <2>1. Tree(<< >>, << >>, below)
    BY <1>1 DEF Tree
  <2>2. << >> \in Children /\ 0 <= DMaxRecs(Whole) /\ Len(<< >>) = 0
    BY SizeAssumption DEF Children, DMaxRecs, BmdrLen
  <2> QED
    BY <2>1, <2>2, FreshThere
<1>3. DOMAIN below' = {p} /\ below'[p] = T
  BY <1>1 DEF With
<1>4. broot' = Root(2, <<T[1]>>, <<p>>)
  <2> DEFINE l == Len(K)
             one == 1
             two == 2
  <2>1. broot = Root(one, K, B) /\ l \in Nat \ {0} /\ Of(l, K) /\ Of(l, B) /\ one \in Nat /\ two = one + 1
    BY OneRead DEF One
  <2> HIDE DEF B, l, p, one, two
  <2>2. NewIroot(Root(one, K, B), p) = Root(one + 1, <<K[1]>>, <<p>>)
    BY <2>1, RootRaised
  <2>3. broot' = Root(two, <<T[1]>>, <<p>>)
    BY <2>1, <2>2, Zenon DEF p
  <2> QED
    BY <2>3 DEF two
<1> DEFINE C == <<T>>
           P == <<p>>
<1>5. Two(C, P, broot', below', Range(T), n)
  <2> HIDE DEF p
  <2> QED
    BY <1>2, <1>3, <1>4, Alone
<1>6. broot'.level = 2
  BY <1>4 DEF Root, Buffer
<1> QED
  BY <1>5, <1>6, TwoShape

LEMMA InsertRootStep ==
  ASSUME NEW d \in Nat \ {0}, d = DMaxRecs(fork), NEW K \in Keys, One(K, broot, below, entries, d),
         NEW k \in Key, k \notin entries, NEW e \in entries, e < k, InsertRoot(k),
         Along(broot, ptrs, entries)
  PROVE  Shape(broot', below', entries \cup {k}, d) /\ Along(broot', ptrs', entries \cup {k})
<1> DEFINE i == PlaceOf(K, k)
           T == InsertAt(K, i, k)
           n == Len(K)
<1>1. /\ K # << >> /\ Sorted(K) /\ Range(K) = entries /\ DOMAIN below = {}
      /\ broot = Root(1, K, Leaves(K)) /\ RootKeys(broot) = K /\ broot.recs = n
      /\ n \in Nat \ {0} /\ Of(n, K) /\ Of(n, Leaves(K))
  BY OneRead DEF One
<1>2. T \in Keys /\ Sorted(T) /\ Len(T) = n + 1 /\ Range(T) = entries \cup {k} /\ T[1] = K[1]
  BY <1>1, SortedInsert
<1>3. T # << >>
  BY <1>1, <1>2
<1>4. i \in 1 .. n + 1
  BY <1>1, KeysAreNat, Placed
<1>7. broot.level = 1 /\ ptrs = << >>
  BY DEF InsertRoot, Along
<1>5. CASE broot.recs < DMaxRecs(fork)
  <2>1. broot' = Entered(broot, i, k, Leaf(k)) /\ below' = below /\ ptrs' = ptrs
    BY <1>1, <1>5 DEF InsertRoot
  <2>2. Leaves(T) \in Seq(Unit) /\ Len(Leaves(T)) = n + 1 /\ InsertAt(Leaves(K), i, Leaf(k)) = Leaves(T)
    BY <1>2, <1>4, LeavesOf, LeavesInserted
  <2>3. Of(n + 1, T) /\ Of(n + 1, Leaves(T))
    <3> DEFINE S == Leaves(T)
    <3>1. S \in Seq(Unit) /\ Len(S) = n + 1 /\ Len(T) = n + 1
      BY <2>2, <1>2
    <3>2. Of(Len(S), S) /\ Of(Len(T), T)
      <4> HIDE DEF S, T
      <4> QED
        BY <3>1, <1>2, OfItsLength DEF Keys
    <3> QED
      BY <3>1, <3>2
  <2>4. Entered(Root(1, K, Leaves(K)), i, k, Leaf(k)) = Root(1, T, Leaves(T))
    <3> DEFINE B == Leaves(K)
               l == Leaf(k)
               one == 1
    <3>1. Of(n, K) /\ Of(n, B) /\ Of(n + 1, InsertAt(K, i, k)) /\ Of(n + 1, InsertAt(B, i, l)) /\ n \in Nat
      BY <1>1, <2>2, <2>3
    <3>2. InsertAt(B, i, l) = Leaves(T)
      BY <2>2
    <3> HIDE DEF B, l, n, i, one
    <3>3. Entered(Root(one, K, B), i, k, l) = Root(one, InsertAt(K, i, k), InsertAt(B, i, l))
      BY <3>1, RootEntered
    <3> QED
      BY <3>2, <3>3 DEF B, l, one
  <2> HIDE DEF T, n, i
  <2>5. One(T, broot', below', entries \cup {k}, d)
    BY <1>1, <1>2, <1>3, <1>5, <2>1, <2>4 DEF One
  <2>6. broot'.level = 1
    BY <1>1, <2>1, <2>4 DEF Root, Buffer
  <2>7. Along(broot', ptrs', entries \cup {k})
    BY <1>7, <2>1, <2>6 DEF Along
  <2> QED
    BY <1>2, <2>5, <2>7, OneShape
<1>6. CASE ~ (broot.recs < DMaxRecs(fork))
  <2>1. broot' = NewIroot(broot, Fresh) /\ below' = With(Fresh, T) /\ ptrs' = PtrsAnd(CopiedOut(broot), k)
    BY <1>1, <1>6 DEF InsertRoot
  <2> HIDE DEF T
  <2>2. CopiedOut(broot) = PtrsOf(entries)
    BY PtrsCopiedOut
  <2>3. ptrs' = PtrsOf(entries \cup {k})
    BY <2>1, <2>2, PtrsGrow, Zenon
  <2>4. Shape(broot', below', Range(T), d) /\ broot'.level = 2
    BY <1>2, <1>3, <2>1, RaiseStep
  <2> QED
    BY <1>2, <2>3, <2>4, Zenon DEF Along
<1> QED
  BY <1>5, <1>6

LEMMA DeleteRootStep ==
  ASSUME NEW d \in Nat \ {0}, d = DMaxRecs(fork), NEW K \in Keys, One(K, broot, below, entries, d),
         NEW k \in entries, NEW e \in entries, e < k, DeleteRoot(k),
         Along(broot, ptrs, entries)
  PROVE  Shape(broot', below', entries \ {k}, d) /\ Along(broot', ptrs', entries \ {k})
<1> DEFINE i == PlaceOf(K, k)
           T == RemoveAt(K, i)
           n == Len(K)
<1>1. /\ K # << >> /\ Sorted(K) /\ Range(K) = entries /\ DOMAIN below = {}
      /\ broot = Root(1, K, Leaves(K)) /\ RootKeys(broot) = K /\ broot.recs = n
      /\ n \in Nat \ {0} /\ Of(n, K) /\ Of(n, Leaves(K)) /\ n <= d
  BY OneRead DEF One
<1>2. /\ i \in 1 .. n /\ T \in Keys /\ Sorted(T) /\ Len(T) = n - 1
      /\ Range(T) = entries \ {k} /\ T # << >>
  BY <1>1, SortedRemove
<1>3. n > 1
  BY <1>1, <1>2, RangeOf
<1>4. Leaves(T) \in Seq(Unit) /\ Len(Leaves(T)) = n - 1 /\ RemoveAt(Leaves(K), i) = Leaves(T)
  BY <1>2, LeavesOf, LeavesRemoved
<1>5. Of(n - 1, T) /\ Of(n - 1, Leaves(T))
  <2> DEFINE S == Leaves(T)
  <2>1. S \in Seq(Unit) /\ Len(S) = n - 1 /\ Len(T) = n - 1
    BY <1>2, <1>4
  <2>2. Of(Len(S), S) /\ Of(Len(T), T)
    <3> HIDE DEF S, T
    <3> QED
      BY <2>1, <1>2, OfItsLength DEF Keys
  <2> QED
    BY <2>1, <2>2
<1>6. Left(Root(1, K, Leaves(K)), i) = Root(1, T, Leaves(T))
  <2> DEFINE B == Leaves(K)
             one == 1
  <2>1. Of(n, K) /\ Of(n, B) /\ Of(n - 1, RemoveAt(K, i)) /\ Of(n - 1, RemoveAt(B, i)) /\ n \in Nat /\ n > 1
    BY <1>1, <1>3, <1>4, <1>5
  <2>2. RemoveAt(B, i) = Leaves(T)
    BY <1>4
  <2> HIDE DEF B, n, i, one
  <2>3. Left(Root(one, K, B), i) = Root(one, RemoveAt(K, i), RemoveAt(B, i))
    BY <2>1, RootLeft
  <2> QED
    BY <2>2, <2>3 DEF B, one
<1>7. KillIroot(Root(1, T, Leaves(T)), below, ptrs, TRUE)
  BY <1>1, <1>6 DEF DeleteRoot
<1> HIDE DEF T, n, i
<1>8. One(T, Root(1, T, Leaves(T)), below, entries \ {k}, d)
  BY <1>1, <1>2 DEF One
<1>9. broot' = Root(1, T, Leaves(T)) /\ below' = below /\ ptrs' = ptrs /\ broot'.level = 1
  <2> DEFINE b == Root(1, T, Leaves(T))
  <2>1. b.level = 1
    <3>1. One(T, b, below, entries \ {k}, d)
      BY <1>8
    <3> HIDE DEF b
    <3> QED
      BY <3>1, <1>2, OneRead
  <2>2. ~ Lifts(b, below)
    BY <2>1 DEF Lifts
  <2> HIDE DEF b
  <2> QED
    BY <1>7, <2>1, <2>2 DEF KillIroot, b
<1>10. Along(broot', ptrs', entries \ {k})
  <2>1. ptrs = << >>
    BY DEF DeleteRoot, Along
  <2> HIDE DEF T
  <2> QED
    BY <2>1, <1>9 DEF Along
<1> QED
  BY <1>2, <1>8, <1>9, <1>10, OneShape

(***************************************************************************)
(* Keys come and go below a root over blocks.                              *)
(***************************************************************************)
LEMMA ChainedFirst ==
  ASSUME NEW C, NEW E, Family(C, E), Full(C), NEW i \in 1 .. Len(C)
  PROVE  /\ C[i] \in Keys /\ C[i][1] \in Range(C[i]) /\ C[i][1] \in Nat
         /\ \A x \in Range(C[i]) : x \in Nat /\ C[i][1] <= x
         /\ \A j \in 1 .. Len(C) : j < i => \A x \in Range(C[j]) : x \in Nat /\ x < C[i][1]
         /\ \A j \in 1 .. Len(C) : j > i => C[i][1] < C[j][1] /\ C[j][1] \in Nat
<1> DEFINE s == C[i]
<1>1. C \in Children /\ s \in Keys /\ s # << >> /\ Sorted(s)
  BY DEF Family, Children, Full, Chained
<1> HIDE DEF s
<1>2. Len(s) > 0 /\ Len(s) \in Nat /\ \A j \in 1 .. Len(s) : s[j] \in Range(s) /\ s[j] \in Nat
  BY <1>1, RangeOf
<1>3. s[1] \in Range(s) /\ s[1] \in Nat
  BY <1>2
<1>4. ASSUME NEW x \in Range(s) PROVE x \in Nat /\ s[1] <= x
  <2>1. PICK j \in 1 .. Len(s) : x = s[j]
    BY <1>1, <1>4, RangeOf
  <2> QED
    BY <2>1, <1>1, <1>2 DEF Sorted
<1>5. ASSUME NEW j \in 1 .. Len(C), j < i, NEW x \in Range(C[j]) PROVE x \in Nat /\ x < s[1]
  <2>1. C[j] \in Keys
    BY <1>1 DEF Children
  <2>2. x \in Nat
    BY <2>1, <1>5, RangeOf
  <2>3. Before(Range(C[j]), Range(s))
    BY <1>5 DEF Family, Chained, s
  <2> QED
    BY <2>2, <2>3, <1>3, <1>5 DEF Before
<1>6. ASSUME NEW j \in 1 .. Len(C), j > i PROVE s[1] < C[j][1] /\ C[j][1] \in Nat
  <2> DEFINE t == C[j]
  <2>1. t \in Keys /\ t # << >> /\ Before(Range(s), Range(t))
    BY <1>1, <1>6 DEF Family, Children, Full, Chained, s
  <2> HIDE DEF t
  <2>2. t[1] \in Range(t) /\ t[1] \in Nat
    BY <2>1, RangeOf
  <2> QED
    BY <2>1, <2>2, <1>3 DEF Before, t
<1> QED
  BY <1>1, <1>3, <1>4, <1>5, <1>6 DEF s

LEMMA ChildFound ==
  ASSUME NEW b, NEW kids, NEW E, NEW n, NEW C, NEW P, Two(C, P, b, kids, E, n),
         NEW k \in Nat, NEW e \in E, e < k
  PROVE  LET i == ChildOf(b, k) IN
         /\ i \in 1 .. Len(C) /\ C[i][1] <= k
         /\ k \in E => k \in Range(C[i])
         /\ i = 1 => e \in Range(C[i]) \/ 1 < Len(C)
         /\ \A j \in 1 .. Len(C) : /\ j < i => Before(Range(C[j]), {k})
                                   /\ j > i => Before({k}, Range(C[j]))
<1> DEFINE F == Firsts(C)
           q == k + 1
           p == PlaceOf(F, q)
           i == ChildOf(b, k)
           m == Len(C)
<1>1. /\ C \in Children /\ m \in Nat \ {0} /\ F \in Keys /\ Len(F) = m /\ RootKeys(b) = F
      /\ Family(C, E) /\ Full(C) /\ \A j \in 1 .. m : F[j] = C[j][1]
  BY TwoRead, FirstsOf DEF Two
<1>2. i = IF p = 1 THEN 1 ELSE p - 1
  BY <1>1 DEF ChildOf
<1>3. Sorted(F)
  BY <1>1, ChainedFirst DEF Sorted
<1>4. q \in Nat /\ q = k + 1
  OBVIOUS
<1> HIDE DEF F, q
<1>5. p \in 1 .. m + 1 /\ \A j \in 1 .. m : F[j] < q <=> j < p
  BY <1>1, <1>3, <1>4, Placed
<1> HIDE DEF p, i, m
<1>6. PICK h \in 1 .. m : e \in Range(C[h])
  BY <1>1 DEF Family, Holding, m
<1>7. F[1] <= e /\ F[1] \in Nat /\ e \in Nat
  <2>1. 1 \in 1 .. m
    BY <1>1
  <2>2. C[h][1] <= e /\ C[h][1] \in Nat /\ e \in Nat
    BY <1>1, <1>6, ChainedFirst DEF m
  <2>3. C[1][1] \in Nat /\ (h > 1 => C[1][1] < C[h][1])
    BY <2>1, <1>1, <1>6, ChainedFirst DEF m
  <2> QED
    BY <2>1, <2>2, <2>3, <1>1, <1>6
<1>8. p > 1 /\ i = p - 1 /\ i \in 1 .. m
  <2>1. F[1] < q /\ 1 \in 1 .. m
    BY <1>1, <1>4, <1>7
  <2>2. 1 < p
    BY <2>1, <1>5
  <2> QED
    BY <2>2, <1>1, <1>2, <1>5
<1>9. \A j \in 1 .. m : C[j][1] \in Nat /\ C[j][1] = F[j]
  BY <1>1, ChainedFirst DEF m
<1>10. C[i][1] <= k
  BY <1>4, <1>5, <1>8, <1>9
<1>11. ASSUME NEW j \in 1 .. m, j < i PROVE Before(Range(C[j]), {k})
  <2>1. \A x \in Range(C[j]) : x \in Nat /\ x < C[i][1]
    BY <1>1, <1>8, <1>11, ChainedFirst DEF m
  <2> QED
    BY <2>1, <1>8, <1>9, <1>10 DEF Before
<1>12. ASSUME NEW j \in 1 .. m, j > i PROVE Before({k}, Range(C[j]))
  <2>1. ~ (F[j] < q)
    BY <1>5, <1>8, <1>12
  <2>2. \A x \in Range(C[j]) : x \in Nat /\ C[j][1] <= x
    BY <1>1, ChainedFirst DEF m
  <2> QED
    BY <2>1, <2>2, <1>4, <1>9 DEF Before
<1>13. ASSUME k \in E PROVE k \in Range(C[i])
  <2>1. PICK j \in 1 .. m : k \in Range(C[j])
    BY <1>1, <1>13 DEF Family, Holding, m
  <2>2. ~ (j < i) /\ ~ (j > i)
    BY <2>1, <1>11, <1>12 DEF Before
  <2> QED
    BY <2>1, <2>2, <1>8
<1>14. ASSUME i = 1, ~ (1 < m) PROVE e \in Range(C[i])
  BY <1>6, <1>14, <1>1
<1> QED
  BY <1>8, <1>10, <1>11, <1>12, <1>13, <1>14 DEF m, i

\* Writing keys over those of the root, where the blocks have changed.
LEMMA RootRekeyed ==
  ASSUME NEW b, NEW kids, NEW E, NEW n, NEW C, NEW P, Two(C, P, b, kids, E, n),
         NEW L \in Keys, Len(L) = Len(C)
  PROVE  Put(b, L, << >>) = Root(2, L, P)
<1> DEFINE m == Len(C)
           F == Firsts(C)
           two == 2
<1>1. m \in Nat /\ Of(m, F) /\ Of(m, P) /\ b = Root(two, F, P)
  BY TwoRead DEF Two
<1>2. Of(m, L)
  BY OfItsLength DEF Keys
<1> HIDE DEF m, F, two
<1>3. Put(Root(two, F, P), L, << >>) = Root(two, L, P)
  BY <1>1, <1>2, PutKeys
<1> QED
  BY <1>1, <1>3, Zenon DEF two

LEMMA ShareStep ==
  ASSUME NEW F, NEW n, NEW C, NEW P, Two(C, P, broot, below, F, n),
         NEW D, NEW E, Family(D, E), Len(D) = Len(C), NEW l \in 1 .. Len(C) - 1,
         \A j \in 1 .. Len(C) : j # l /\ j # l + 1 => D[j] = C[j],
         NEW c \in 1 .. Len(D[l] \o D[l + 1]) - 1, Share(l, D[l] \o D[l + 1], c)
  PROVE  Shape(broot', below', E, n)
<1> DEFINE m == Len(C)
           r == l + 1
           s == D[l]
           u == D[r]
           t == s \o u
           a == SubSeq(t, 1, c)
           b == SubSeq(t, c + 1, Len(t))
           H == Replaced(D, l, a)
           G == Replaced(H, r, b)
<1>1. /\ m \in Nat \ {0} /\ l \in 1 .. m /\ r \in 1 .. m /\ r # l /\ r = l + 1 /\ D \in Children
      /\ Chained(D) /\ m <= n /\ Len(D) = m /\ C \in Children /\ P \in Seq(Block)
  BY TwoRead DEF Two, Family
<1>2. s \in Keys /\ u \in Keys /\ Sorted(s) /\ Sorted(u) /\ Before(Range(s), Range(u))
  BY <1>1 DEF Chained, Children
<1>3. Share(l, t, c) /\ c \in 1 .. Len(t) - 1 /\ \A j \in 1 .. m : j # l /\ j # r => D[j] = C[j]
  OBVIOUS
<1> HIDE DEF s, u
<1>4. t \in Keys /\ Sorted(t) /\ Range(t) = Range(s) \cup Range(u)
  BY <1>2, SortedConcat
<1> HIDE DEF t
<1>5. /\ a \in Keys /\ b \in Keys /\ Sorted(a) /\ Sorted(b) /\ a # << >> /\ b # << >>
      /\ a[1] = t[1] /\ b[1] = t[c + 1]
      /\ Range(a) \cup Range(b) = Range(s) \cup Range(u) /\ Before(Range(a), Range(b))
  BY <1>3, <1>4, SortedCut
<1> HIDE DEF a, b
<1>6. Family(G, E)
  <2>1. Range(a) \cup Range(b) = Range(D[l]) \cup Range(D[l + 1])
    BY <1>5 DEF s, u
  <2>2. Family(Replaced(Replaced(D, l, a), l + 1, b), E)
    BY <2>1, <1>1, <1>5, FamilyParted
  <2> QED
    BY <2>2
<1>7. H \in Children /\ Len(H) = m /\ \A j \in 1 .. m : H[j] = IF j = l THEN a ELSE D[j]
  <2>1. l \in 1 .. Len(D) /\ Len(D) = m /\ D \in Children
    BY <1>1
  <2>2. a \in Keys
    BY <1>5
  <2> HIDE DEF m, a
  <2> QED
    BY <2>1, <2>2, ReplacedAt
<1> HIDE DEF H
<1>8. G \in Children /\ Len(G) = m /\ \A j \in 1 .. m : G[j] = IF j = r THEN b ELSE H[j]
  BY <1>1, <1>5, <1>7, ReplacedAt
<1> HIDE DEF G
<1>9. \A j \in 1 .. m : G[j] = IF j = l THEN a ELSE IF j = r THEN b ELSE C[j]
  BY <1>1, <1>3, <1>7, <1>8
<1>10. Full(G)
  BY <1>5, <1>8, <1>9 DEF Full, Two
<1>11. /\ RootKeys(broot) = Firsts(C) /\ PtrAt(broot, l) = P[l] /\ PtrAt(broot, r) = P[r]
       /\ Firsts(C) \in Keys /\ Len(Firsts(C)) = m /\ Len(P) = m
       /\ \A j \in 1 .. m : Firsts(C)[j] = C[j][1]
  <2>1. Len(P) = m
    BY DEF Two, Tree
  <2> QED
    BY <2>1, <1>1, TwoRead, FirstsOf DEF Two
<1> DEFINE L == [Firsts(C) EXCEPT ![l] = t[1], ![r] = t[c + 1]]
<1>12. L = Firsts(G) /\ Firsts(G) \in Keys /\ Len(Firsts(G)) = m
  <2>1. Firsts(G) \in Keys /\ Len(Firsts(G)) = m /\ \A j \in 1 .. m : Firsts(G)[j] = G[j][1]
    BY <1>8, <1>10, FirstsOf
  <2>2. DOMAIN Firsts(G) = 1 .. m /\ DOMAIN Firsts(C) = 1 .. m
    BY <1>8 DEF Firsts
  <2>3. \A j \in 1 .. m : L[j] = IF j = r THEN t[c + 1] ELSE IF j = l THEN t[1] ELSE Firsts(C)[j]
    BY <2>2
  <2>4. \A j \in 1 .. m : L[j] = G[j][1]
    BY <2>3, <1>1, <1>5, <1>9, <1>11
  <2>5. Firsts(G) = [j \in 1 .. m |-> G[j][1]] /\ L = [j \in 1 .. m |-> L[j]]
    BY <2>2, <1>8 DEF Firsts
  <2> HIDE DEF L
  <2>6. L = Firsts(G)
    BY <2>4, <2>5
  <2> QED
    BY <2>1, <2>6
<1>13. broot' = Root(2, Firsts(G), P)
  <2>1. broot' = Put(broot, L, << >>)
    BY <1>3, <1>11 DEF Share, r
  <2> HIDE DEF L
  <2>2. L \in Keys /\ Len(L) = Len(C)
    BY <1>12
  <2>3. Put(broot, L, << >>) = Root(2, L, P)
    BY <2>2, RootRekeyed
  <2> QED
    BY <2>1, <2>3, <1>12, Zenon
<1>14. Tree(G, P, below')
  <2>1. below' = [below EXCEPT ![P[l]] = a, ![P[r]] = b]
    BY <1>3, <1>11 DEF Share, a, b, r
  <2>2. /\ \A i, j \in 1 .. m : P[i] = P[j] => i = j
        /\ \A q : q \in DOMAIN below <=> \E i \in 1 .. m : q = P[i]
        /\ \A i \in 1 .. m : below[P[i]] = C[i]
    BY <1>11 DEF Two, Tree
  <2>3. DOMAIN below' = DOMAIN below
    BY <2>1
  <2>4. ASSUME NEW j \in 1 .. m PROVE below'[P[j]] = G[j]
    <3>1. P[l] \in DOMAIN below /\ P[r] \in DOMAIN below /\ P[j] \in DOMAIN below /\ P[l] # P[r]
      BY <1>1, <2>2
    <3>2. below'[P[j]] = IF P[j] = P[r] THEN b ELSE IF P[j] = P[l] THEN a ELSE below[P[j]]
      BY <2>1, <3>1
    <3> QED
      BY <3>2, <1>1, <1>9, <2>2
  <2> QED
    BY <2>2, <2>3, <2>4, <1>1, <1>8, <1>11 DEF Tree
<1>15. Two(G, P, broot', below', E, n)
  BY <1>1, <1>6, <1>8, <1>10, <1>13, <1>14 DEF Two
<1> QED
  BY <1>15, TwoShape

\* What two neighbours hold after one of C has become the one of D with s.
Joined(t, l, C, D, s) ==
  /\ l \in 1 .. Len(C) - 1 /\ t = D[l] \o D[l + 1] /\ t \in Keys /\ Len(t) > Len(s)
  /\ \A j \in 1 .. Len(C) : j # l /\ j # l + 1 => D[j] = C[j]

\* The children l and l + 1 become one that holds t.
JoinAt(l, t, ptr) ==
  KillIroot(Left(Put(broot, [RootKeys(broot) EXCEPT ![l] = t[1]], << >>), l + 1),
            [q \in DOMAIN below \ {PtrAt(broot, l + 1)} |->
               IF q = PtrAt(broot, l) THEN t ELSE below[q]], ptr, TRUE)

LEMMA JoinStep ==
  ASSUME NEW F, NEW n \in Nat, n = DMaxRecs(fork), NEW C, NEW P, Two(C, P, broot, below, F, n),
         NEW D, NEW E, Family(D, E), Len(D) = Len(C), NEW l, NEW x,
         NEW t, Joined(t, l, C, D, x), t # << >>, JoinAt(l, t, PtrsOf(E))
  PROVE  Shape(broot', below', E, n) /\ Along(broot', ptrs', E)
<1> DEFINE m == Len(C)
           r == l + 1
           s == D[l]
           u == D[r]
           none == << >>
           H == Replaced(D, l, t)
           I == Replaced(H, r, none)
           G == RemoveAt(I, r)
           Q == RemoveAt(P, r)
           L == [Firsts(C) EXCEPT ![l] = t[1]]
           to == [q \in DOMAIN below \ {P[r]} |-> IF q = P[l] THEN t ELSE below[q]]
<1>1. /\ m \in Nat /\ m > 1 /\ l \in 1 .. m /\ r \in 1 .. m /\ r # l /\ r = l + 1 /\ D \in Children
      /\ Chained(D) /\ m <= n /\ Len(D) = m /\ C \in Children /\ P \in Seq(Block) /\ Len(P) = m
  BY TwoRead DEF Two, Family, Tree, Joined
<1>2. s \in Keys /\ u \in Keys /\ Sorted(s) /\ Sorted(u) /\ Before(Range(s), Range(u))
  BY <1>1 DEF Chained, Children
<1>3. t = s \o u /\ \A j \in 1 .. m : j # l /\ j # r => D[j] = C[j]
  BY DEF Joined
<1> HIDE DEF s, u
<1>4. t \in Keys /\ Sorted(t) /\ Range(t) = Range(s) \cup Range(u)
  <2>1. s \o u \in Keys /\ Sorted(s \o u) /\ Range(s \o u) = Range(s) \cup Range(u)
    BY <1>2, SortedConcat
  <2> QED
    BY <2>1, <1>3, Zenon
<1>5. none \in Keys /\ Sorted(none) /\ Range(none) = {} /\ Before(Range(t), Range(none)) /\ t[1] \in Key
  <2>1. t[1] \in Key
    <3>1. t # << >> /\ t \in Keys
      BY <1>4
    <3> QED
      BY <3>1, BeginsWithKey
  <2>2. none \in Keys /\ Sorted(none) /\ Range(none) = {}
    BY DEF Keys, Sorted, Range
  <2> HIDE DEF none
  <2> QED
    BY <2>1, <2>2 DEF Before
<1>6. /\ RootKeys(broot) = Firsts(C) /\ PtrAt(broot, l) = P[l] /\ PtrAt(broot, r) = P[r]
      /\ Firsts(C) \in Keys /\ Len(Firsts(C)) = m
      /\ \A j \in 1 .. m : Firsts(C)[j] = C[j][1]
  BY <1>1, TwoRead, FirstsOf DEF Two
<1>7. KillIroot(Left(Put(broot, L, << >>), r), to, PtrsOf(E), TRUE)
  BY <1>6, Zenon DEF r, JoinAt
<1> HIDE DEF r, none
<1>8. Family(I, E)
  <2>1. Range(t) \cup Range(none) = Range(D[l]) \cup Range(D[l + 1])
    BY <1>1, <1>4, <1>5 DEF s, u
  <2>2. Family(Replaced(Replaced(D, l, t), l + 1, none), E)
    <3>1. l \in 1 .. Len(D) - 1
      BY <1>1
    <3> QED
      BY <2>1, <3>1, <1>4, <1>5, FamilyParted
  <2> QED
    BY <2>2 DEF r
<1>9. H \in Children /\ Len(H) = m /\ \A j \in 1 .. m : H[j] = IF j = l THEN t ELSE D[j]
  <2>1. l \in 1 .. Len(D) /\ Len(D) = m /\ D \in Children
    BY <1>1
  <2> HIDE DEF m
  <2> QED
    BY <2>1, <1>4, ReplacedAt
<1> HIDE DEF H
<1>10. I \in Children /\ Len(I) = m /\ \A j \in 1 .. m : I[j] = IF j = r THEN none ELSE H[j]
  BY <1>1, <1>5, <1>9, ReplacedAt
<1> HIDE DEF I
<1>11. Family(G, E)
  <2>1. I[r] = << >>
    BY <1>1, <1>10 DEF none
  <2> QED
    BY <2>1, <1>1, <1>8, <1>10, FamilyClosed
<1>12. G \in Children /\ Len(G) = m - 1
       /\ \A j \in 1 .. m - 1 : G[j] = IF j < r THEN I[j] ELSE I[j + 1]
  BY <1>1, <1>10, Removed DEF Children
<1> HIDE DEF G
<1>13. \A j \in 1 .. m - 1 : G[j] = IF j = l THEN t ELSE IF j < l THEN C[j] ELSE C[j + 1]
  <2>1. ASSUME NEW j \in 1 .. m - 1 PROVE G[j] = IF j = l THEN t ELSE IF j < l THEN C[j] ELSE C[j + 1]
    <3> DEFINE h == j + 1
    <3>1. j \in 1 .. m /\ h \in 1 .. m /\ h = j + 1 /\ G[j] = IF j < r THEN I[j] ELSE I[h]
      BY <1>1, <1>12
    <3>2. /\ I[j] = IF j = r THEN none ELSE H[j]
          /\ I[h] = IF h = r THEN none ELSE H[h]
          /\ H[j] = IF j = l THEN t ELSE D[j]
          /\ H[h] = IF h = l THEN t ELSE D[h]
      BY <3>1, <1>9, <1>10
    <3> HIDE DEF h
    <3>3. CASE j < l
      BY <3>1, <3>2, <3>3, <1>1, <1>3
    <3>4. CASE j = l
      BY <3>1, <3>2, <3>4, <1>1, <1>3
    <3>5. CASE j > l
      BY <3>1, <3>2, <3>5, <1>1, <1>3
    <3> QED
      BY <3>3, <3>4, <3>5, <1>1
  <2> QED
    BY <2>1
<1>14. Full(G)
  <2>1. \A j \in 1 .. m : C[j] # << >>
    BY DEF Two, Full
  <2>2. ASSUME NEW j \in 1 .. m - 1 PROVE G[j] # << >>
    <3> DEFINE h == j + 1
    <3>1. j \in 1 .. m /\ h \in 1 .. m
      BY <1>1
    <3>2. G[j] = t \/ G[j] = C[j] \/ G[j] = C[h]
      BY <1>13
    <3> HIDE DEF h
    <3> QED
      BY <2>1, <3>1, <3>2
  <2> QED
    BY <2>2, <1>12 DEF Full
<1>15. L \in Keys /\ Len(L) = m /\ \A j \in 1 .. m : L[j] = IF j = l THEN t[1] ELSE C[j][1]
  <2> DEFINE N == Firsts(C)
             e == t[1]
  <2>1. N \in Seq(Key) /\ Len(N) = m /\ e \in Key /\ \A j \in 1 .. m : N[j] = C[j][1]
    BY <1>5, <1>6 DEF Keys
  <2> HIDE DEF N, e
  <2>2. /\ [N EXCEPT ![l] = e] \in Seq(Key) /\ Len([N EXCEPT ![l] = e]) = m
        /\ \A j \in 1 .. m : [N EXCEPT ![l] = e][j] = IF j = l THEN e ELSE N[j]
    BY <2>1, <1>1
  <2>3. L = [N EXCEPT ![l] = e]
    BY DEF N, e
  <2> HIDE DEF L
  <2> QED
    BY <2>1, <2>2, <2>3 DEF e, Keys
<1> HIDE DEF L
<1>16. RemoveAt(L, r) = Firsts(G) /\ Firsts(G) \in Keys /\ Len(Firsts(G)) = m - 1
  <2> DEFINE M == RemoveAt(L, r)
  <2>1. Firsts(G) \in Keys /\ Len(Firsts(G)) = m - 1 /\ \A j \in 1 .. m - 1 : Firsts(G)[j] = G[j][1]
    BY <1>12, <1>14, FirstsOf
  <2>2. M \in Keys /\ Len(M) = m - 1 /\ \A j \in 1 .. m - 1 : M[j] = IF j < r THEN L[j] ELSE L[j + 1]
    BY <1>1, <1>15, Removed DEF Keys
  <2> HIDE DEF M
  <2>3. ASSUME NEW j \in 1 .. m - 1 PROVE M[j] = Firsts(G)[j]
    <3> DEFINE h == j + 1
    <3>1. j \in 1 .. m /\ h \in 1 .. m /\ h = j + 1 /\ M[j] = IF j < r THEN L[j] ELSE L[h]
      BY <1>1, <2>2
    <3>2. G[j] = IF j = l THEN t ELSE IF j < l THEN C[j] ELSE C[h]
      BY <1>13
    <3>3. L[j] = (IF j = l THEN t[1] ELSE C[j][1]) /\ L[h] = (IF h = l THEN t[1] ELSE C[h][1])
      BY <3>1, <1>15
    <3>4. Firsts(G)[j] = G[j][1]
      BY <2>1
    <3> HIDE DEF h
    <3>5. CASE j < l
      <4>1. j < r /\ j # l
        BY <3>1, <3>5, <1>1
      <4>2. M[j] = L[j] /\ L[j] = C[j][1] /\ G[j] = C[j]
        BY <4>1, <3>1, <3>2, <3>3, <3>5
      <4> QED
        BY <4>2, <3>4
    <3>6. CASE j = l
      <4>1. j < r
        BY <3>1, <3>6, <1>1
      <4>2. M[j] = L[j] /\ L[j] = t[1] /\ G[j] = t
        BY <4>1, <3>1, <3>2, <3>3, <3>6
      <4> QED
        BY <4>2, <3>4
    <3>7. CASE j > l
      <4>1. h # l /\ ~ (j < r) /\ j # l /\ ~ (j < l)
        BY <3>1, <3>7, <1>1
      <4>2. M[j] = L[h] /\ L[h] = C[h][1] /\ G[j] = C[h]
        BY <4>1, <3>1, <3>2, <3>3
      <4> QED
        BY <4>2, <3>4
    <3> QED
      BY <3>5, <3>6, <3>7, <1>1
  <2>4. M = Firsts(G)
    BY <2>1, <2>2, <2>3, SeqEqual DEF Keys
  <2> QED
    BY <2>1, <2>4 DEF M
<1>17. Q \in Seq(Block) /\ Len(Q) = m - 1
  BY <1>1, Removed
<1>18. Left(Put(broot, L, << >>), r) = Root(2, Firsts(G), Q)
  <2> DEFINE two == 2
             M == Firsts(G)
  <2>1. Put(broot, L, << >>) = Root(2, L, P)
    BY <1>15, RootRekeyed
  <2>2. Of(m, L) /\ Of(m, P)
    BY <1>1, <1>15, OfItsLength DEF Keys
  <2>3. Of(m - 1, M) /\ Of(m - 1, Q)
    <3>1. Of(Len(M), M) /\ Of(Len(Q), Q)
      <4> HIDE DEF M, Q
      <4> QED
        BY <1>16, <1>17, OfItsLength DEF Keys, M
    <3> QED
      BY <3>1, <1>16, <1>17
  <2>4. RemoveAt(L, r) = M /\ RemoveAt(P, r) = Q /\ m \in Nat /\ m > 1
    BY <1>1, <1>16
  <2> HIDE DEF two, M, Q, m
  <2>5. Of(m - 1, RemoveAt(L, r)) /\ Of(m - 1, RemoveAt(P, r))
    BY <2>3, <2>4
  <2>6. Left(Root(two, L, P), r) = Root(two, RemoveAt(L, r), RemoveAt(P, r))
    BY <2>2, <2>4, <2>5, RootLeft
  <2> QED
    BY <2>1, <2>4, <2>6, Zenon DEF two, M
<1>19. Tree(G, Q, to)
  <2>1. Tree(C, P, below)
    BY DEF Two
  <2>2. /\ \A i, j \in 1 .. m : P[i] = P[j] => i = j
        /\ \A i \in 1 .. m : P[i] \in DOMAIN below /\ below[P[i]] = C[i]
    BY <2>1, <1>1 DEF Tree
  <2>3. ASSUME NEW j \in 1 .. m, j # r PROVE to[P[j]] = IF j < r THEN G[j] ELSE G[j - 1]
    <3> DEFINE h == j - 1
    <3>1. P[j] \in DOMAIN below \ {P[r]}
      BY <2>2, <2>3, <1>1
    <3>2. to[P[j]] = IF P[j] = P[l] THEN t ELSE below[P[j]]
      BY <3>1
    <3>3. to[P[j]] = IF j = l THEN t ELSE C[j]
      BY <3>2, <2>2, <1>1
    <3>4. CASE j = l
      <4>1. l \in 1 .. m - 1 /\ l < r
        BY <1>1
      <4> QED
        BY <4>1, <3>3, <3>4, <1>13
    <3>5. CASE j < l
      <4>1. j \in 1 .. m - 1 /\ j < r
        BY <3>5, <1>1
      <4> QED
        BY <4>1, <3>3, <3>5, <1>13
    <3>6. CASE j > r
      <4>1. h \in 1 .. m - 1 /\ h + 1 = j /\ ~ (h < l) /\ h # l
        BY <3>6, <1>1
      <4>2. G[h] = C[j]
        BY <4>1, <1>13
      <4> QED
        BY <4>2, <3>3, <3>6, <1>1
    <3> QED
      BY <2>3, <3>4, <3>5, <3>6, <1>1
  <2>4. DOMAIN to = DOMAIN below \ {P[r]}
    OBVIOUS
  <2> HIDE DEF to
  <2> QED
    BY <2>1, <2>3, <2>4, <1>1, <1>12, TreeClosed
<1> HIDE DEF Q, to
<1>20. Two(G, Q, Root(2, Firsts(G), Q), to, E, n)
  <2>1. Len(G) \in 1 .. n
    BY <1>1, <1>12
  <2> QED
    BY <2>1, <1>11, <1>14, <1>19 DEF Two
<1>21. /\ Two(G, Q, Root(2, Firsts(G), Q), to, E, DMaxRecs(fork))
       /\ KillIroot(Root(2, Firsts(G), Q), to, PtrsOf(E), TRUE)
  BY <1>7, <1>18, <1>20, Zenon
<1> DEFINE R == Root(2, Firsts(G), Q)
<1>22. Shape(broot', below', E, DMaxRecs(fork)) /\ Along(broot', ptrs', E)
  <2>1. Two(G, Q, R, to, E, DMaxRecs(fork)) /\ KillIroot(R, to, PtrsOf(E), TRUE)
    BY <1>21
  <2> HIDE DEF R
  <2> QED
    BY <2>1, RootKilled
<1> QED
  BY <1>22

\* Child i of C, grown to that of D, is cut after c keys.
SplitAt(C, P, D, i, c) ==
  /\ Len(D) = Len(C) /\ \A j \in 1 .. Len(C) : j # i => D[j] = C[j]
  /\ D[i][1] = C[i][1] /\ c \in 1 .. Len(D[i]) - 1
  /\ broot' = Entered(broot, i + 1, D[i][c + 1], Fresh)
  /\ below' = [With(Fresh, SubSeq(D[i], c + 1, Len(D[i]))) EXCEPT ![P[i]] = SubSeq(D[i], 1, c)]

LEMMA SplitStep ==
  ASSUME NEW F, NEW n \in Nat, NEW C, NEW P, Two(C, P, broot, below, F, n),
         Len(C) < n, n <= DMaxRecs(Whole),
         NEW D, NEW E, Family(D, E), NEW i \in 1 .. Len(C),
         NEW c, SplitAt(C, P, D, i, c)
  PROVE  Shape(broot', below', E, n) /\ broot'.level = 2
<1> DEFINE m == Len(C)
           r == i + 1
           s == D[i]
           p == Fresh
           none == << >>
           O == InsertAt(D, r, none)
           a == SubSeq(s, 1, c)
           b == SubSeq(s, c + 1, Len(s))
           H == Replaced(O, i, a)
           G == Replaced(H, r, b)
           k == s[c + 1]
           N == Firsts(C)
           L == InsertAt(N, r, k)
           Q == InsertAt(P, r, p)
<1>1. /\ m \in Nat \ {0} /\ i \in 1 .. m /\ r \in 1 .. m + 1 /\ r \in 1 .. Len(D) + 1 /\ r # i /\ r = i + 1
      /\ D \in Children /\ Chained(D) /\ m < n /\ Len(D) = m /\ C \in Children
  BY TwoRead DEF Two, Family, SplitAt
<1>2. s \in Keys /\ Sorted(s)
  BY <1>1 DEF Chained, Children
<1>3. /\ broot' = Entered(broot, r, k, p) /\ below' = [With(p, b) EXCEPT ![P[i]] = a]
      /\ c \in 1 .. Len(s) - 1 /\ s[1] = C[i][1]
      /\ \A j \in 1 .. m : j # i => D[j] = C[j]
  BY DEF SplitAt
<1>4. p \in Block \ DOMAIN below
  <2>1. Tree(C, P, below) /\ m <= DMaxRecs(Whole)
    BY <1>1, SizeAssumption DEF Two, DMaxRecs, BmdrLen
  <2> QED
    BY <2>1, <1>1, FreshThere
<1>5. /\ P \in Seq(Block) /\ Len(P) = m /\ broot = Root(2, N, P) /\ Of(m, N) /\ Of(m, P)
      /\ N \in Keys /\ Len(N) = m /\ \A j \in 1 .. m : N[j] = C[j][1]
  <2>1. Len(P) = m /\ broot = Root(2, N, P)
    BY DEF Two, Tree
  <2> QED
    BY <2>1, <1>1, TwoRead, FirstsOf DEF Two
<1>6. \A j \in 1 .. m : P[j] \in DOMAIN below /\ below[P[j]] = C[j] /\ P[j] # p /\ (j # i => P[j] # P[i])
  <2>1. \A j \in 1 .. m : P[j] \in DOMAIN below /\ below[P[j]] = C[j] /\ (j # i => P[j] # P[i])
    BY <1>1, <1>5 DEF Two, Tree
  <2> QED
    BY <2>1, <1>4
<1> HIDE DEF s, p, k, N
<1>7. /\ a \in Keys /\ b \in Keys /\ Sorted(a) /\ Sorted(b) /\ a # << >> /\ b # << >>
      /\ a[1] = s[1] /\ b[1] = k /\ k \in Key
      /\ Range(a) \cup Range(b) = Range(s) /\ Before(Range(a), Range(b))
  <2>1. /\ a \in Keys /\ b \in Keys /\ Sorted(a) /\ Sorted(b) /\ a # << >> /\ b # << >>
        /\ a[1] = s[1] /\ b[1] = s[c + 1]
        /\ Range(a) \cup Range(b) = Range(s) /\ Before(Range(a), Range(b))
    BY <1>2, <1>3, SortedCut
  <2> HIDE DEF a, b
  <2>2. b[1] \in Key
    BY <2>1, BeginsWithKey
  <2> QED
    BY <2>1, <2>2 DEF k
<1> HIDE DEF a, b
<1>8. none \in Keys /\ Range(none) = {}
  BY DEF Keys, Range
<1>9. Family(O, E)
  BY <1>1, FamilyOpened
<1> HIDE DEF none, r
<1>10. /\ O \in Children /\ Len(O) = m + 1
       /\ \A j \in 1 .. m + 1 : O[j] = IF j < r THEN D[j] ELSE IF j = r THEN none ELSE D[j - 1]
  <2>1. D \in Seq(Keys) /\ none \in Keys /\ r \in 1 .. Len(D) + 1 /\ Len(D) = m
    BY <1>1, <1>8 DEF Children
  <2>2. /\ O \in Seq(Keys) /\ Len(O) = Len(D) + 1
        /\ \A j \in 1 .. Len(D) + 1 : O[j] = IF j < r THEN D[j] ELSE IF j = r THEN none ELSE D[j - 1]
    <3>1. O \in Seq(Keys) /\ IsInserted(O, D, r, none)
      BY <2>1, InsertedRead
    <3> HIDE DEF O
    <3> QED
      BY <3>1 DEF IsInserted
  <2> HIDE DEF m, O
  <2> QED
    BY <2>1, <2>2 DEF Children
<1> HIDE DEF O
<1>11. Family(G, E)
  <2>1. O[i] = s /\ O[i + 1] = none /\ i \in 1 .. Len(O) - 1
    BY <1>1, <1>10 DEF s
  <2>2. Range(a) \cup Range(b) = Range(O[i]) \cup Range(O[i + 1])
    BY <2>1, <1>7, <1>8
  <2>3. Family(Replaced(Replaced(O, i, a), i + 1, b), E)
    BY <2>1, <2>2, <1>7, <1>9, FamilyParted
  <2> QED
    BY <2>3 DEF r
<1>12. H \in Children /\ Len(H) = m + 1 /\ \A j \in 1 .. m + 1 : H[j] = IF j = i THEN a ELSE O[j]
  <2>1. i \in 1 .. Len(O) /\ Len(O) = m + 1 /\ O \in Children /\ a \in Keys
    BY <1>1, <1>7, <1>10
  <2> HIDE DEF m
  <2> QED
    BY <2>1, ReplacedAt
<1> HIDE DEF H
<1>13. G \in Children /\ Len(G) = m + 1 /\ \A j \in 1 .. m + 1 : G[j] = IF j = r THEN b ELSE H[j]
  <2>1. r \in 1 .. Len(H) /\ Len(H) = m + 1 /\ H \in Children /\ b \in Keys
    BY <1>1, <1>7, <1>12
  <2> HIDE DEF m
  <2> QED
    BY <2>1, ReplacedAt
<1> HIDE DEF G
<1>14. ASSUME NEW j \in 1 .. m + 1
       PROVE  /\ j < i => j \in 1 .. m /\ G[j] = C[j]
              /\ j = i => G[j] = a
              /\ j = r => G[j] = b
              /\ j > r => j - 1 \in 1 .. m /\ G[j] = C[j - 1]
  <2> DEFINE h == j - 1
  <2>1. /\ G[j] = IF j = r THEN b ELSE H[j]
        /\ H[j] = IF j = i THEN a ELSE O[j]
        /\ O[j] = IF j < r THEN D[j] ELSE IF j = r THEN none ELSE D[h]
    BY <1>10, <1>12, <1>13
  <2>2. (j < i => j \in 1 .. m /\ j < r /\ j # r) /\ (j = i => j # r) /\ (j > r => h \in 1 .. m /\ j # i /\ h # i)
    BY <1>1
  <2> HIDE DEF h
  <2>3. CASE j < i
    BY <2>1, <2>2, <2>3, <1>1, <1>3
  <2>4. CASE j = i
    BY <2>1, <2>2, <2>4, <1>1
  <2>5. CASE j = r
    BY <2>1, <2>5, <1>1
  <2>6. CASE j > r
    <3>1. G[j] = D[h] /\ D[h] = C[h]
      BY <2>1, <2>2, <2>6, <1>1, <1>3
    <3> QED
      BY <3>1, <2>2, <2>6, <1>1 DEF h
  <2> QED
    BY <2>3, <2>4, <2>5, <2>6, <1>1
<1>15. Full(G)
  <2>1. \A j \in 1 .. m : C[j] # << >>
    BY DEF Two, Full
  <2>2. ASSUME NEW j \in 1 .. m + 1 PROVE G[j] # << >>
    <3> DEFINE h == j - 1
    <3>1. /\ (j < i => j \in 1 .. m /\ G[j] = C[j]) /\ (j = i => G[j] = a) /\ (j = r => G[j] = b)
          /\ (j > r => h \in 1 .. m /\ G[j] = C[h])
      BY <1>14
    <3>2. j < i \/ j = i \/ j = r \/ j > r
      BY <1>1
    <3> HIDE DEF h
    <3> QED
      BY <2>1, <3>1, <3>2, <1>7
  <2> QED
    BY <2>2, <1>13 DEF Full
<1>16. L \in Keys /\ Len(L) = m + 1
       /\ \A j \in 1 .. m + 1 : L[j] = IF j < r THEN N[j] ELSE IF j = r THEN k ELSE N[j - 1]
  <2>1. N \in Seq(Key) /\ k \in Key /\ r \in 1 .. Len(N) + 1 /\ Len(N) = m
    BY <1>1, <1>5, <1>7 DEF Keys
  <2>2. /\ L \in Seq(Key) /\ Len(L) = Len(N) + 1
        /\ \A j \in 1 .. Len(N) + 1 : L[j] = IF j < r THEN N[j] ELSE IF j = r THEN k ELSE N[j - 1]
    <3>1. L \in Seq(Key) /\ IsInserted(L, N, r, k)
      BY <2>1, InsertedRead
    <3> HIDE DEF L
    <3> QED
      BY <3>1 DEF IsInserted
  <2> HIDE DEF m, L
  <2> QED
    BY <2>1, <2>2 DEF Keys
<1> HIDE DEF L
<1>17. L = Firsts(G)
  <2>1. Firsts(G) \in Keys /\ Len(Firsts(G)) = m + 1 /\ \A j \in 1 .. m + 1 : Firsts(G)[j] = G[j][1]
    BY <1>13, <1>15, FirstsOf
  <2>2. ASSUME NEW j \in 1 .. m + 1 PROVE L[j] = Firsts(G)[j]
    <3> DEFINE h == j - 1
    <3>1. L[j] = IF j < r THEN N[j] ELSE IF j = r THEN k ELSE N[h]
      BY <1>16
    <3>2. Firsts(G)[j] = G[j][1]
      BY <2>1
    <3>3. CASE j < i
      BY <3>1, <3>2, <3>3, <1>1, <1>5, <1>14
    <3>4. CASE j = i
      BY <3>1, <3>2, <3>4, <1>1, <1>3, <1>5, <1>7, <1>14
    <3>5. CASE j = r
      BY <3>1, <3>2, <3>5, <1>1, <1>7, <1>14
    <3>6. CASE j > r
      <4>1. h \in 1 .. m /\ G[j] = C[h]
        BY <3>6, <1>14
      <4>2. N[h] = C[h][1]
        BY <4>1, <1>5
      <4> QED
        BY <4>1, <4>2, <3>1, <3>2, <3>6, <1>1
    <3> QED
      BY <3>3, <3>4, <3>5, <3>6, <1>1
  <2> QED
    BY <2>1, <2>2, <1>16, SeqEqual DEF Keys
<1>18. Q \in Seq(Block) /\ Len(Q) = m + 1
  BY <1>1, <1>4, <1>5, InsertedAnywhere
<1>19. broot' = Root(2, Firsts(G), Q)
  <2> DEFINE two == 2
  <2>1. Of(m + 1, L) /\ Of(m + 1, Q)
    <3>1. Of(Len(L), L) /\ Of(Len(Q), Q)
      <4> HIDE DEF Q
      <4> QED
        BY <1>16, <1>18, OfItsLength DEF Keys
    <3> QED
      BY <3>1, <1>16, <1>18
  <2>2. Of(m + 1, InsertAt(N, r, k)) /\ Of(m + 1, InsertAt(P, r, p)) /\ Of(m, N) /\ Of(m, P) /\ m \in Nat
    BY <2>1, <1>1, <1>5 DEF L
  <2> HIDE DEF two, m
  <2>3. Entered(Root(two, N, P), r, k, p) = Root(two, InsertAt(N, r, k), InsertAt(P, r, p))
    BY <2>2, RootEntered
  <2> QED
    BY <2>3, <1>3, <1>5, <1>17, Zenon DEF two, L
<1>20. Tree(G, Q, below')
  <2>1. Tree(C, P, below)
    BY DEF Two
  <2>2. DOMAIN below' = DOMAIN below \cup {p}
    BY <1>3 DEF With
  <2>3. \A q \in DOMAIN below \cup {p} : below'[q] = IF q = P[i] THEN a ELSE IF q = p THEN b ELSE below[q]
    <3>1. \A q \in DOMAIN below \cup {p} : With(p, b)[q] = IF q = p THEN b ELSE below[q]
      BY DEF With
    <3>2. DOMAIN With(p, b) = DOMAIN below \cup {p}
      BY DEF With
    <3> QED
      BY <3>1, <3>2, <1>3
  <2>4. below'[p] = G[r]
    <3>1. p # P[i] /\ r \in 1 .. m + 1 /\ p \in DOMAIN below \cup {p}
      BY <1>1, <1>6
    <3>2. below'[p] = b
      BY <3>1, <2>3
    <3> QED
      BY <3>1, <3>2, <1>14
  <2>5. ASSUME NEW j \in 1 .. m PROVE below'[P[j]] = IF j < r THEN G[j] ELSE G[j + 1]
    <3> DEFINE h == j + 1
    <3>1. below'[P[j]] = IF j = i THEN a ELSE C[j]
      BY <2>3, <1>6
    <3>2. j \in 1 .. m + 1 /\ h \in 1 .. m + 1 /\ h = j + 1 /\ h - 1 = j
      BY <1>1
    <3>3. CASE j < r
      BY <3>1, <3>2, <3>3, <1>1, <1>14
    <3>4. CASE j >= r
      <4>1. h > r
        BY <3>2, <3>4, <1>1
      <4> HIDE DEF h
      <4>2. G[h] = C[h - 1]
        BY <3>2, <4>1, <1>14
      <4>3. G[h] = C[j]
        BY <4>2, <3>2
      <4> QED
        BY <3>1, <4>3, <3>4, <1>1 DEF h
    <3> QED
      BY <3>3, <3>4, <1>1
  <2> QED
    <3> DEFINE to == below'
    <3>1. /\ DOMAIN to = DOMAIN below \cup {p} /\ to[p] = G[r] /\ r \in 1 .. Len(C) + 1
          /\ C \in Children /\ G \in Children /\ Len(G) = Len(C) + 1
          /\ \A j \in 1 .. Len(C) : to[P[j]] = IF j < r THEN G[j] ELSE G[j + 1]
      BY <2>2, <2>4, <2>5, <1>1, <1>13
    <3> HIDE DEF to, m
    <3>2. Tree(G, InsertAt(P, r, p), to)
      BY <2>1, <3>1, <1>4, TreeOpened
    <3> QED
      BY <3>2 DEF to
<1>21. Two(G, Q, broot', below', E, n)
  <2>1. Len(G) \in 1 .. n
    BY <1>1, <1>13
  <2> HIDE DEF Q
  <2> QED
    BY <2>1, <1>11, <1>13, <1>15, <1>19, <1>20 DEF Two
<1>22. broot'.level = 2
  <2> HIDE DEF G, Q
  <2> QED
    BY <1>21, TwoRead
<1> QED
  BY <1>21, <1>22, TwoShape

\* A block's keys change and everything else stays: the root of their first keys.
LEMMA ChangeStep ==
  ASSUME NEW F, NEW n, NEW C, NEW P, Two(C, P, broot, below, F, n),
         NEW E, NEW i \in 1 .. Len(C), NEW s \in Keys, s # << >>, Family(Replaced(C, i, s), E)
  PROVE  Two(Replaced(C, i, s), P, Root(2, Firsts(Replaced(C, i, s)), P), With(P[i], s), E, n)
<1> DEFINE D == Replaced(C, i, s)
           m == Len(C)
<1>1. C \in Children /\ m \in 1 .. n /\ Tree(C, P, below) /\ Len(P) = m
  BY DEF Two, Family, Tree
<1>2. D \in Children /\ Len(D) = m /\ \A j \in 1 .. m : D[j] = IF j = i THEN s ELSE C[j]
  BY <1>1, ReplacedAt
<1> HIDE DEF D
<1>3. Full(D)
  BY <1>2 DEF Two, Full
<1>4. Tree(D, P, With(P[i], s))
  <2>1. P[i] \in DOMAIN below
    BY <1>1 DEF Tree
  <2>2. DOMAIN With(P[i], s) = DOMAIN below
    BY <2>1 DEF With
  <2>3. \A q \in DOMAIN below : With(P[i], s)[q] = IF q = P[i] THEN s ELSE below[q]
    BY DEF With
  <2>4. \A j \in 1 .. m : With(P[i], s)[P[j]] = D[j]
    BY <2>3, <1>1, <1>2 DEF Tree
  <2> QED
    BY <2>2, <2>4, <1>1, <1>2 DEF Tree
<1> QED
  BY <1>1, <1>2, <1>3, <1>4 DEF Two, D

LEMMA BothRead ==
  ASSUME NEW F, NEW n, NEW C, NEW P, Two(C, P, broot, below, F, n),
         NEW i \in 1 .. Len(C), NEW s \in Keys, NEW l, l \in {i - 1, i} \cap (1 .. broot.recs - 1)
  PROVE  Joined(Both(l, i, s), l, C, Replaced(C, i, s), s)
<1> DEFINE m == Len(C)
           D == Replaced(C, i, s)
           r == l + 1
<1>1. /\ m \in Nat \ {0} /\ broot.recs = m /\ C \in Children
      /\ \A j \in 1 .. m : PtrAt(broot, j) = P[j] /\ below[P[j]] = C[j] /\ C[j] \in Keys /\ C[j] # << >>
  BY TwoRead
<1>2. l \in 1 .. m - 1 /\ l \in 1 .. m /\ r \in 1 .. m /\ (l = i \/ r = i) /\ (l = i => r # i) /\ (r = i => l # i)
  BY <1>1
<1>3. \A j \in 1 .. m : D[j] = IF j = i THEN s ELSE C[j]
  BY <1>1, ReplacedAt
<1> HIDE DEF D
<1>4. \A j \in 1 .. m : j # l /\ j # l + 1 => D[j] = C[j]
  BY <1>2, <1>3
<1> HIDE DEF m
<1>5. CASE l = i
  <2> DEFINE u == C[r]
  <2>1. Both(l, i, s) = s \o u /\ D[l] = s /\ D[r] = u
    BY <1>1, <1>2, <1>3, <1>5 DEF Both
  <2>2. u \in Keys /\ Len(u) > 0 /\ Len(u) \in Nat /\ Len(s) \in Nat
    <3>1. u \in Keys /\ u # << >>
      BY <1>1, <1>2
    <3> HIDE DEF u
    <3> QED
      BY <3>1, RangeOf
  <2> HIDE DEF u
  <2>3. s \o u \in Keys /\ Len(s \o u) = Len(s) + Len(u)
    BY <2>2, Concat DEF Keys
  <2>4. Len(s \o u) > Len(s)
    BY <2>2, <2>3
  <2>5. Both(l, i, s) = D[l] \o D[r]
    BY <2>1, Zenon
  <2> QED
    BY <1>2, <1>4, <2>1, <2>3, <2>4, <2>5, Zenon DEF m, D, r, Joined
<1>6. CASE r = i
  <2> DEFINE u == C[l]
  <2>1. Both(l, i, s) = u \o s /\ D[l] = u /\ D[r] = s
    BY <1>1, <1>2, <1>3, <1>6 DEF Both
  <2>2. u \in Keys /\ Len(u) > 0 /\ Len(u) \in Nat /\ Len(s) \in Nat
    <3>1. u \in Keys /\ u # << >>
      BY <1>1, <1>2
    <3> HIDE DEF u
    <3> QED
      BY <3>1, RangeOf
  <2> HIDE DEF u
  <2>3. u \o s \in Keys /\ Len(u \o s) = Len(u) + Len(s)
    BY <2>2, Concat DEF Keys
  <2>4. Len(u \o s) > Len(s)
    BY <2>2, <2>3
  <2>5. Both(l, i, s) = D[l] \o D[r]
    BY <2>1, Zenon
  <2> QED
    BY <1>2, <1>4, <2>1, <2>3, <2>4, <2>5, Zenon DEF m, D, r, Joined
<1> QED
  BY <1>2, <1>5, <1>6

LEMMA BlocksHold == MinRecs \in Nat /\ MinRecs > 0 /\ BlockMax \in Nat /\ BlockMax > 1
<1>1. DMaxRecs(Whole) > 0 /\ DMaxRecs(Whole) < BlockMax /\ BlockMax \in Nat /\ DMaxRecs(Whole) \in Int
  BY SizeAssumption DEF DMaxRecs, BmdrLen
<1>2. BlockMax > 1
  BY <1>1
<1> QED
  BY <1>1, <1>2 DEF MinRecs

\* A key that moves between children leaves the root its level.
LEMMA ShareLevel ==
  ASSUME NEW F, NEW P, broot = Root(2, F, P), NEW l, NEW s, NEW c, Share(l, s, c)
  PROVE  broot'.level = 2
BY DEF Share, Put, Root, Buffer

LEMMA InsertBelowStep ==
  ASSUME NEW d \in Nat \ {0}, d = DMaxRecs(fork), d <= DMaxRecs(Whole),
         NEW C, NEW P, Two(C, P, broot, below, entries, d),
         NEW k \in Key, k \notin entries, NEW e \in entries, e < k, InsertBelow(k),
         Along(broot, ptrs, entries)
  PROVE  Shape(broot', below', entries \cup {k}, d) /\ Along(broot', ptrs', entries \cup {k})
<1> DEFINE m == Len(C)
           i == ChildOf(broot, k)
           u == C[i]
           s == InsertAt(u, PlaceOf(u, k), k)
           D == Replaced(C, i, s)
           E == entries \cup {k}
<1>1. /\ C \in Children /\ m \in Nat \ {0} /\ broot.recs = m /\ broot = Root(2, Firsts(C), P)
      /\ Family(C, entries) /\ Full(C) /\ m <= d
      /\ \A j \in 1 .. m : PtrAt(broot, j) = P[j] /\ below[P[j]] = C[j] /\ C[j] \in Keys /\ Sorted(C[j]) /\ C[j] # << >>
  BY TwoRead DEF Two
<1>2. /\ i \in 1 .. m /\ u[1] <= k
      /\ \A j \in 1 .. m : /\ j < i => Before(Range(C[j]), {k})
                           /\ j > i => Before({k}, Range(C[j]))
  BY KeysAreNat, ChildFound
<1> HIDE DEF i, m
<1>3. u \in Keys /\ Sorted(u) /\ u # << >> /\ k \notin Range(u)
  <2>1. Range(u) \subseteq entries
    BY <1>1, <1>2 DEF Family, Holding, m
  <2> QED
    BY <2>1, <1>1, <1>2
<1>4. u[1] \in Range(u) /\ u[1] \in Nat /\ u[1] < k
  <2> HIDE DEF u
  <2>1. u[1] \in Range(u) /\ u[1] \in Key
    BY <1>3, BeginsWithKey
  <2> QED
    BY <2>1, <1>2, <1>3, KeysAreNat
<1>5. s \in Keys /\ Sorted(s) /\ Len(s) = Len(u) + 1 /\ Range(s) = Range(u) \cup {k} /\ s[1] = u[1]
  <2> HIDE DEF u
  <2> QED
    BY <1>3, <1>4, SortedInsert
<1>6. s # << >> /\ Len(s) \in Nat /\ Len(u) > 0 /\ Len(u) \in Nat
  <2> HIDE DEF u, s
  <2> QED
    BY <1>3, <1>5, RangeOf
<1>7. /\ InsertBelow(k) /\ ChildOf(broot, k) = i /\ PtrAt(broot, i) = P[i] /\ below[P[i]] = u
  BY <1>1, <1>2 DEF i
<1> DEFINE shares == {l \in {i - 1, i} \cap (1 .. broot.recs - 1) : Len(Both(l, i, s)) <= 2 * BlockMax}
<1>15. ptrs' = PtrsOf(E)
  <2>1. ptrs = PtrsOf(entries) /\ ptrs' = PtrsAnd(ptrs, k)
    BY DEF InsertBelow, Along
  <2> QED
    BY <2>1, PtrsGrow, Zenon
<1>8. IF Len(s) <= BlockMax THEN below' = With(P[i], s) /\ broot' = broot
      ELSE IF shares # {}
      THEN \E l \in shares :
             LET t == Both(l, i, s) IN
             Share(l, t, IF l = i THEN BlockMax ELSE Len(t) - BlockMax)
      ELSE /\ broot.recs < DMaxRecs(fork)
           /\ \E c \in {Len(s) \div 2, Len(s) - Len(s) \div 2} :
                /\ broot' = Entered(broot, i + 1, s[c + 1], Fresh)
                /\ below' = [With(Fresh, SubSeq(s, c + 1, Len(s))) EXCEPT ![P[i]] = SubSeq(s, 1, c)]
  BY <1>7 DEF InsertBelow
<1>9. Family(D, E)
  <2>1. \A j \in 1 .. Len(C) : /\ j < i => Before(Range(C[j]), Range(s))
                               /\ j > i => Before(Range(s), Range(C[j]))
    <3>1. ASSUME NEW j \in 1 .. Len(C)
          PROVE  /\ j < i => Before(Range(C[j]), Range(u))
                 /\ j > i => Before(Range(u), Range(C[j]))
      BY <1>1, <1>2 DEF Family, Chained, m
    <3> HIDE DEF s, u
    <3> QED
      BY <3>1, <1>2, <1>5 DEF Before, m
  <2>2. Family(D, (entries \ Range(C[i])) \cup Range(s))
    <3> HIDE DEF s
    <3> QED
      BY <2>1, <1>1, <1>2, <1>5, FamilyReplaced DEF m
  <2>3. Range(u) \subseteq entries
    BY <1>1, <1>2 DEF Family, Holding, m
  <2>4. (entries \ Range(u)) \cup Range(s) = E
    <3> HIDE DEF s, u
    <3> QED
      BY <2>3, <1>5
  <2> QED
    BY <2>2, <2>4, Zenon DEF u
<1>10. D \in Children /\ Len(D) = Len(C) /\ \A j \in 1 .. Len(C) : D[j] = IF j = i THEN s ELSE C[j]
  <2>1. C \in Children /\ i \in 1 .. Len(C) /\ s \in Keys
    BY <1>1, <1>2, <1>5 DEF m
  <2> HIDE DEF s, u, E
  <2> QED
    BY <2>1, ReplacedAt
<1>11. BlockMax \in Nat /\ BlockMax > 1
  BY BlocksHold
<1>12. CASE Len(s) <= BlockMax
  <2>1. below' = With(P[i], s) /\ broot' = broot
    BY <1>8, <1>12
  <2>2. Two(D, P, Root(2, Firsts(D), P), With(P[i], s), E, d)
    <3> HIDE DEF s, E
    <3> QED
      BY <1>2, <1>5, <1>6, <1>9, ChangeStep DEF m
  <2>3. Firsts(D) = Firsts(C)
    <3>1. \A j \in 1 .. Len(C) : D[j][1] = C[j][1]
      <4> HIDE DEF D, s
      <4> QED
        BY <1>5, <1>10
    <3> HIDE DEF D
    <3> QED
      BY <3>1, <1>10 DEF Firsts
  <2>4. broot' = Root(2, Firsts(D), P)
    BY <2>1, <2>3, <1>1, Zenon
  <2> HIDE DEF D, E, s
  <2>5. Two(D, P, broot', below', E, d)
    BY <2>1, <2>2, <2>4, Zenon
  <2>6. broot'.level = 2
    BY <2>5, TwoRead
  <2>7. Along(broot', ptrs', E)
    BY <2>6, <1>15, Zenon DEF Along
  <2> QED
    BY <2>5, <2>7, TwoShape DEF E
<1>13. CASE Len(s) > BlockMax /\ shares # {}
  <2>1. PICK l \in shares :
             LET t == Both(l, i, s) IN
             Share(l, t, IF l = i THEN BlockMax ELSE Len(t) - BlockMax)
    BY <1>8, <1>13, <1>6, <1>11
  <2> DEFINE t == Both(l, i, s)
             c == IF l = i THEN BlockMax ELSE Len(t) - BlockMax
  <2>2. l \in {i - 1, i} \cap (1 .. broot.recs - 1)
    OBVIOUS
  <2>3. /\ l \in 1 .. Len(C) - 1 /\ t = D[l] \o D[l + 1] /\ t \in Keys /\ Len(t) > Len(s)
        /\ \A j \in 1 .. Len(C) : j # l /\ j # l + 1 => D[j] = C[j]
    <3>1. i \in 1 .. Len(C) /\ s \in Keys
      BY <1>2, <1>5 DEF m
    <3> HIDE DEF s, u, shares
    <3>2. Joined(t, l, C, D, s)
      BY <2>2, <3>1, BothRead
    <3> HIDE DEF t, D
    <3> QED
      BY <3>2 DEF Joined
  <2>4. c \in 1 .. Len(t) - 1
    <3>1. Len(t) \in Nat
      <4> HIDE DEF t
      <4> QED
        BY <2>3, RangeOf
    <3>2. Len(s) > BlockMax /\ Len(s) \in Nat /\ Len(t) > Len(s)
      BY <2>3, <1>6, <1>13
    <3> HIDE DEF t, s, shares
    <3> QED
      BY <3>1, <3>2, <1>11
  <2>5. Share(l, t, c)
    BY <2>1
  <2> HIDE DEF c, t, D, E
  <2>6. Share(l, D[l] \o D[l + 1], c) /\ c \in 1 .. Len(D[l] \o D[l + 1]) - 1
    BY <2>3, <2>4, <2>5, Zenon
  <2>7. Shape(broot', below', E, d)
    BY <2>3, <2>6, <1>9, <1>10, ShareStep
  <2>8. broot'.level = 2
    BY <1>1, <2>6, ShareLevel
  <2>9. Along(broot', ptrs', E)
    BY <2>8, <1>15, Zenon DEF Along
  <2> QED
    BY <2>7, <2>9 DEF E
<1>14. CASE Len(s) > BlockMax /\ ~ (shares # {})
  <2>1. /\ m < d
        /\ \E c \in {Len(s) \div 2, Len(s) - Len(s) \div 2} :
                /\ broot' = Entered(broot, i + 1, s[c + 1], Fresh)
                /\ below' = [With(Fresh, SubSeq(s, c + 1, Len(s))) EXCEPT ![P[i]] = SubSeq(s, 1, c)]
    <3> HIDE DEF shares
    <3> QED
      BY <1>1, <1>6, <1>8, <1>11, <1>14
  <2>2. PICK c \in {Len(s) \div 2, Len(s) - Len(s) \div 2} :
                /\ broot' = Entered(broot, i + 1, s[c + 1], Fresh)
                /\ below' = [With(Fresh, SubSeq(s, c + 1, Len(s))) EXCEPT ![P[i]] = SubSeq(s, 1, c)]
    BY <2>1
  <2>3. c \in 1 .. Len(s) - 1
    <3> HIDE DEF s
    <3> QED
      BY <1>6, <1>11, <1>14
  <2>4. D[i] = s /\ C[i] = u
    BY <1>2, <1>10 DEF m
  <2>5. SplitAt(C, P, D, i, c)
    <3> HIDE DEF D, s, u
    <3>1. broot' = Entered(broot, i + 1, D[i][c + 1], Fresh)
      BY <2>2, <2>4
    <3>2. below' = [With(Fresh, SubSeq(D[i], c + 1, Len(D[i]))) EXCEPT ![P[i]] = SubSeq(D[i], 1, c)]
      BY <2>2, <2>4
    <3>3. D[i][1] = C[i][1] /\ c \in 1 .. Len(D[i]) - 1
      BY <1>5, <2>3, <2>4
    <3> QED
      BY <3>1, <3>2, <3>3, <1>10 DEF SplitAt
  <2> HIDE DEF D, E, s
  <2>6. Shape(broot', below', E, d) /\ broot'.level = 2
    BY <2>1, <2>5, <1>2, <1>9, SplitStep DEF m
  <2>7. Along(broot', ptrs', E)
    BY <2>6, <1>15, Zenon DEF Along
  <2> QED
    BY <2>6, <2>7 DEF E
<1> QED
  <2> HIDE DEF s, shares
  <2> QED
    BY <1>6, <1>11, <1>12, <1>13, <1>14

LEMMA DeleteBelowStep ==
  ASSUME NEW d \in Nat \ {0}, d = DMaxRecs(fork),
         NEW C, NEW P, Two(C, P, broot, below, entries, d),
         NEW k \in entries, k \in Nat, NEW e \in entries, e < k, DeleteBelow(k),
         Along(broot, ptrs, entries)
  PROVE  Shape(broot', below', entries \ {k}, d) /\ Along(broot', ptrs', entries \ {k})
<1> DEFINE m == Len(C)
           i == ChildOf(broot, k)
           u == C[i]
           h == PlaceOf(u, k)
           s == RemoveAt(u, h)
           D == Replaced(C, i, s)
           E == entries \ {k}
           b == IF h = 1 THEN Put(broot, [RootKeys(broot) EXCEPT ![i] = Head(s)], << >>) ELSE broot
<1>1. /\ C \in Children /\ m \in Nat \ {0} /\ broot.recs = m /\ broot = Root(2, Firsts(C), P)
      /\ Family(C, entries) /\ Full(C) /\ m <= d
      /\ RootKeys(broot) = Firsts(C)
      /\ \A j \in 1 .. m : PtrAt(broot, j) = P[j] /\ below[P[j]] = C[j] /\ C[j] \in Keys /\ Sorted(C[j]) /\ C[j] # << >>
  BY TwoRead DEF Two
<1>2. /\ i \in 1 .. m /\ k \in Range(u) /\ (i = 1 => e \in Range(u) \/ 1 < m)
      /\ \A j \in 1 .. m : /\ j < i => Before(Range(C[j]), {k})
                           /\ j > i => Before({k}, Range(C[j]))
  BY ChildFound
<1> HIDE DEF i, m
<1>3. u \in Keys /\ Sorted(u)
  BY <1>1, <1>2
<1>4. /\ s \in Keys /\ Sorted(s) /\ Range(s) = Range(u) \ {k}
      /\ \A x \in Range(u) : x < k => s # << >> /\ s[1] = u[1]
  <2> HIDE DEF u
  <2> QED
    BY <1>2, <1>3, SortedRemove
<1>5. Len(s) \in Nat
  <2> HIDE DEF u, s
  <2> QED
    BY <1>4, RangeOf
<1>6. /\ DeleteBelow(k) /\ ChildOf(broot, k) = i /\ PtrAt(broot, i) = P[i] /\ below[P[i]] = u
  BY <1>1, <1>2 DEF i
<1>15. ptrs = PtrsOf(entries) /\ PtrsBut(k) = PtrsOf(E)
  <2>1. ptrs = PtrsOf(entries)
    BY DEF DeleteBelow, Along
  <2> QED
    BY <2>1, PtrsShrink
<1>7. IF Len(s) >= MinRecs THEN broot' = b /\ below' = With(P[i], s) /\ ptrs' = PtrsBut(k)
      ELSE IF broot.recs = 1 THEN KillIroot(b, With(P[i], s), PtrsBut(k), h = 1)
      ELSE \E l \in {i - 1, i} \cap (1 .. broot.recs - 1) :
             LET t == Both(l, i, s) IN
             IF Len(t) > 2 * MinRecs - 1
             THEN /\ Share(l, t, IF l = i THEN MinRecs ELSE Len(t) - MinRecs)
                  /\ ptrs' = PtrsBut(k)
             ELSE KillIroot(Left(Put(broot, [RootKeys(broot) EXCEPT ![l] = t[1]], << >>), l + 1),
                    [q \in DOMAIN below \ {PtrAt(broot, l + 1)} |->
                       IF q = PtrAt(broot, l) THEN t ELSE below[q]], PtrsBut(k), TRUE)
  BY <1>6 DEF DeleteBelow
<1>8. Family(D, E)
  <2>1. \A j \in 1 .. Len(C) : /\ j < i => Before(Range(C[j]), Range(u))
                               /\ j > i => Before(Range(u), Range(C[j]))
    BY <1>1, <1>2 DEF Family, Chained, m
  <2>2. \A j \in 1 .. Len(C) : /\ j < i => Before(Range(C[j]), Range(s))
                               /\ j > i => Before(Range(s), Range(C[j]))
    <3> HIDE DEF s, u
    <3> QED
      BY <2>1, <1>4 DEF Before
  <2>3. Family(D, (entries \ Range(C[i])) \cup Range(s))
    <3> HIDE DEF s
    <3> QED
      BY <2>2, <1>1, <1>2, <1>4, FamilyReplaced DEF m
  <2>4. Range(u) \subseteq entries
    BY <1>1, <1>2 DEF Family, Holding, m
  <2>5. (entries \ Range(u)) \cup Range(s) = E
    <3> HIDE DEF s, u
    <3> QED
      BY <2>4, <1>2, <1>4
  <2> QED
    BY <2>3, <2>5, Zenon DEF u
<1>9. D \in Children /\ Len(D) = Len(C) /\ \A j \in 1 .. Len(C) : D[j] = IF j = i THEN s ELSE C[j]
  <2>1. C \in Children /\ i \in 1 .. Len(C) /\ s \in Keys
    BY <1>1, <1>2, <1>4 DEF m
  <2> HIDE DEF s, u, E
  <2> QED
    BY <2>1, ReplacedAt
<1>10. MinRecs \in Nat /\ MinRecs > 0
  BY BlocksHold
<1>11. ASSUME s # << >>
       PROVE  b = Root(2, Firsts(D), P) /\ Two(D, P, b, With(P[i], s), E, d)
  <2>1. Two(D, P, Root(2, Firsts(D), P), With(P[i], s), E, d)
    <3>1. i \in 1 .. Len(C) /\ s \in Keys
      BY <1>2, <1>4 DEF m
    <3> HIDE DEF s, E, u
    <3> QED
      BY <3>1, <1>8, <1>11, ChangeStep
  <2> DEFINE L == [Firsts(C) EXCEPT ![i] = Head(s)]
             G == Firsts(D)
  <2>2. Full(D)
    <3> HIDE DEF D, s
    <3> QED
      BY <1>1, <1>9, <1>11 DEF Full
  <2>3. G \in Keys /\ Len(G) = m /\ \A j \in 1 .. m : G[j] = D[j][1]
    <3> HIDE DEF D
    <3> QED
      BY <2>2, <1>9, FirstsOf DEF m
  <2>4. Firsts(C) = [j \in 1 .. m |-> C[j][1]] /\ G = [j \in 1 .. m |-> D[j][1]]
    <3> HIDE DEF D
    <3> QED
      BY <1>9 DEF Firsts, m
  <2>5. \A j \in 1 .. m : D[j][1] = IF j = i THEN s[1] ELSE C[j][1]
    <3> HIDE DEF D, s
    <3> QED
      BY <1>9 DEF m
  <2> HIDE DEF D
  <2>6. ASSUME h = 1 PROVE b = Root(2, Firsts(D), P)
    <3>1. L = G
      <4> HIDE DEF s
      <4>1. Head(s) = s[1]
        BY <1>4, <1>11 DEF Keys
      <4>2. L = [j \in 1 .. m |-> IF j = i THEN s[1] ELSE C[j][1]]
        BY <2>4, <4>1, <1>2
      <4> HIDE DEF G, L
      <4> QED
        BY <2>4, <2>5, <4>2
    <3>2. b = Put(broot, G, << >>)
      BY <2>6, <3>1, <1>1, Zenon
    <3> HIDE DEF G
    <3>3. Put(broot, G, << >>) = Root(2, G, P)
      <4>1. G \in Keys /\ Len(G) = Len(C)
        BY <2>3 DEF m
      <4> HIDE DEF b, s, u, E, D, h
      <4> QED
        BY <4>1, RootRekeyed
    <3> QED
      BY <3>2, <3>3, Zenon DEF G
  <2>7. ASSUME h # 1 PROVE b = Root(2, Firsts(D), P)
    <3>1. s[1] = u[1]
      <4> HIDE DEF u
      <4>1. h \in 1 .. Len(u) + 1 /\ \A j \in 1 .. Len(u) : u[j] < k <=> j < h
        BY <1>3, Placed DEF h
      <4>2. u # << >> /\ Len(u) \in Nat
        BY <1>2, <1>3, RangeOf
      <4>3. u[1] \in Range(u)
        BY <1>3, <4>2, BeginsWithKey
      <4>4. 1 < h /\ 1 \in 1 .. Len(u)
        <5> HIDE DEF h
        <5> QED
          BY <2>7, <4>1, <4>2, <1>3, RangeOf
      <4>5. u[1] < k
        BY <4>1, <4>4
      <4> HIDE DEF s
      <4> QED
        BY <4>3, <4>5, <1>4
    <3>2. \A j \in 1 .. m : D[j][1] = C[j][1]
      <4> HIDE DEF s
      <4> QED
        BY <2>5, <3>1
    <3>3. G = Firsts(C)
      <4> HIDE DEF G
      <4> QED
        BY <2>4, <3>2
    <3>4. b = Root(2, Firsts(C), P)
      BY <2>7, <1>1
    <3> QED
      BY <3>3, <3>4, Zenon
  <2>8. b = Root(2, Firsts(D), P)
    BY <2>6, <2>7, Zenon
  <2> HIDE DEF b, s, E
  <2> QED
    BY <2>1, <2>8, Zenon
<1>12. CASE Len(s) >= MinRecs
  <2>1. s # << >>
    <3> HIDE DEF s
    <3> QED
      BY <1>10, <1>12
  <2>2. broot' = b /\ below' = With(P[i], s) /\ ptrs' = PtrsBut(k)
    BY <1>7, <1>12
  <2> HIDE DEF b, D, s, E
  <2>3. Two(D, P, broot', below', E, d)
    BY <2>1, <2>2, <1>11, Zenon
  <2>4. broot'.level = 2
    BY <2>3, TwoRead
  <2>5. Along(broot', ptrs', E)
    BY <2>2, <2>4, <1>15, Zenon DEF Along
  <2> QED
    BY <2>3, <2>5, TwoShape DEF E
<1>13. CASE ~ (Len(s) >= MinRecs) /\ broot.recs = 1
  <2>1. e \in Range(u)
    BY <1>1, <1>2, <1>13
  <2>2. s # << >>
    BY <2>1, <1>4
  <2>3. KillIroot(b, With(P[i], s), PtrsOf(E), h = 1)
    <3>1. KillIroot(b, With(P[i], s), PtrsBut(k), h = 1)
      BY <1>7, <1>13
    <3> QED
      BY <3>1, <1>15, Zenon
  <2> DEFINE kids == With(P[i], s)
             touched == h = 1
  <2>4. Two(D, P, b, kids, E, DMaxRecs(fork)) /\ KillIroot(b, kids, PtrsOf(E), touched)
    BY <2>2, <2>3, <1>11
  <2> HIDE DEF b, D, s, E, kids, touched
  <2> QED
    BY <2>4, RootKilled DEF E
<1>14. CASE ~ (Len(s) >= MinRecs) /\ ~ (broot.recs = 1)
  <2>1. PICK l \in {i - 1, i} \cap (1 .. broot.recs - 1) :
             LET t == Both(l, i, s) IN
             IF Len(t) > 2 * MinRecs - 1
             THEN /\ Share(l, t, IF l = i THEN MinRecs ELSE Len(t) - MinRecs)
                  /\ ptrs' = PtrsBut(k)
             ELSE KillIroot(Left(Put(broot, [RootKeys(broot) EXCEPT ![l] = t[1]], << >>), l + 1),
                    [q \in DOMAIN below \ {PtrAt(broot, l + 1)} |->
                       IF q = PtrAt(broot, l) THEN t ELSE below[q]], PtrsBut(k), TRUE)
    BY <1>7, <1>14
  <2> DEFINE t == Both(l, i, s)
             c == IF l = i THEN MinRecs ELSE Len(t) - MinRecs
  <2>2. /\ l \in 1 .. Len(C) - 1 /\ t = D[l] \o D[l + 1] /\ t \in Keys /\ Len(t) > Len(s)
        /\ \A j \in 1 .. Len(C) : j # l /\ j # l + 1 => D[j] = C[j]
    <3>1. i \in 1 .. Len(C) /\ s \in Keys
      BY <1>2, <1>4 DEF m
    <3> HIDE DEF s, u
    <3>2. Joined(t, l, C, D, s)
      BY <3>1, BothRead
    <3> HIDE DEF t, D
    <3> QED
      BY <3>2 DEF Joined
  <2>3. Len(t) \in Nat /\ Len(t) > 0 /\ t # << >>
    <3>1. Len(t) \in Nat
      <4> HIDE DEF t
      <4> QED
        BY <2>2, RangeOf
    <3>2. Len(t) > Len(s)
      BY <2>2
    <3> HIDE DEF t, s
    <3>3. Len(t) > 0
      BY <3>1, <3>2, <1>5
    <3> QED
      BY <3>1, <3>3
  <2>4. CASE Len(t) > 2 * MinRecs - 1
    <3>1. Share(l, t, c) /\ ptrs' = PtrsBut(k)
      BY <2>1, <2>4
    <3>2. c \in 1 .. Len(t) - 1
      <4> HIDE DEF t
      <4> QED
        BY <2>3, <2>4, <1>10
    <3> HIDE DEF c, t, D, E
    <3>3. Share(l, D[l] \o D[l + 1], c) /\ c \in 1 .. Len(D[l] \o D[l + 1]) - 1
      BY <2>2, <3>1, <3>2, Zenon
    <3>4. Shape(broot', below', E, d)
      BY <2>2, <3>3, <1>8, <1>9, ShareStep
    <3>5. broot'.level = 2
      BY <1>1, <3>3, ShareLevel
    <3>6. Along(broot', ptrs', E)
      BY <3>1, <3>5, <1>15, Zenon DEF Along
    <3> QED
      BY <3>4, <3>6 DEF E
  <2>5. CASE ~ (Len(t) > 2 * MinRecs - 1)
    <3>1. JoinAt(l, t, PtrsOf(E))
      <4>1. JoinAt(l, t, PtrsBut(k))
        BY <2>1, <2>5 DEF JoinAt
      <4> QED
        BY <4>1, <1>15, Zenon
    <3> HIDE DEF c, t, D, E
    <3>2. Joined(t, l, C, D, s) /\ d \in Nat /\ Family(D, E) /\ Len(D) = Len(C) /\ t # << >>
      BY <2>2, <2>3, <1>8, <1>9 DEF Joined
    <3>3. Shape(broot', below', E, d) /\ Along(broot', ptrs', E)
      BY <3>1, <3>2, JoinStep
    <3> QED
      BY <3>3 DEF E
  <2> QED
    BY <2>4, <2>5
<1> QED
  BY <1>12, <1>13, <1>14

(***************************************************************************)
(* The inode: its attribute fork, its way to disk and back.                *)
(***************************************************************************)
LEMMA Room ==
  ASSUME NEW f \in Forks \cup {Whole}
  PROVE  /\ DMaxRecs(f) \in Nat \ {0} /\ DMaxRecs(f) <= DMaxRecs(Whole) /\ DMaxRecs(Whole) \in Nat
         /\ f \in Nat
<1>1. f \in Nat /\ Whole \in Nat /\ f <= Whole /\ DMaxRecs(f) > 0 /\ DMaxRecs(Whole) > 0
  BY SizeAssumption
<1>2. (f - 4) \div 16 <= (Whole - 4) \div 16 /\ (f - 4) \div 16 \in Int /\ (Whole - 4) \div 16 \in Int
  BY <1>1
<1> QED
  BY <1>1, <1>2 DEF DMaxRecs, BmdrLen

\* A root of n keys is as large as the fork's room for n keys, but for the header.
LEMMA RoomFits ==
  ASSUME NEW n \in Nat, NEW f \in Nat
  PROVE  /\ n <= DMaxRecs(f) => Space(n) <= f + LblockLen - BmdrLen /\ BmdrLen + 16 * n <= f
         /\ Space(n) <= f => n <= DMaxRecs(f)
BY DEF DMaxRecs, BmdrLen, Space, LblockLen

LEMMA AttrForkStep ==
  ASSUME fork \in Forks \cup {Whole}, Shape(broot, below, entries, DMaxRecs(fork)), AddAttrFork,
         Along(broot, ptrs, entries)
  PROVE  /\ fork' \in Forks /\ Shape(broot', below', entries', DMaxRecs(fork'))
         /\ Along(broot', ptrs', entries')
<1>1. PICK f \in Forks :
        /\ fork' = f
        /\ IF broot.bytes <= f THEN UNCHANGED <<broot, below, ptrs>>
           ELSE /\ broot.level = 1
                /\ broot' = NewIroot(broot, Fresh)
                /\ below' = With(Fresh, RootKeys(broot))
                /\ ptrs' = CopiedOut(broot)
  BY DEF AddAttrFork
<1> DEFINE d == DMaxRecs(fork)
           n == DMaxRecs(f)
<1>2. broot.bytes > 0 /\ entries' = entries
  BY DEF AddAttrFork
<1>3. n \in Nat \ {0} /\ f \in Nat
  BY Room
<1>4. Shape(broot, below, entries, d)
  OBVIOUS
<1> HIDE DEF d
<1>5. CASE broot.bytes <= f
  <2>1. broot' = broot /\ below' = below /\ ptrs' = ptrs
    BY <1>1, <1>5
  <2>2. CASE NoTree(broot, below, entries)
    BY <2>2, <1>2 DEF NoTree, NoRoot
  <2>3. ASSUME NEW K \in Keys, One(K, broot, below, entries, d) PROVE Shape(broot, below, entries, n)
    <3>1. broot.bytes = Space(Len(K)) /\ Len(K) \in Nat
      BY <2>3, OneRead
    <3>2. Len(K) <= n
      BY <3>1, <1>3, <1>5, RoomFits
    <3> HIDE DEF n
    <3>3. One(K, broot, below, entries, n)
      BY <3>2, <2>3 DEF One
    <3> QED
      BY <3>3, OneShape
  <2>4. ASSUME NEW C \in Children, NEW P \in Seq(Block), Two(C, P, broot, below, entries, d)
        PROVE  Shape(broot, below, entries, n)
    <3>1. broot.bytes = Space(Len(C)) /\ Len(C) \in Nat \ {0}
      BY <2>4, TwoRead
    <3>2. Len(C) \in 1 .. n
      <4>1. Len(C) <= n
        BY <3>1, <1>3, <1>5, RoomFits
      <4> HIDE DEF n
      <4> QED
        BY <4>1, <3>1, <1>3
    <3> HIDE DEF n
    <3>3. Two(C, P, broot, below, entries, n)
      BY <3>2, <2>4 DEF Two
    <3> QED
      BY <3>3, TwoShape
  <2>5. Shape(broot, below, entries, n)
    BY <2>2, <2>3, <2>4, <1>4 DEF Shape
  <2>6. Along(broot', ptrs', entries')
    BY <2>1, <1>2, Zenon
  <2> QED
    BY <2>1, <2>5, <2>6, <1>1, <1>2, Zenon
<1>6. CASE ~ (broot.bytes <= f)
  <2>1. /\ broot.level = 1 /\ broot' = NewIroot(broot, Fresh) /\ below' = With(Fresh, RootKeys(broot))
        /\ ptrs' = CopiedOut(broot)
    BY <1>1, <1>6
  <2>2. PICK K \in Keys : One(K, broot, below, entries, d)
    BY <2>1, <1>4, LevelOne
  <2>3. RootKeys(broot) = K
    BY <2>2, OneRead
  <2>4. K # << >> /\ Sorted(K) /\ Range(K) = entries /\ below' = With(Fresh, K)
    BY <2>1, <2>2, <2>3 DEF One
  <2> HIDE DEF n
  <2>5. Shape(broot', below', Range(K), n) /\ broot'.level = 2
    BY <2>1, <2>2, <2>4, <1>3, RaiseStep
  <2>6. ptrs' = PtrsOf(entries')
    BY <2>1, <2>2, <1>2, PtrsCopiedOut
  <2>7. Along(broot', ptrs', entries')
    BY <2>5, <2>6, Zenon DEF Along
  <2> QED
    BY <2>4, <2>5, <2>7, <1>1, <1>2, Zenon DEF n
<1> QED
  BY <1>5, <1>6

\* The fork on disk that a root makes (xfs_bmbt_to_bmdr).
DiskArea(b, d) ==
  [u \in 1 .. 2 * d |->
     IF u <= b.recs THEN KeyAt(b, u)
     ELSE IF u - d \in 1 .. b.recs THEN PtrAt(b, u - d) ELSE Junk]

\* The root that is made of it (xfs_bmdr_to_bmbt).
FromArea(lv, n, d, A) == Made(lv, n, SubSeq(A, 1, n), SubSeq(A, d + 1, d + n))

\* The first n keys and pointers of a root.
Has(b, n, K, P) ==
  /\ b.recs = n /\ Len(K) = n /\ Len(P) = n
  /\ \A i \in 1 .. n : KeyAt(b, i) = K[i] /\ PtrAt(b, i) = P[i]

LEMMA WrittenIsRead ==
  ASSUME NEW b, NEW lv \in Nat, NEW K \in Seq(Unit), NEW P \in Seq(Unit), NEW n \in Nat \ {0}, NEW d \in Nat,
         n <= d, Has(b, n, K, P)
  PROVE  /\ DiskArea(b, d) \in Seq(Unit)
         /\ FromArea(lv, n, d, DiskArea(b, d)) = Root(lv, K, P)
<1> DEFINE A == DiskArea(b, d)
           w == 2 * d
           S == SubSeq(A, 1, n)
           T == SubSeq(A, d + 1, d + n)
<1>0. /\ Len(K) = n /\ Len(P) = n /\ b.recs = n
      /\ \A i \in 1 .. n : KeyAt(b, i) = K[i] /\ PtrAt(b, i) = P[i]
  BY DEF Has
<1>1. Junk \in Unit /\ (\A i \in 1 .. n : K[i] \in Unit /\ P[i] \in Unit) /\ w \in Nat
  BY <1>0 DEF Unit
<1>2. A \in [1 .. w -> Unit]
  <2>1. ASSUME NEW u \in 1 .. w
        PROVE  (IF u <= b.recs THEN KeyAt(b, u)
                ELSE IF u - d \in 1 .. b.recs THEN PtrAt(b, u - d) ELSE Junk) \in Unit
    <3> DEFINE v == u - d
    <3>1. CASE u <= n
      BY <3>1, <1>0, <1>1
    <3>2. CASE ~ (u <= n) /\ v \in 1 .. n
      <4> HIDE DEF v
      <4>1. PtrAt(b, v) \in Unit
        BY <3>2, <1>0, <1>1
      <4> QED
        BY <4>1, <3>2, <1>0 DEF v
    <3>3. CASE ~ (u <= n) /\ ~ (v \in 1 .. n)
      BY <3>3, <1>0, <1>1
    <3> QED
      BY <3>1, <3>2, <3>3
  <2> QED
    BY <2>1 DEF DiskArea
<1>3. /\ \A u \in 1 .. w : u <= n => A[u] = KeyAt(b, u)
      /\ \A u \in 1 .. w : ~ (u <= n) /\ u - d \in 1 .. n => A[u] = PtrAt(b, u - d)
  BY <1>0 DEF DiskArea
<1> HIDE DEF A, w
<1>4. A \in Seq(Unit) /\ Len(A) = w
  BY <1>1, <1>2, FunctionSeq
<1>5. S \in Seq(Unit) /\ Len(S) = n /\ \A j \in 1 .. n : S[j] = A[j]
  <2> DEFINE one == 1
  <2>1. one \in 1 .. Len(A) + 1 /\ n \in one - 1 .. Len(A)
    BY <1>4 DEF w
  <2> HIDE DEF one
  <2>2. /\ SubSeq(A, one, n) \in Seq(Unit) /\ Len(SubSeq(A, one, n)) = n - one + 1
        /\ \A j \in 1 .. n - one + 1 : SubSeq(A, one, n)[j] = A[one + j - 1]
    BY <2>1, <1>4, Cut
  <2> HIDE DEF S
  <2>3. S = SubSeq(A, one, n) /\ one = 1
    BY DEF S, one
  <2> QED
    BY <2>2, <2>3
<1>6. T \in Seq(Unit) /\ Len(T) = n /\ \A j \in 1 .. n : T[j] = A[d + j]
  <2> DEFINE l == d + 1
             h == d + n
  <2>1. l \in 1 .. Len(A) + 1 /\ h \in l - 1 .. Len(A) /\ h - l + 1 = n
    BY <1>4 DEF w
  <2> HIDE DEF l, h
  <2>2. /\ SubSeq(A, l, h) \in Seq(Unit) /\ Len(SubSeq(A, l, h)) = h - l + 1
        /\ \A j \in 1 .. h - l + 1 : SubSeq(A, l, h)[j] = A[l + j - 1]
    BY <2>1, <1>4, Cut
  <2>3. \A j \in 1 .. n : l + j - 1 = d + j
    BY DEF l
  <2>4. SubSeq(A, l, h) = T
    BY DEF l, h
  <2> HIDE DEF T
  <2> QED
    BY <2>1, <2>2, <2>3, <2>4
<1> HIDE DEF S, T
<1>7. S = K
  <2>1. \A j \in 1 .. n : S[j] = K[j]
    BY <1>0, <1>3, <1>5 DEF w
  <2> QED
    BY <1>0, <2>1, <1>5, SeqEqual
<1>8. T = P
  <2>1. ASSUME NEW j \in 1 .. n PROVE T[j] = P[j]
    <3> DEFINE u == d + j
    <3>1. u \in 1 .. w /\ ~ (u <= n) /\ u - d = j
      BY DEF w
    <3> HIDE DEF u
    <3>2. A[u] = PtrAt(b, j)
      BY <3>1, <1>3
    <3> QED
      BY <1>0, <3>2, <1>6 DEF u
  <2> QED
    BY <1>0, <2>1, <1>6, SeqEqual
<1>9. Of(n, K) /\ Of(n, P)
  BY <1>0, OfItsLength
<1>10. Made(lv, n, K, P) = Root(lv, K, P)
  BY <1>9, RootMade
<1> QED
  BY <1>4, <1>7, <1>8, <1>10, Zenon DEF A, S, T, FromArea

\* The fork on disk can be read, and is that of the root in memory.
Stored == Readable /\ FromDisk = broot /\ dinode.fork = fork
IsDinode(d) == /\ d = [fork |-> d.fork, level |-> d.level, recs |-> d.recs, area |-> d.area]
               /\ d.area \in Seq(Unit)

LEMMA FlushStep ==
  ASSUME NEW E, fork \in Forks \cup {Whole}, Shape(broot, below, E, DMaxRecs(fork)),
         broot.bytes > 0, dinode' = ToDisk, UNCHANGED <<broot, fork>>
  PROVE  IsDinode(dinode') /\ Stored'
<1> DEFINE d == DMaxRecs(fork)
           A == DiskArea(broot, d)
           n == broot.recs
           lv == broot.level
           Wrote(K, P) == /\ n \in Nat \ {0} /\ Len(K) = n /\ Len(P) = n /\ n <= d
                          /\ lv \in Nat /\ broot = Root(lv, K, P)
                          /\ \A i \in 1 .. n : KeyAt(broot, i) = K[i] /\ PtrAt(broot, i) = P[i]
<1>1. dinode' = [fork |-> fork, level |-> lv, recs |-> n, area |-> A] /\ broot.bytes > 0
  BY DEF ToDisk, DiskArea
<1>2. d \in Nat
  BY Room
<1> HIDE DEF d
<1>3. \E K \in Seq(Unit), P \in Seq(Unit) : Wrote(K, P)
  <2>0. Shape(broot, below, E, d)
    BY DEF d
  <2>1. CASE NoTree(broot, below, E)
    BY <2>1, <1>1 DEF NoTree, NoRoot
  <2>2. ASSUME NEW K \in Keys, One(K, broot, below, E, d)
        PROVE  K \in Seq(Unit) /\ Leaves(K) \in Seq(Unit) /\ Wrote(K, Leaves(K))
    <3> DEFINE L == Leaves(K)
               m == Len(K)
    <3>1. K \in Seq(Unit)
      BY DEF Keys, Unit
    <3>2. L \in Seq(Unit) /\ Len(L) = m /\ \A i \in 1 .. m : L[i] = Leaf(K[i])
      BY LeavesOf
    <3>3. broot = Root(1, K, L) /\ m <= d
      BY <2>2 DEF One
    <3>4. m \in Nat \ {0} /\ n = m /\ lv = 1
      BY <2>2, OneRead
    <3>5. \A i \in 1 .. m : KeyAt(broot, i) = K[i] /\ PtrAt(broot, i) = Leaf(K[i])
      BY <2>2, OneRead
    <3> HIDE DEF L, n, lv, m
    <3>6. \A i \in 1 .. m : KeyAt(broot, i) = K[i] /\ PtrAt(broot, i) = L[i]
      BY <3>2, <3>5
    <3>7. Len(K) = m
      BY DEF m
    <3>8. Wrote(K, L)
      BY <3>2, <3>3, <3>4, <3>6, <3>7
    <3> QED
      BY <3>1, <3>2, <3>8 DEF L
  <2>3. ASSUME NEW C \in Children, NEW P \in Seq(Block), Two(C, P, broot, below, E, d)
        PROVE  Firsts(C) \in Seq(Unit) /\ P \in Seq(Unit) /\ Wrote(Firsts(C), P)
    <3> DEFINE F == Firsts(C)
               m == Len(C)
    <3>1. P \in Seq(Unit)
      BY DEF Unit
    <3>2. broot = Root(2, F, P) /\ m <= d /\ Len(P) = m
      BY <2>3 DEF Two, Tree
    <3>3. m \in Nat \ {0} /\ n = m /\ lv = 2
      BY <2>3, TwoRead
    <3>4. \A i \in 1 .. m : KeyAt(broot, i) = C[i][1] /\ PtrAt(broot, i) = P[i]
      BY <2>3, TwoRead
    <3>5. F \in Keys /\ Len(F) = m /\ \A i \in 1 .. m : F[i] = C[i][1]
      BY <2>3, FirstsOf DEF Two
    <3> HIDE DEF F, n, lv, m
    <3>6. F \in Seq(Unit)
      BY <3>5 DEF Keys, Unit
    <3>7. \A i \in 1 .. m : KeyAt(broot, i) = F[i] /\ PtrAt(broot, i) = P[i]
      BY <3>4, <3>5
    <3>8. Wrote(F, P)
      BY <3>2, <3>3, <3>5, <3>7
    <3> QED
      BY <3>1, <3>6, <3>8 DEF F
  <2> HIDE DEF Wrote, n, lv
  <2>4. CASE \E K \in Keys : One(K, broot, below, E, d)
    BY <2>2, <2>4
  <2>5. CASE \E C \in Children : \E P \in Seq(Block) : Two(C, P, broot, below, E, d)
    BY <2>3, <2>5
  <2> QED
    BY <2>0, <2>1, <2>4, <2>5 DEF Shape
<1>4. PICK K \in Seq(Unit), P \in Seq(Unit) : Wrote(K, P)
  BY <1>3
<1>5. A \in Seq(Unit) /\ FromArea(lv, n, d, A) = Root(lv, K, P)
  <2> DEFINE b == broot
  <2>1. b.recs = n
    OBVIOUS
  <2> HIDE DEF n, lv
  <2>2. n \in Nat \ {0} /\ n <= d /\ lv \in Nat /\ Has(b, n, K, P)
    BY <1>4, <2>1 DEF Has
  <2> HIDE DEF b, Wrote
  <2>3. DiskArea(b, d) \in Seq(Unit) /\ FromArea(lv, n, d, DiskArea(b, d)) = Root(lv, K, P)
    BY <1>2, <2>1, <2>2, WrittenIsRead
  <2> QED
    BY <2>3, Zenon DEF b, A
<1>6. FromDisk' = FromArea(lv, n, d, A)
  <2> HIDE DEF A, n, lv, Wrote
  <2>1. dinode'.fork = fork /\ dinode'.level = lv /\ dinode'.recs = n /\ dinode'.area = A
    BY <1>1
  <2> QED
    BY <2>1, Zenon DEF FromDisk, FromArea, Made, d
<1>7. broot = Root(lv, K, P)
  BY <1>4
<1>8. IsDinode(dinode')
  <2> HIDE DEF A, n, lv, Wrote
  <2> QED
    BY <1>1, <1>5 DEF IsDinode
<1>9. Readable'
  <2>1. n \in Nat /\ n <= d
    BY <1>4
  <2>2. fork \in Nat
    BY Room
  <2>3. BmdrLen + 16 * n <= fork
    <3> HIDE DEF n
    <3> QED
      BY <2>1, <2>2, RoomFits DEF d
  <2>4. dinode'.recs = n /\ dinode'.fork = fork
    BY <1>1
  <2> HIDE DEF n
  <2> QED
    BY <2>3, <2>4 DEF Readable
<1> HIDE DEF A, n, lv, Wrote
<1>10. dinode'.fork = fork' /\ broot' = broot
  BY <1>1
<1>11. FromDisk' = broot'
  BY <1>5, <1>6, <1>7, <1>10, Zenon
<1> QED
  BY <1>8, <1>9, <1>10, <1>11, Zenon DEF Stored

(***************************************************************************)
(* The invariant, by the actions.                                          *)
(***************************************************************************)
Tracks == Shape(broot, below, entries, DMaxRecs(fork)) /\ Along(broot, ptrs, entries)
OnDisk == /\ IsDinode(dinode) /\ logged \in BOOLEAN /\ clean \in BOOLEAN
          /\ broot.bytes > 0 /\ ~ logged => Stored
          /\ clean => broot.bytes > 0 /\ ~ logged
Sound == /\ fork \in Forks \cup {Whole} /\ entries \subseteq Key
         /\ Tracks /\ OnDisk

LEMMA SoundInit == Init => Sound
<1> SUFFICES ASSUME Init PROVE Sound
  OBVIOUS
<1>1. DOMAIN below = {}
  BY DEF Init
<1>2. Shape(broot, below, entries, DMaxRecs(fork))
  BY <1>1 DEF Init, Shape, NoTree
<1>3. Along(broot, ptrs, entries)
  <2>1. broot.level = 0 /\ ptrs = << >>
    BY DEF Init, NoRoot
  <2> QED
    BY <2>1 DEF Along
<1>4. OnDisk
  <2>1. dinode = [fork |-> Whole, level |-> 0, recs |-> 0, area |-> << >>]
    BY DEF Init
  <2>2. IsDinode(dinode)
    BY <2>1 DEF IsDinode
  <2>3. broot.bytes = 0 /\ ~ clean /\ clean \in BOOLEAN /\ logged \in BOOLEAN
    BY DEF Init, NoRoot
  <2>4. ~ (broot.bytes > 0)
    BY <2>3
  <2> QED
    BY <2>2, <2>3, <2>4, Zenon DEF OnDisk
<1>5. Tracks
  BY <1>2, <1>3, Zenon DEF Tracks
<1> QED
  BY <1>4, <1>5 DEF Init, Sound

\* A step logs the root, leaves it as it is, or leaves none.
Logs == \/ logged' = TRUE
        \/ logged' = logged /\ broot' = broot
        \/ logged' = logged /\ ~ (broot'.bytes > 0)

LEMMA KillLogs ==
  ASSUME NEW b, NEW kids, NEW ptr, NEW touched \in BOOLEAN, logged \in BOOLEAN,
         KillIroot(b, kids, ptr, touched), touched \/ b = broot
  PROVE  Logs
BY DEF KillIroot, LogRoot, Logs

LEMMA DeleteLogs ==
  ASSUME logged \in BOOLEAN, NEW k, DeleteRoot(k) \/ DeleteBelow(k) PROVE Logs
<1>1. CASE DeleteRoot(k)
  <2> DEFINE b == Left(broot, PlaceOf(RootKeys(broot), k))
             touched == TRUE
  <2>1. KillIroot(b, below, ptrs, touched) /\ touched \in BOOLEAN /\ touched
    BY <1>1 DEF DeleteRoot
  <2> HIDE DEF b, touched
  <2> QED
    BY <2>1, KillLogs
<1>2. CASE DeleteBelow(k)
  <2> DEFINE i == ChildOf(broot, k)
             p == PtrAt(broot, i)
             m == PlaceOf(below[p], k)
             s == RemoveAt(below[p], m)
             first == m = 1
             b == IF first THEN Put(broot, [RootKeys(broot) EXCEPT ![i] = Head(s)], << >>) ELSE broot
             kids == With(p, s)
  <2>1. \/ broot' = b /\ logged' = (logged \/ first)
        \/ KillIroot(b, kids, PtrsBut(k), first)
        \/ logged' = TRUE
        \/ \E c, q : KillIroot(c, q, PtrsBut(k), TRUE)
    <3>1. IF Len(s) >= MinRecs THEN /\ broot' = b /\ below' = kids /\ ptrs' = PtrsBut(k)
                                    /\ logged' = (logged \/ first)
          ELSE IF broot.recs = 1 THEN KillIroot(b, kids, PtrsBut(k), first)
          ELSE \E l \in {i - 1, i} \cap (1 .. broot.recs - 1) :
                 LET t == Both(l, i, s) IN
                 IF Len(t) > 2 * MinRecs - 1
                 THEN /\ Share(l, t, IF l = i THEN MinRecs ELSE Len(t) - MinRecs)
                      /\ ptrs' = PtrsBut(k)
                 ELSE KillIroot(Left(Put(broot, [RootKeys(broot) EXCEPT ![l] = t[1]], << >>), l + 1),
                        [q \in DOMAIN below \ {PtrAt(broot, l + 1)} |->
                           IF q = PtrAt(broot, l) THEN t ELSE below[q]], PtrsBut(k), TRUE)
      BY <1>2, Zenon DEF DeleteBelow
    <3>2. ASSUME NEW l, NEW t, NEW c, Share(l, t, c) PROVE logged' = TRUE
      BY <3>2, Zenon DEF Share, LogRoot
    <3> HIDE DEF b, s, kids, first, m, p, i
    <3> QED
      BY <3>1, <3>2, Zenon
  <2>2. first \in BOOLEAN /\ (first \/ b = broot)
    BY Zenon
  <2> HIDE DEF b, kids, first
  <2>3. ASSUME broot' = b, logged' = (logged \/ first) PROVE Logs
    <3>1. CASE first
      <4>1. logged' = TRUE
        BY <3>1, <2>3
      <4> QED
        BY <4>1, Zenon DEF Logs
    <3>2. CASE ~ first
      <4>1. logged' = logged /\ broot' = broot
        BY <3>2, <2>2, <2>3
      <4> QED
        BY <4>1, Zenon DEF Logs
    <3> QED
      BY <3>1, <3>2
  <2>4. ASSUME KillIroot(b, kids, PtrsBut(k), first) PROVE Logs
    BY <2>2, <2>4, KillLogs
  <2>5. ASSUME NEW c, NEW q, KillIroot(c, q, PtrsBut(k), TRUE) PROVE Logs
    <3> DEFINE touched == TRUE
    <3>1. KillIroot(c, q, PtrsBut(k), touched) /\ touched \in BOOLEAN /\ touched
      BY <2>5
    <3> HIDE DEF touched
    <3> QED
      BY <3>1, KillLogs
  <2>6. ASSUME logged' = TRUE PROVE Logs
    BY <2>6, Zenon DEF Logs
  <2> QED
    BY <2>1, <2>3, <2>4, <2>5, <2>6, Zenon
<1> QED
  BY <1>1, <1>2

LEMMA InsertLogs ==
  ASSUME NEW k, InsertRoot(k) \/ InsertBelow(k) PROVE Logs
<1>1. CASE InsertRoot(k)
  BY <1>1, Zenon DEF InsertRoot, LogRoot, Logs
<1>2. CASE InsertBelow(k)
  <2>1. ASSUME NEW l, NEW t, NEW c, Share(l, t, c) PROVE logged' = TRUE
    BY <2>1, Zenon DEF Share, LogRoot
  <2>2. (broot' = broot /\ logged' = logged) \/ logged' = TRUE
    BY <1>2, <2>1, Zenon DEF InsertBelow, LogRoot
  <2> QED
    BY <2>2, Zenon DEF Logs
<1> QED
  BY <1>1, <1>2

\* What is on disk stays right by a step that changes no fork and logs.
LEMMA LoggedSound ==
  ASSUME OnDisk, dinode' = dinode, clean' = FALSE, fork' = fork, Logs
  PROVE  OnDisk'
<1>1. IsDinode(dinode) /\ (broot.bytes > 0 /\ ~ logged => Stored) /\ logged \in BOOLEAN
  BY DEF OnDisk
<1>2. logged' \in BOOLEAN /\ clean' \in BOOLEAN /\ ~ clean'
  BY <1>1 DEF Logs
<1>3. IsDinode(dinode')
  BY <1>1, Zenon
<1>4. ASSUME broot' = broot, Stored PROVE Stored'
  BY <1>4, Zenon DEF Stored, Readable, FromDisk
<1>5. ASSUME broot'.bytes > 0, ~ logged' PROVE Stored'
  <2>1. logged' = logged /\ broot' = broot
    BY <1>5 DEF Logs
  <2>2. Stored
    BY <2>1, <1>1, <1>5, Zenon
  <2> QED
    BY <2>1, <2>2, <1>4
<1> QED
  BY <1>2, <1>3, <1>5, Zenon DEF OnDisk

\* A step that changes the root dirties the inode and leaves the fork alone.
LEMMA ChangedSound ==
  ASSUME NEW E, OnDisk, E \subseteq Key, fork \in Forks \cup {Whole}, Logs,
         Changed(E), Shape(broot', below', E, DMaxRecs(fork)), Along(broot', ptrs', E)
  PROVE  Sound'
<1>1. entries' = E /\ clean' = FALSE /\ fork' = fork /\ dinode' = dinode
  BY DEF Changed
<1>2. Tracks'
  BY <1>1, Zenon DEF Tracks
<1>3. OnDisk'
  BY <1>1, LoggedSound
<1> QED
  BY <1>1, <1>2, <1>3 DEF Sound

LEMMA ToBtreeSound == ASSUME Sound, NEW k \in Key, ToBtree(k) PROVE Sound'
<1> DEFINE n == DMaxRecs(fork)
<1>1. n \in Nat \ {0}
  BY Room DEF Sound
<1>2. Shape(broot, below, entries, n) /\ Along(broot, ptrs, entries)
  BY DEF Sound, Tracks
<1>3. Changed({k}) /\ Logs
  BY DEF ToBtree, LogRoot, Logs
<1> HIDE DEF n
<1>4. Shape(broot', below', entries', n) /\ Along(broot', ptrs', entries')
  BY <1>1, <1>2, BeginStep
<1>5. entries' = {k}
  BY <1>3 DEF Changed
<1>6. Shape(broot', below', {k}, DMaxRecs(fork)) /\ Along(broot', ptrs', {k})
  BY <1>4, <1>5, Zenon DEF n
<1> QED
  BY <1>3, <1>6, ChangedSound DEF Sound

LEMMA ToExtentsSound == ASSUME Sound, ToExtents PROVE Sound'
<1> DEFINE n == DMaxRecs(fork)
<1>1. n \in Nat \ {0}
  BY Room DEF Sound
<1>2. Shape(broot, below, entries, n) /\ Along(broot, ptrs, entries)
  BY DEF Sound, Tracks
<1>3. Changed({}) /\ logged' = logged
  BY DEF ToExtents
<1> HIDE DEF n
<1>4. Shape(broot', below', entries', n) /\ Along(broot', ptrs', entries')
  BY <1>1, <1>2, EndStep
<1>5. entries' = {}
  BY <1>3 DEF Changed
<1>6. Shape(broot', below', {}, DMaxRecs(fork)) /\ Along(broot', ptrs', {})
  BY <1>4, <1>5, Zenon DEF n
<1>7. Logs
  <2>1. NoTree(broot', below', {})
    BY <1>5, <1>6, NoneLeft
  <2>2. broot'.bytes = 0
    BY <2>1 DEF NoTree, NoRoot
  <2> QED
    BY <2>2, <1>3 DEF Logs
<1> QED
  BY <1>3, <1>6, <1>7, ChangedSound DEF Sound

LEMMA InsertSound == ASSUME Sound, NEW k \in Key, Insert(k) PROVE Sound'
<1> DEFINE d == DMaxRecs(fork)
           E == entries \cup {k}
<1>1. d \in Nat \ {0} /\ d <= DMaxRecs(Whole)
  BY Room DEF Sound
<1>2. Shape(broot, below, entries, d) /\ Along(broot, ptrs, entries) /\ logged \in BOOLEAN
  BY DEF Sound, Tracks, OnDisk
<1>3. PICK e \in entries : e < k
  BY DEF Insert
<1>4. k \notin entries /\ Changed(E) /\ (InsertRoot(k) \/ InsertBelow(k))
  BY DEF Insert
<1>5. d = DMaxRecs(fork)
  OBVIOUS
<1> HIDE DEF d
<1>6. ASSUME InsertRoot(k) PROVE Shape(broot', below', E, d) /\ Along(broot', ptrs', E)
  <2>1. PICK K \in Keys : One(K, broot, below, entries, d)
    BY <1>2, <1>6, LevelOne DEF InsertRoot
  <2> QED
    BY <1>1, <1>2, <1>3, <1>4, <1>5, <1>6, <2>1, InsertRootStep
<1>7. ASSUME InsertBelow(k) PROVE Shape(broot', below', E, d) /\ Along(broot', ptrs', E)
  <2>1. PICK C \in Children : \E P \in Seq(Block) : Two(C, P, broot, below, entries, d)
    BY <1>2, <1>7, LevelTwo DEF InsertBelow
  <2>2. PICK P \in Seq(Block) : Two(C, P, broot, below, entries, d)
    BY <2>1
  <2> QED
    BY <1>1, <1>2, <1>3, <1>4, <1>5, <1>7, <2>2, InsertBelowStep
<1>8. Shape(broot', below', E, DMaxRecs(fork)) /\ Along(broot', ptrs', E)
  BY <1>4, <1>6, <1>7 DEF d
<1>9. E \subseteq Key
  BY DEF Sound
<1>10. Logs
  BY <1>2, <1>4, InsertLogs
<1> HIDE DEF E
<1> QED
  BY <1>4, <1>8, <1>9, <1>10, ChangedSound DEF Sound

LEMMA DeleteSound == ASSUME Sound, NEW k \in Key, Delete(k) PROVE Sound'
<1> DEFINE d == DMaxRecs(fork)
           E == entries \ {k}
<1>1. d \in Nat \ {0}
  BY Room DEF Sound
<1>2. Shape(broot, below, entries, d) /\ Along(broot, ptrs, entries) /\ logged \in BOOLEAN
  BY DEF Sound, Tracks, OnDisk
<1>3. PICK e \in entries : e < k
  BY DEF Delete
<1>4. k \in entries /\ k \in Nat /\ Changed(E) /\ (DeleteRoot(k) \/ DeleteBelow(k))
  BY KeysAreNat DEF Delete
<1>5. d = DMaxRecs(fork)
  OBVIOUS
<1> HIDE DEF d
<1>6. ASSUME DeleteRoot(k) PROVE Shape(broot', below', E, d) /\ Along(broot', ptrs', E)
  <2>1. PICK K \in Keys : One(K, broot, below, entries, d)
    BY <1>2, <1>6, LevelOne DEF DeleteRoot
  <2> QED
    BY <1>1, <1>2, <1>3, <1>4, <1>5, <1>6, <2>1, DeleteRootStep
<1>7. ASSUME DeleteBelow(k) PROVE Shape(broot', below', E, d) /\ Along(broot', ptrs', E)
  <2>1. PICK C \in Children : \E P \in Seq(Block) : Two(C, P, broot, below, entries, d)
    BY <1>2, <1>7, LevelTwo DEF DeleteBelow
  <2>2. PICK P \in Seq(Block) : Two(C, P, broot, below, entries, d)
    BY <2>1
  <2> QED
    BY <1>1, <1>2, <1>3, <1>4, <1>5, <1>7, <2>2, DeleteBelowStep
<1>8. Shape(broot', below', E, DMaxRecs(fork)) /\ Along(broot', ptrs', E)
  BY <1>4, <1>6, <1>7 DEF d
<1>9. E \subseteq Key
  BY DEF Sound
<1>10. Logs
  BY <1>2, <1>4, DeleteLogs
<1> HIDE DEF E
<1> QED
  BY <1>4, <1>8, <1>9, <1>10, ChangedSound DEF Sound

LEMMA AttrForkSound == ASSUME Sound, AddAttrFork PROVE Sound'
<1>1. fork' \in Forks /\ Shape(broot', below', entries', DMaxRecs(fork')) /\ Along(broot', ptrs', entries')
  BY AttrForkStep DEF Sound, Tracks
<1>2. clean' = FALSE /\ dinode' = dinode /\ entries' = entries /\ logged' = TRUE
  BY DEF AddAttrFork, LogRoot
<1>3. OnDisk'
  <2>1. IsDinode(dinode')
    BY <1>2, Zenon DEF Sound, OnDisk
  <2>2. logged' /\ ~ clean' /\ logged' \in BOOLEAN /\ clean' \in BOOLEAN
    BY <1>2
  <2> QED
    BY <2>1, <2>2, Zenon DEF OnDisk
<1>4. Tracks'
  BY <1>1, Zenon DEF Tracks
<1> QED
  BY <1>1, <1>2, <1>3, <1>4 DEF Sound

LEMMA FlushSound == ASSUME Sound, Flush PROVE Sound'
<1>1. /\ UNCHANGED <<broot, below, ptrs, fork, entries>> /\ clean' = TRUE /\ logged' = FALSE
      /\ broot.bytes > 0 /\ dinode' = IF logged THEN ToDisk ELSE [dinode EXCEPT !.fork = fork]
  BY DEF Flush
<1>2. IsDinode(dinode') /\ Stored'
  <2>1. CASE logged
    <3>1. dinode' = ToDisk
      BY <1>1, <2>1
    <3> QED
      BY <1>1, <3>1, FlushStep DEF Sound, Tracks
  <2>2. CASE ~ logged
    <3>1. IsDinode(dinode) /\ Stored
      BY <1>1, <2>2, Zenon DEF Sound, OnDisk
    <3>2. dinode' = [dinode EXCEPT !.fork = fork]
      BY <1>1, <2>2
    <3>3. dinode' = dinode
      BY <3>1, <3>2 DEF IsDinode, Stored
    <3>4. Readable' /\ FromDisk' = broot' /\ dinode'.fork = fork'
      BY <3>1, <3>3, <1>1, Zenon DEF Stored, Readable, FromDisk
    <3> QED
      BY <3>1, <3>3, <3>4, Zenon DEF Stored
  <2> QED
    BY <2>1, <2>2
<1>3. OnDisk'
  <2>1. broot'.bytes > 0 /\ ~ logged' /\ clean' \in BOOLEAN /\ logged' \in BOOLEAN
    BY <1>1
  <2> QED
    BY <2>1, <1>2, Zenon DEF OnDisk
<1>4. Tracks'
  BY <1>1, Zenon DEF Sound, Tracks
<1> QED
  BY <1>1, <1>3, <1>4 DEF Sound

\* What is read is what was there, so that nothing changes.
LEMMA ReloadSound == ASSUME Sound, Reload PROVE Sound' /\ UNCHANGED vars
<1>1. /\ clean /\ broot' = FromDisk /\ fork' = dinode.fork
      /\ UNCHANGED <<below, ptrs, dinode, logged, clean, entries>>
  BY DEF Reload
<1>2. Stored
  BY <1>1, Zenon DEF Sound, OnDisk
<1>3. broot' = broot /\ fork' = fork
  BY <1>1, <1>2, Zenon DEF Stored
<1>4. Stored' /\ Tracks'
  BY <1>1, <1>2, <1>3, Zenon DEF Stored, Readable, FromDisk, Sound, Tracks
<1>5. OnDisk'
  BY <1>1, <1>3, <1>4, Zenon DEF Sound, OnDisk
<1> QED
  BY <1>1, <1>3, <1>4, <1>5 DEF Sound, vars

LEMMA SoundNext == ASSUME Sound, [Next]_vars PROVE Sound'
<1>1. CASE Next
  BY <1>1, ToBtreeSound, ToExtentsSound, InsertSound, DeleteSound, AttrForkSound, FlushSound, ReloadSound DEF Next
<1>2. CASE UNCHANGED vars
  <2>1. /\ broot' = broot /\ below' = below /\ ptrs' = ptrs /\ fork' = fork /\ dinode' = dinode
        /\ logged' = logged /\ clean' = clean /\ entries' = entries
    BY <1>2 DEF vars
  <2>2. Tracks'
    BY <2>1, Zenon DEF Sound, Tracks
  <2>3. Stored' = Stored
    BY <2>1, Zenon DEF Stored, Readable, FromDisk
  <2>4. OnDisk'
    BY <2>1, <2>3, Zenon DEF Sound, OnDisk
  <2> QED
    BY <2>1, <2>2, <2>4 DEF Sound
<1> QED
  BY <1>1, <1>2

LEMMA AlwaysSound == Spec => []Sound
<1>1. Init => Sound
  BY SoundInit
<1>2. Sound /\ [Next]_vars => Sound'
  BY SoundNext
<1> QED
  BY <1>1, <1>2, PTL DEF Spec

(***************************************************************************)
(* What follows from it at any time.                                       *)
(***************************************************************************)
LEMMA AreaOfUnits ==
  ASSUME NEW n \in Nat, NEW K, NEW P, Len(K) = n,
         \A i \in 1 .. n : K[i] \in Unit /\ P[i] \in Unit
  PROVE  AreaOf(K, P) \in Seq(Unit)
<1> DEFINE w == 2 * n
<1>1. AreaOf(K, P) \in [1 .. w -> Unit]
  <2>1. ASSUME NEW u \in 1 .. w PROVE (IF u <= n THEN K[u] ELSE P[u - n]) \in Unit
    <3>1. u \in 1 .. n \/ (~ (u <= n) /\ u - n \in 1 .. n)
      OBVIOUS
    <3> QED
      BY <3>1
  <2> QED
    BY <2>1 DEF AreaOf
<1>2. w \in Nat
  OBVIOUS
<1> HIDE DEF w
<1> QED
  BY <1>1, <1>2, FunctionSeq

LEMMA SoundType == Sound => TypeOK
<1> SUFFICES ASSUME Sound PROVE TypeOK
  OBVIOUS
<1> DEFINE d == DMaxRecs(fork)
           Typed == /\ broot.bytes \in Nat /\ broot.level \in 0 .. 2 /\ broot.recs \in Nat
                    /\ broot.bytes = 0 <=> broot.level = 0
                    /\ broot.area \in Seq(Unit)
                    /\ DOMAIN below \subseteq Block /\ \A p \in DOMAIN below : below[p] \in Seq(Key)
<1>1. Shape(broot, below, entries, d)
  BY DEF Sound, Tracks
<1> HIDE DEF d
<1>2. ASSUME NEW K \in Keys, One(K, broot, below, entries, d) PROVE Typed
  <2> DEFINE n == Len(K)
             L == Leaves(K)
  <2>1. /\ n \in Nat \ {0} /\ broot.bytes = Space(n) /\ broot.bytes # 0 /\ broot.level = 1
        /\ broot.recs = n /\ broot.area = AreaOf(K, L)
    BY <1>2, OneRead
  <2>2. \A i \in 1 .. n : K[i] \in Unit
    BY RangeOf DEF Unit
  <2>3. \A i \in 1 .. n : L[i] \in Unit
    BY LeavesOf, RangeOf DEF Unit
  <2>4. broot.area \in Seq(Unit)
    BY <2>1, <2>2, <2>3, AreaOfUnits
  <2>5. broot.bytes \in Nat
    BY <2>1, SpaceBack
  <2>6. DOMAIN below = {}
    BY <1>2 DEF One
  <2> QED
    BY <2>1, <2>4, <2>5, <2>6
<1>3. ASSUME NEW C \in Children, NEW P \in Seq(Block), Two(C, P, broot, below, entries, d) PROVE Typed
  <2> DEFINE n == Len(C)
             F == Firsts(C)
  <2>1. /\ n \in Nat \ {0} /\ broot.bytes = Space(n) /\ broot.bytes # 0 /\ broot.level = 2
        /\ broot.recs = n /\ broot.area = AreaOf(F, P) /\ F \in Keys /\ Of(n, F) /\ Of(n, P)
    BY <1>3, TwoRead
  <2>2. Len(F) = n /\ Len(P) = n
    BY <2>1 DEF Of
  <2>3. \A i \in 1 .. n : F[i] \in Unit
    BY <2>1, <2>2, RangeOf DEF Unit
  <2>4. \A i \in 1 .. n : P[i] \in Unit
    BY <2>2 DEF Unit
  <2>5. broot.area \in Seq(Unit)
    <3> HIDE DEF F, n
    <3> QED
      BY <2>1, <2>2, <2>3, <2>4, AreaOfUnits
  <2>6. broot.bytes \in Nat
    BY <2>1, SpaceBack
  <2>7. ASSUME NEW q \in DOMAIN below PROVE q \in Block /\ below[q] \in Seq(Key)
    <3>1. Len(P) = n /\ \E i \in 1 .. Len(P) : q = P[i]
      BY <1>3 DEF Two, Tree
    <3>2. PICK i \in 1 .. n : q = P[i]
      BY <3>1
    <3>3. below[q] = C[i] /\ C[i] \in Keys
      BY <1>3, <3>2, TwoRead
    <3> QED
      BY <3>1, <3>2, <3>3 DEF Keys
  <2> QED
    BY <2>1, <2>5, <2>6, <2>7
<1>4. Typed
  <2> HIDE DEF Typed
  <2>1. CASE NoTree(broot, below, entries)
    <3>1. broot = NoRoot /\ DOMAIN below = {}
      BY <2>1 DEF NoTree
    <3> QED
      BY <3>1 DEF NoRoot, Typed
  <2> QED
    BY <1>1, <1>2, <1>3, <2>1 DEF Shape
<1>5. /\ dinode.area \in Seq(Unit) /\ logged \in BOOLEAN /\ clean \in BOOLEAN
      /\ fork \in Forks \cup {Whole} /\ entries \subseteq Key
  BY DEF Sound, OnDisk, IsDinode
<1>6. \A k \in DOMAIN ptrs : k \in Key /\ ptrs[k] \in Unit
  <2>1. ptrs = IF broot.level = 2 THEN PtrsOf(entries) ELSE << >>
    BY DEF Sound, Tracks, Along
  <2>2. CASE broot.level = 2
    BY <2>1, <2>2, <1>5 DEF PtrsOf, Unit
  <2>3. CASE broot.level # 2
    BY <2>1, <2>3
  <2> QED
    BY <2>2, <2>3
<1> HIDE DEF Typed
<1>7. /\ broot.bytes \in Nat /\ broot.level \in 0 .. 2 /\ broot.recs \in Nat
      /\ broot.bytes = 0 <=> broot.level = 0
      /\ broot.area \in Seq(Unit)
      /\ DOMAIN below \subseteq Block /\ \A p \in DOMAIN below : below[p] \in Seq(Key)
  BY <1>4 DEF Typed
<1> QED
  BY <1>5, <1>6, <1>7, Zenon DEF TypeOK

LEMMA SoundFits == Sound => RootFits
<1> SUFFICES ASSUME Sound, broot.bytes > 0
             PROVE  Cap(broot) = broot.recs /\ broot.bytes <= fork + LblockLen - BmdrLen
  BY DEF RootFits
<1> DEFINE d == DMaxRecs(fork)
<1>1. Shape(broot, below, entries, d)
  BY DEF Sound, Tracks
<1>2. fork \in Nat
  BY Room DEF Sound
<1>3. ~ NoTree(broot, below, entries)
  BY DEF NoTree, NoRoot
<1>4. ASSUME NEW K \in Keys, One(K, broot, below, entries, d)
      PROVE  \E n \in Nat : Cap(broot) = n /\ broot.recs = n /\ broot.bytes = Space(n) /\ n <= d
  <2>1. Len(K) \in Nat /\ Cap(broot) = Len(K) /\ broot.recs = Len(K) /\ broot.bytes = Space(Len(K))
    BY <1>4, OneRead
  <2>2. Len(K) <= d
    BY <1>4 DEF One
  <2> QED
    BY <2>1, <2>2
<1>5. ASSUME NEW C \in Children, NEW P \in Seq(Block), Two(C, P, broot, below, entries, d)
      PROVE  \E n \in Nat : Cap(broot) = n /\ broot.recs = n /\ broot.bytes = Space(n) /\ n <= d
  <2>1. Len(C) \in Nat /\ Cap(broot) = Len(C) /\ broot.recs = Len(C) /\ broot.bytes = Space(Len(C))
    BY <1>5, TwoRead
  <2>2. Len(C) <= d
    BY <1>5, <2>1 DEF Two
  <2> QED
    BY <2>1, <2>2
<1>6. PICK n \in Nat : Cap(broot) = n /\ broot.recs = n /\ broot.bytes = Space(n) /\ n <= d
  BY <1>1, <1>3, <1>4, <1>5 DEF Shape
<1> QED
  BY <1>2, <1>6, RoomFits

LEMMA SoundLeads == Sound => RootLeadsToLeaves
<1> SUFFICES ASSUME Sound PROVE RootLeadsToLeaves
  OBVIOUS
<1> DEFINE d == DMaxRecs(fork)
<1>1. Shape(broot, below, entries, d)
  BY DEF Sound, Tracks
<1> HIDE DEF d
<1>2. CASE NoTree(broot, below, entries)
  <2>1. broot.recs = 0 /\ entries = {}
    BY <1>2 DEF NoTree, NoRoot
  <2> QED
    BY <2>1 DEF RootLeadsToLeaves
<1>3. ASSUME NEW K \in Keys, One(K, broot, below, entries, d) PROVE RootLeadsToLeaves
  <2> DEFINE n == Len(K)
  <2>1. n \in Nat \ {0} /\ broot.recs = n /\ broot.level = 1
    BY <1>3, OneRead
  <2>2. \A i \in 1 .. n : KeyAt(broot, i) = K[i] /\ PtrAt(broot, i) = Leaf(K[i])
    BY <1>3, OneRead
  <2>3. \A i \in 1 .. n : Under(i) = <<K[i]>>
    BY <2>1, <2>2 DEF Under
  <2>4. Sorted(K) /\ Range(K) = entries
    BY <1>3 DEF One
  <2>5. \A i \in 1 .. n : /\ PtrAt(broot, i) = Leaf(KeyAt(broot, i))
                          /\ Under(i) # << >> /\ KeyAt(broot, i) = Under(i)[1]
    BY <2>2, <2>3
  <2>6. entries = UNION {Range(Under(i)) : i \in 1 .. n}
    <3>1. \A i \in 1 .. n : Range(Under(i)) = {K[i]}
      BY <2>3 DEF Range
    <3>2. \A x : x \in Range(K) <=> \E i \in 1 .. n : x = K[i]
      BY RangeOf
    <3> QED
      BY <2>4, <3>1, <3>2
  <2>7. ASSUME NEW i \in 1 .. n, NEW j \in 1 .. n, NEW x \in DOMAIN Under(i), NEW y \in DOMAIN Under(j),
               i < j \/ (i = j /\ x < y)
        PROVE  Under(i)[x] < Under(j)[y]
    <3>1. x = 1 /\ y = 1 /\ Under(i)[x] = K[i] /\ Under(j)[y] = K[j]
      BY <2>3
    <3> QED
      BY <2>4, <2>7, <3>1 DEF Sorted
  <2> HIDE DEF n
  <2> QED
    BY <2>1, <2>5, <2>6, <2>7 DEF RootLeadsToLeaves
<1>4. ASSUME NEW C \in Children, NEW P \in Seq(Block), Two(C, P, broot, below, entries, d)
      PROVE  RootLeadsToLeaves
  <2> DEFINE n == Len(C)
  <2>1. n \in Nat \ {0} /\ broot.recs = n /\ broot.level = 2
    BY <1>4, TwoRead
  <2>2. \A i \in 1 .. n : /\ KeyAt(broot, i) = C[i][1] /\ PtrAt(broot, i) = P[i]
                          /\ P[i] \in DOMAIN below /\ below[P[i]] = C[i]
                          /\ C[i] \in Keys /\ Sorted(C[i]) /\ C[i] # << >>
    BY <1>4, TwoRead
  <2>3. \A i \in 1 .. n : Under(i) = C[i]
    BY <2>1, <2>2 DEF Under
  <2>4. Chained(C) /\ Holding(C, entries)
    BY <1>4 DEF Two, Family
  <2>8. ASSUME NEW i \in 1 .. n, NEW k \in Range(Under(i)) PROVE k \in DOMAIN ptrs /\ ptrs[k] = Leaf(k)
    <3>1. ptrs = PtrsOf(entries)
      BY <2>1, Zenon DEF Sound, Tracks, Along
    <3>2. k \in entries
      BY <2>3, <2>4 DEF Holding
    <3> QED
      BY <3>1, <3>2 DEF PtrsOf
  <2>5. \A i \in 1 .. n : /\ PtrAt(broot, i) \in DOMAIN below
                          /\ \A k \in Range(Under(i)) : k \in DOMAIN ptrs /\ ptrs[k] = Leaf(k)
                          /\ Under(i) # << >> /\ KeyAt(broot, i) = Under(i)[1]
    BY <2>2, <2>3, <2>8
  <2>6. entries = UNION {Range(Under(i)) : i \in 1 .. n}
    BY <2>3, <2>4 DEF Holding
  <2>7. ASSUME NEW i \in 1 .. n, NEW j \in 1 .. n, NEW x \in DOMAIN Under(i), NEW y \in DOMAIN Under(j),
               i < j \/ (i = j /\ x < y)
        PROVE  Under(i)[x] < Under(j)[y]
    <3>1. C[i] \in Keys /\ C[j] \in Keys
      BY <2>2
    <3>2. /\ x \in 1 .. Len(C[i]) /\ y \in 1 .. Len(C[j])
          /\ C[i][x] \in Range(C[i]) /\ C[j][y] \in Range(C[j])
      BY <2>3, <3>1, RangeOf
    <3>3. CASE i < j
      BY <2>3, <2>4, <3>2, <3>3 DEF Chained, Before
    <3>4. CASE i = j /\ x < y
      BY <2>2, <2>3, <3>2, <3>4 DEF Sorted
    <3> QED
      BY <2>7, <3>3, <3>4
  <2> HIDE DEF n
  <2> QED
    BY <2>1, <2>5, <2>6, <2>7 DEF RootLeadsToLeaves
<1> QED
  BY <1>1, <1>2, <1>3, <1>4 DEF Shape

(***************************************************************************)
(* The theorems.                                                           *)
(***************************************************************************)
\* The root's buffer, the blocks below it and the fork on disk hold what they
\* are declared to hold, and there is a buffer just as there is a tree.
THEOREM RootTypeCorrect == Spec => []TypeOK
<1>1. Sound => TypeOK
  BY SoundType
<1> QED
  BY <1>1, AlwaysSound, PTL

\* Whatever xfs_iroot_realloc, xfs_btree_new_iroot, xfs_btree_kill_iroot and the
\* trip to disk move, the root leads to every leaf once and in order, by pointers
\* that a new level has copied out before the buffer shrank, and its
\* keys are the first ones below its pointers: for any fork, block size and file.
THEOREM RootAlwaysLeads == Spec => []RootLeadsToLeaves
<1>1. Sound => RootLeadsToLeaves
  BY SoundLeads
<1> QED
  BY <1>1, AlwaysSound, PTL

\* The root's buffer is as large as its records need and never larger than what
\* the fork on disk takes, whatever room an attribute fork takes from it.
THEOREM RootAlwaysFits == Spec => []RootFits
<1>1. Sound => RootFits
  BY SoundFits
<1> QED
  BY <1>1, AlwaysSound, PTL

\* xfs_bmdr_to_bmbt makes of an inode that was flushed the very root there is:
\* whatever changed the root, or the room of its fork, has logged it, so that
\* xfs_iflush_fork has written it; and xfs_iformat_btree takes what it wrote.
THEOREM FlushedIsAlwaysRead == Spec => []FlushedIsRead
<1>1. Sound => FlushedIsRead
  BY Zenon DEF Sound, OnDisk, Stored, FlushedIsRead
<1> QED
  BY <1>1, AlwaysSound, PTL

\* Reading back an inode that has not changed since it was flushed is no change
\* at all: every step of Reload leaves all variables as they are.
THEOREM ReloadChangesNothing == Spec => [][Reload => UNCHANGED vars]_vars
<1>1. Sound /\ [Next]_vars => [Reload => UNCHANGED vars]_vars
  BY ReloadSound
<1> QED
  BY <1>1, AlwaysSound, PTL DEF Spec
=============================================================================
